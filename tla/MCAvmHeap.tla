------------------------------ MODULE MCAvmHeap -----------------------------
(* AvmHeap with a few tables; addresses and cells are interchangeable. *)
EXTENDS AvmHeapProps, TLC

CONSTANTS TableKeys  \* the tables used as keys

MCScalars == 0 .. MaxMembers - 1
MCKeys == MCScalars \cup TableKeys
Interchangeable == Permutations(Tables) \cup Permutations(Cells)
=============================================================================
