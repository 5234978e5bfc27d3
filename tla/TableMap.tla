------------------------------- MODULE TableMap -----------------------------
(***************************************************************************)
(* What a run-time table promises an Alpha program: a mapping from keys to *)
(* values in which nil stands for the absence of a binding.  NaN is never  *)
(* found again, yet every binding of it is counted and enumerated.         *)
(***************************************************************************)
EXTENDS Naturals, FiniteSets

CONSTANTS Keys, Values, NIL, NAN, Hashable, StringOf, COLLECTED

VARIABLES
  map,     \* value of each key that can be found
  lost,    \* number of bindings of NaN
  answer   \* what the last library call or lookup returned

vars == <<map, lost, answer>>

Findable == Hashable \ {NAN}
Bound == {k \in Findable : map[k] # NIL}
Members ==
  LET n == Cardinality(Bound) + lost
  IN  IF n <= COLLECTED THEN n ELSE COLLECTED

Init ==
  /\ map = [k \in Findable |-> NIL]
  /\ lost = 0
  /\ answer = << >>

Set(k, v) ==
  /\ map' = IF k \in Findable THEN [map EXCEPT ![k] = v] ELSE map
  /\ lost' = IF k = NAN /\ v # NIL THEN lost + 1 ELSE lost
  /\ answer' = << >>

Get(k) ==
  /\ answer' = <<CASE k \in Bound -> map[k]
                   [] k \in DOMAIN StringOf \ Bound -> map[StringOf[k]]
                   [] OTHER -> NIL>>
  /\ UNCHANGED <<map, lost>>

TotalMembers ==
  /\ answer' = <<Members>>
  /\ UNCHANGED <<map, lost>>

(* Every bound key once, and NaN as often as it is bound, in any order, as  *)
(* long as they all fit.                                                    *)
MemberKeys ==
  /\ DOMAIN answer' = 1 .. Members
  /\ \A i \in 1 .. Members : answer'[i] \in Bound \cup {NAN}
  /\ \A k \in Bound : Cardinality({i \in 1 .. Members : answer'[i] = k}) <= 1
  /\ Cardinality({i \in 1 .. Members : answer'[i] = NAN}) <= lost
  /\ UNCHANGED <<map, lost>>

PrintTable ==
  /\ answer' = <<NIL>>
  /\ UNCHANGED <<map, lost>>

Next ==
  \/ \E k \in Keys, v \in Values \cup {NIL} : Set(k, v)
  \/ \E k \in Keys : Get(k)
  \/ TotalMembers \/ MemberKeys \/ PrintTable

Spec == Init /\ [][Next]_vars
=============================================================================
