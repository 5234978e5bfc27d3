---------------------------- MODULE AvmRunProofs ----------------------------
(***************************************************************************)
(* Proofs about generated code and the machine that runs it: that every    *)
(* jump goes where its quad says, what the variables may hold, which       *)
(* function a name reaches, and that the code of a function is entered by  *)
(* calls only; and, in the second half, that the code does what its quads  *)
(* say.  They hold for programs of any length, any names, comparisons and  *)
(* numbers, and arrays of any size.                                        *)
(***************************************************************************)
EXTENDS AvmRunProps, FiniteSetTheorems, SequenceTheorems, TLAPS

(* Quads 0 .. currQuad - 1, each with a label that numbers a quad. *)
IsProgram(q) ==
  /\ NextQuad(q) \in Nat /\ DOMAIN q = 0 .. NextQuad(q) - 1
  /\ \A i \in DOMAIN q : "label" \in DOMAIN q[i] /\ q[i].label \in Nat

(* A sequence, of whatever elements; instructions have a result to patch. *)
Elements(s) == {s[i] : i \in DOMAIN s}
IsSeq(s) == s \in Seq(Elements(s))
HasTarget(c) == "result" \in DOMAIN c /\ "value" \in DOMAIN c.result
IsCode(s) == IsSeq(s) /\ \A i \in DOMAIN s : HasTarget(s[i])

-----------------------------------------------------------------------------
(* What the helpers on quads and sequences return. *)

LEMMA EmitProgram ==
  ASSUME NEW q, IsProgram(q), NEW x, "label" \in DOMAIN x, x.label \in Nat
  PROVE  IsProgram(Emit(q, x)) /\ NextQuad(Emit(q, x)) = NextQuad(q) + 1
<1> DEFINE n == NextQuad(q)
           e == Emit(q, x)
<1>1. n \in Nat /\ DOMAIN q = 0 .. n - 1
  BY DEF IsProgram
<1> HIDE DEF n
<1>2. e = [i \in 0 .. n |-> IF i = n THEN x ELSE q[i]]
  BY DEF Emit, n
<1>3. DOMAIN e = 0 .. n
  BY <1>2
<1>4. NextQuad(e) = n + 1
  BY <1>1, <1>3, FS_Interval DEF NextQuad
<1>5. ASSUME NEW i \in DOMAIN e
      PROVE  "label" \in DOMAIN e[i] /\ e[i].label \in Nat
  <2>1. CASE i = n
    BY <1>2, <1>3, <2>1
  <2>2. CASE i # n
    <3>1. i \in DOMAIN q /\ e[i] = q[i]
      BY <1>1, <1>2, <1>3, <2>2
    <3>2. QED BY <3>1 DEF IsProgram
  <2>3. QED BY <2>1, <2>2
<1>6. DOMAIN e = 0 .. NextQuad(e) - 1 /\ NextQuad(e) \in Nat
  BY <1>1, <1>3, <1>4
<1> HIDE DEF e
<1>7. IsProgram(e) /\ NextQuad(e) = n + 1
  BY <1>4, <1>5, <1>6 DEF IsProgram
<1>8. QED BY <1>7 DEF e, n

LEMMA LabelledProgram ==
  ASSUME NEW q, IsProgram(q), NEW S, NEW l \in Nat
  PROVE  IsProgram(Labelled(q, S, l)) /\ NextQuad(Labelled(q, S, l)) = NextQuad(q)
<1> DEFINE e == Labelled(q, S, l)
<1>1. DOMAIN e = DOMAIN q
  BY DEF Labelled
<1>2. NextQuad(e) = NextQuad(q)
  BY <1>1 DEF NextQuad
<1>3. ASSUME NEW i \in DOMAIN e
      PROVE  "label" \in DOMAIN e[i] /\ e[i].label \in Nat
  <2>1. "label" \in DOMAIN q[i] /\ q[i].label \in Nat
    BY <1>1 DEF IsProgram
  <2>2. e[i] = IF i \in S THEN [q[i] EXCEPT !.label = l] ELSE q[i]
    BY <1>1 DEF Labelled
  <2>3. QED BY <2>1, <2>2
<1> HIDE DEF e
<1>4. IsProgram(e)
  BY <1>1, <1>2, <1>3 DEF IsProgram
<1>5. QED BY <1>2, <1>4 DEF e

LEMMA SeqIsSeq ==
  ASSUME NEW S, NEW s \in Seq(S)
  PROVE  /\ IsSeq(s) /\ Len(s) \in Nat /\ DOMAIN s = 1 .. Len(s)
         /\ \A i \in DOMAIN s : s[i] \in S
<1>1. Len(s) \in Nat /\ s \in [1 .. Len(s) -> S] /\ DOMAIN s = 1 .. Len(s)
  BY LenProperties
<1>2. s \in [1 .. Len(s) -> Elements(s)]
  BY <1>1 DEF Elements
<1>3. s \in Seq(Elements(s))
  BY <1>1, <1>2
<1>4. QED BY <1>1, <1>3 DEF IsSeq

LEMMA ConcatCode ==
  ASSUME NEW s, NEW t, IsCode(s), IsCode(t)
  PROVE  /\ IsCode(s \o t) /\ Len(s \o t) = Len(s) + Len(t)
         /\ \A i \in DOMAIN s : i \in DOMAIN (s \o t) /\ (s \o t)[i] = s[i]
         /\ \A i \in DOMAIN t : (s \o t)[Len(s) + i] = t[i]
<1> DEFINE E == Elements(s) \cup Elements(t)
           c == s \o t
<1>1. s \in Seq(E) /\ t \in Seq(E)
  BY SeqMonotonic DEF IsCode, IsSeq
<1> HIDE DEF E
<1>2. /\ Len(s) \in Nat /\ DOMAIN s = 1 .. Len(s)
      /\ Len(t) \in Nat /\ DOMAIN t = 1 .. Len(t)
  BY <1>1, LenProperties
<1>3. /\ c \in Seq(E) /\ Len(c) = Len(s) + Len(t)
      /\ \A i \in 1 .. Len(s) + Len(t) : c[i] = IF i <= Len(s) THEN s[i] ELSE t[i - Len(s)]
  BY <1>1, ConcatProperties
<1>4. DOMAIN c = 1 .. Len(s) + Len(t) /\ IsSeq(c)
  BY <1>3, SeqIsSeq
<1> HIDE DEF c
<1>5. \A i \in DOMAIN s : i \in DOMAIN c /\ c[i] = s[i]
  BY <1>2, <1>3, <1>4
<1>6. \A i \in DOMAIN t : c[Len(s) + i] = t[i]
  BY <1>2, <1>3, <1>4
<1>7. \A i \in DOMAIN c : (i \in DOMAIN s /\ c[i] = s[i]) \/ (i - Len(s) \in DOMAIN t /\ c[i] = t[i - Len(s)])
  BY <1>2, <1>3, <1>4
<1>8. \A i \in DOMAIN c : HasTarget(c[i])
  BY <1>7 DEF IsCode
<1>9. QED BY <1>3, <1>4, <1>5, <1>6, <1>8 DEF c, IsCode

LEMMA TargetCode ==
  ASSUME NEW s, IsCode(s), NEW a \in Nat, NEW l
  PROVE  /\ IsCode(Target(s, a, l)) /\ Len(Target(s, a, l)) = Len(s)
         /\ \A i \in DOMAIN s : i # a + 1 => Target(s, a, l)[i] = s[i]
<1> DEFINE c == Target(s, a, l)
           E == Elements(s) \cup Elements(c)
<1>1. Len(s) \in Nat /\ DOMAIN s = 1 .. Len(s)
  BY SeqIsSeq DEF IsCode, IsSeq
<1>2. DOMAIN c = DOMAIN s /\ \A i \in DOMAIN s : i # a + 1 => c[i] = s[i]
  BY DEF Target
<1>3. \A i \in DOMAIN c : HasTarget(c[i])
  <2>1. SUFFICES ASSUME NEW i \in DOMAIN c PROVE HasTarget(c[i])
    OBVIOUS
  <2>2. HasTarget(s[i]) /\ i \in DOMAIN s
    BY <1>2 DEF IsCode
  <2>3. CASE i = a + 1
    <3>1. c[i] = [s[i] EXCEPT !.result.value = l]
      BY <2>2, <2>3 DEF Target
    <3>2. DOMAIN c[i] = DOMAIN s[i]
      BY <3>1
    <3>3. c[i].result = [s[i].result EXCEPT !.value = l]
      BY <3>1, <2>2 DEF HasTarget
    <3>4. DOMAIN c[i].result = DOMAIN s[i].result
      BY <3>3
    <3>5. QED BY <2>2, <3>2, <3>4 DEF HasTarget
  <2>4. CASE i # a + 1
    BY <1>2, <2>2, <2>4
  <2>5. QED BY <2>3, <2>4
<1>4. c = [i \in 1 .. Len(s) |-> c[i]]
  BY <1>1, <1>2 DEF Target
<1>5. c \in [1 .. Len(s) -> Elements(c)]
  BY <1>1, <1>2, <1>4 DEF Elements
<1> HIDE DEF c
<1>6. c \in Seq(Elements(c)) /\ Len(c) = Len(s)
  BY <1>1, <1>5
<1>7. QED BY <1>2, <1>3, <1>6 DEF IsCode, IsSeq, c

(* Instructions as the generator writes them have a result to patch. *)
LEMMA InstructionHasTarget ==
  ASSUME NEW op, NEW a, NEW b, NEW t, NEW v
  PROVE  /\ HasTarget(Instruction(op, a, b, Arg(t, v)))
         /\ Instruction(op, a, b, Arg(t, v)).result.value = v
BY DEF HasTarget, Instruction, Arg

(* The code of one instruction, or of three. *)
LEMMA OneIsCode ==
  ASSUME NEW c, HasTarget(c)
  PROVE  IsCode(<<c>>) /\ Len(<<c>>) = 1 /\ DOMAIN <<c>> = {1} /\ <<c>>[1] = c
<1>1. <<c>> \in Seq({c}) /\ Len(<<c>>) = 1 /\ <<c>>[1] = c /\ DOMAIN <<c>> = {1}
  OBVIOUS
<1>2. IsSeq(<<c>>)
  BY <1>1, SeqIsSeq
<1>3. QED BY <1>1, <1>2 DEF IsCode

LEMMA ThreeAreCode ==
  ASSUME NEW c, HasTarget(c), NEW d, HasTarget(d), NEW e, HasTarget(e)
  PROVE  IsCode(<<c, d, e>>) /\ Len(<<c, d, e>>) = 3
<1>1. <<c, d, e>> \in Seq({c, d, e}) /\ Len(<<c, d, e>>) = 3
  OBVIOUS
<1>2. IsSeq(<<c, d, e>>)
  BY <1>1, SeqIsSeq
<1>3. \A i \in DOMAIN <<c, d, e>> : HasTarget(<<c, d, e>>[i])
  OBVIOUS
<1>4. QED BY <1>1, <1>2, <1>3 DEF IsCode

-----------------------------------------------------------------------------
(* The inductive invariant. *)

IsJump(i) == quads[i].op \in DOMAIN JumpOpcode
TargetOf(i) == instructions[taddress[i + 1] + 1].result.value

(* While the program is written nothing is generated, and a construct that  *)
(* is open has begun at a quad.                                             *)
Construct == [kind : {"if", "while", "function"}, start : Nat, scope : Nat]
Written ==
  /\ IsProgram(quads)
  /\ open \in Seq(Construct)
  /\ phase = "parse" =>
       /\ next = 0 /\ instructions = << >> /\ taddress = << >> /\ ijumps = {}
       /\ func_skip_stack = << >>

(* The quads before next have code, one behind the other. *)
Ordered ==
  /\ next \in 0 .. currQuad
  /\ IsCode(instructions)
  /\ taddress \in Seq(Nat) /\ Len(taddress) = next
  /\ \A i \in 1 .. next : taddress[i] < Len(instructions)
  /\ \A i, j \in 1 .. next : i < j => taddress[i] < taddress[j]

(* A jump is listed under its address and with its label, or complete. *)
ListedJumps ==
  \A j \in ijumps : \E i \in 0 .. next - 1 :
    IsJump(i) /\ j = <<taddress[i + 1], quads[i].label>>
Listed(i) == <<taddress[i + 1], quads[i].label>> \in ijumps
Complete(i) == quads[i].label < next /\ TargetOf(i) = taddress[quads[i].label + 1]
JumpsInHand == \A i \in 0 .. next - 1 : IsJump(i) => Listed(i) \/ Complete(i)

(* The instruction GenerateFuncEnd patches is no jump of a quad. *)
SkipsApart ==
  /\ func_skip_stack \in Seq(Nat)
  /\ \A k \in DOMAIN func_skip_stack :
       /\ func_skip_stack[k] < Len(instructions)
       /\ \A i \in 0 .. next - 1 : IsJump(i) => taddress[i + 1] # func_skip_stack[k]

Generation == Ordered /\ ListedJumps /\ JumpsInHand /\ SkipsApart

GenerationInv ==
  /\ Written
  /\ phase = "generate" => Generation
  /\ JumpsResolved

-----------------------------------------------------------------------------
(* One quad is generated. *)

LEMMA OrderedStep ==
  ASSUME Ordered, next < currQuad, UNCHANGED quads, currQuad \in Nat,
         IsCode(instructions'), Len(instructions') > Len(instructions),
         taddress' = Append(taddress, currInstruction), next' = next + 1
  PROVE  /\ Ordered'
         /\ \A i \in 1 .. next : taddress'[i] = taddress[i]
         /\ taddress'[next + 1] = Len(instructions)
<1>1. Len(instructions) \in Nat /\ Len(instructions') \in Nat
  BY SeqIsSeq DEF Ordered, IsCode, IsSeq
<1>2. next \in Nat /\ taddress \in Seq(Nat) /\ Len(taddress) = next
  BY DEF Ordered
<1>3. taddress' \in Seq(Nat) /\ Len(taddress') = next + 1
  BY <1>1, <1>2 DEF currInstruction
<1>4. /\ \A i \in 1 .. next : taddress'[i] = taddress[i]
      /\ taddress'[next + 1] = Len(instructions)
  BY <1>1, <1>2 DEF currInstruction
<1>4a. \A i \in 1 .. next : taddress[i] \in Nat
  BY <1>2
<1>5. \A i \in 1 .. next' : taddress'[i] < Len(instructions')
  BY <1>1, <1>2, <1>4, <1>4a DEF Ordered
<1>6. ASSUME NEW i \in 1 .. next', NEW j \in 1 .. next', i < j
      PROVE  taddress'[i] < taddress'[j]
  <2>1. i \in Nat /\ j \in Nat /\ i \in 1 .. next
    BY <1>2, <1>6
  <2>2. CASE j \in 1 .. next
    BY <1>4, <1>6, <2>1, <2>2 DEF Ordered
  <2>3. CASE j = next + 1
    <3>1. taddress'[i] = taddress[i] /\ taddress'[j] = Len(instructions)
      BY <1>4, <2>1, <2>3
    <3>2. QED BY <3>1, <2>1 DEF Ordered
  <2>4. QED BY <1>2, <2>1, <2>2, <2>3
<1>7. next' \in 0 .. currQuad'
  BY <1>2 DEF currQuad
<1>8. QED BY <1>3, <1>4, <1>5, <1>6, <1>7 DEF Ordered

(* The address of a quad is that of an instruction. *)
LEMMA AddressesInCode ==
  ASSUME Generation
  PROVE  \A i \in 0 .. next - 1 : /\ i + 1 \in 1 .. next /\ taddress[i + 1] \in Nat
                                  /\ taddress[i + 1] + 1 \in DOMAIN instructions
<1>1. /\ next \in Nat /\ taddress \in Seq(Nat) /\ Len(taddress) = next
      /\ \A i \in 1 .. next : taddress[i] < Len(instructions)
      /\ Len(instructions) \in Nat /\ DOMAIN instructions = 1 .. Len(instructions)
  <2>1. next \in Nat
    BY DEF Generation, Ordered
  <2>2. Len(instructions) \in Nat /\ DOMAIN instructions = 1 .. Len(instructions)
    BY SeqIsSeq DEF Generation, Ordered, IsCode, IsSeq
  <2>3. QED BY <2>1, <2>2 DEF Generation, Ordered
<1>2. SUFFICES ASSUME NEW i \in 0 .. next - 1
      PROVE  /\ i + 1 \in 1 .. next /\ taddress[i + 1] \in Nat
             /\ taddress[i + 1] + 1 \in DOMAIN instructions
  OBVIOUS
<1>3. i + 1 \in 1 .. next
  BY <1>1
<1>4. PICK a \in Nat : taddress[i + 1] = a
  BY <1>1, <1>3
<1>5. a < Len(instructions)
  BY <1>1, <1>3, <1>4
<1>6. QED BY <1>1, <1>3, <1>4, <1>5

(* What was in hand stays in hand when no jump is rewritten. *)
LEMMA JumpsKept ==
  ASSUME Generation, IsProgram(quads), next < currQuad, UNCHANGED quads,
         IsCode(instructions'), Len(instructions') > Len(instructions),
         taddress' = Append(taddress, currInstruction), next' = next + 1,
         ijumps \subseteq ijumps',
         \A i \in 0 .. next - 1 : IsJump(i) =>
            instructions'[taddress[i + 1] + 1].result.value = TargetOf(i)
  PROVE  /\ \A i \in 0 .. next - 1 : IsJump(i)' => (Listed(i) \/ Complete(i))'
         /\ \A j \in ijumps : \E i \in 0 .. next - 1 :
              IsJump(i)' /\ j = <<taddress'[i + 1], quads'[i].label>>
<1>1. currQuad \in Nat /\ next \in Nat /\ next <= currQuad
  BY DEF IsProgram, currQuad, Generation, Ordered
<1>2. \A i \in 1 .. next : taddress'[i] = taddress[i]
  BY <1>1, OrderedStep DEF Generation
<1>2a. \A i \in 0 .. next - 1 : i + 1 \in 1 .. next
  BY <1>1
<1>3. \A i \in 0 .. next - 1 : i + 1 \in 1 .. next /\ taddress'[i + 1] = taddress[i + 1]
  BY <1>2, <1>2a
<1>4. ASSUME NEW i \in 0 .. next - 1, IsJump(i)'
      PROVE  (Listed(i) \/ Complete(i))'
  <2>1. IsJump(i)
    BY <1>4 DEF IsJump
  <2>2. CASE Listed(i)
    BY <1>3, <2>2 DEF Listed
  <2>3. CASE Complete(i)
    <3>1. quads[i].label \in Nat
      BY <1>1 DEF IsProgram, currQuad
    <3>2. quads[i].label \in 0 .. next - 1
      BY <1>1, <2>3, <3>1 DEF Complete
    <3>3. TargetOf(i)' = TargetOf(i)
      BY <1>3, <2>1 DEF TargetOf
    <3>4. PICK l \in 0 .. next - 1 : quads[i].label = l
      BY <3>2
    <3>4a. l < next + 1
      BY <1>1
    <3>5. l < next + 1 /\ taddress'[l + 1] = taddress[l + 1]
      BY <1>3, <3>4a
    <3>6. TargetOf(i)' = taddress'[l + 1]
      BY <2>3, <3>3, <3>4, <3>5 DEF Complete
    <3>7. quads'[i].label = l /\ quads'[i].label < next'
      BY <3>4, <3>5
    <3>8. QED BY <3>6, <3>7 DEF Complete
  <2>4. QED BY <2>1, <2>2, <2>3 DEF Generation, JumpsInHand
<1>5. ASSUME NEW j \in ijumps
      PROVE  \E i \in 0 .. next - 1 :
               IsJump(i)' /\ j = <<taddress'[i + 1], quads'[i].label>>
  <2>1. PICK i \in 0 .. next - 1 : IsJump(i) /\ j = <<taddress[i + 1], quads[i].label>>
    BY DEF Generation, ListedJumps
  <2>2. IsJump(i)' /\ j = <<taddress'[i + 1], quads'[i].label>>
    BY <1>3, <2>1 DEF IsJump
  <2>3. QED BY <2>2
<1>6. QED BY <1>4, <1>5

(* The jumps over functions stay apart from the jumps of quads when none is *)
(* added.                                                                  *)
LEMMA SkipsKept ==
  ASSUME Generation, IsProgram(quads), next < currQuad, UNCHANGED <<quads, func_skip_stack>>,
         IsCode(instructions'), Len(instructions') > Len(instructions),
         taddress' = Append(taddress, currInstruction), next' = next + 1
  PROVE  SkipsApart'
<1>1. /\ currQuad \in Nat /\ next \in Nat
      /\ Len(instructions) \in Nat /\ Len(instructions') \in Nat
  BY SeqIsSeq DEF IsProgram, currQuad, Generation, Ordered, IsCode, IsSeq
<1>2. /\ \A i \in 1 .. next : taddress'[i] = taddress[i]
      /\ taddress'[next + 1] = Len(instructions)
  BY <1>1, OrderedStep DEF Generation
<1>3. ASSUME NEW k \in DOMAIN func_skip_stack
      PROVE  /\ func_skip_stack[k] < Len(instructions')
             /\ \A i \in 0 .. next' - 1 : IsJump(i)' => taddress'[i + 1] # func_skip_stack[k]
  <2>1. PICK a \in Nat : func_skip_stack[k] = a
    BY DEF Generation, SkipsApart
  <2>2. a < Len(instructions)
    BY <2>1 DEF Generation, SkipsApart
  <2>3. ASSUME NEW i \in 0 .. next, IsJump(i)'
        PROVE  taddress'[i + 1] # a
    <3>1. CASE i = next
      <4>1. taddress'[i + 1] = Len(instructions)
        BY <1>2, <3>1
      <4>2. QED BY <1>1, <2>2, <4>1
    <3>2. CASE i # next
      <4>1. i \in 0 .. next - 1 /\ i + 1 \in 1 .. next
        BY <1>1, <3>2
      <4>2. IsJump(i)
        BY <2>3 DEF IsJump
      <4>3. QED BY <1>2, <2>1, <4>1, <4>2 DEF Generation, SkipsApart
    <3>3. QED BY <3>1, <3>2
  <2>4. a < Len(instructions') /\ next' - 1 = next
    BY <1>1, <2>2
  <2>5. QED BY <2>1, <2>3, <2>4
<1>4. QED BY <1>3 DEF SkipsApart, Generation

(* What the code of the next quad must be for the invariant to be kept.     *)
LEMMA QuadStep ==
  ASSUME GenerationInv, phase = "generate", UNCHANGED <<quads, open, phase>>,
         next < currQuad,
         IsCode(instructions'), Len(instructions') > Len(instructions),
         taddress' = Append(taddress, currInstruction), next' = next + 1,
         \A i \in 0 .. next - 1 : IsJump(i) =>
            instructions'[taddress[i + 1] + 1].result.value = TargetOf(i),
         ijumps \subseteq ijumps',
         \A j \in ijumps' :
            j \in ijumps \/ (IsJump(next) /\ j = <<currInstruction, quads[next].label>>),
         IsJump(next) =>
            \/ <<currInstruction, quads[next].label>> \in ijumps'
            \/ /\ quads[next].label < next
               /\ instructions'[currInstruction + 1].result.value = taddress[quads[next].label + 1],
         SkipsApart'
  PROVE  GenerationInv'
<1>1. IsProgram(quads) /\ Generation /\ currQuad \in Nat /\ next \in Nat
  BY DEF GenerationInv, Written, IsProgram, currQuad, Generation, Ordered
<1>1a. PICK n \in Nat : next = n
  BY <1>1
<1>2. /\ Ordered' /\ taddress'[n + 1] = currInstruction
      /\ \A i \in 1 .. n : taddress'[i] = taddress[i]
  BY <1>1, <1>1a, OrderedStep DEF Generation, currInstruction
<1>3. /\ \A i \in 0 .. n - 1 : IsJump(i)' => (Listed(i) \/ Complete(i))'
      /\ \A j \in ijumps : \E i \in 0 .. n - 1 :
           IsJump(i)' /\ j = <<taddress'[i + 1], quads'[i].label>>
  BY <1>1, <1>1a, JumpsKept
<1>4. next' = n + 1 /\ next' - 1 = n /\ (\A i \in 0 .. n : i = n \/ i \in 0 .. n - 1)
      /\ 0 .. n - 1 \subseteq 0 .. n /\ n \in 0 .. n
  BY <1>1a
<1>5. IsJump(n)' <=> IsJump(n)
  BY DEF IsJump
<1>6. ASSUME NEW j \in ijumps'
      PROVE  \E i \in 0 .. n : IsJump(i)' /\ j = <<taddress'[i + 1], quads'[i].label>>
  <2>1. CASE j \in ijumps
    BY <1>3, <1>4, <2>1
  <2>2. CASE IsJump(n) /\ j = <<currInstruction, quads[n].label>>
    <3>1. IsJump(n)' /\ j = <<taddress'[n + 1], quads'[n].label>>
      BY <1>2, <1>5, <2>2
    <3>2. QED BY <1>4, <3>1
  <2>3. QED BY <1>1a, <2>1, <2>2
<1>7. ListedJumps'
  BY <1>4, <1>6 DEF ListedJumps
<1>8. ASSUME NEW i \in 0 .. n, IsJump(i)'
      PROVE  (Listed(i) \/ Complete(i))'
  <2>1. CASE i = n
    <3>1. IsJump(n)
      BY <1>8, <2>1 DEF IsJump
    <3>2. CASE <<currInstruction, quads[n].label>> \in ijumps'
      BY <1>2, <2>1, <3>2 DEF Listed
    <3>3. CASE /\ quads[n].label < n
               /\ instructions'[currInstruction + 1].result.value = taddress[quads[n].label + 1]
      <4>1. PICK l \in Nat : quads[n].label = l
        <5>1. n \in DOMAIN quads
          BY <1>1, <1>1a DEF IsProgram, currQuad
        <5>2. QED BY <1>1, <5>1 DEF IsProgram
      <4>2. l < n + 1 /\ l + 1 \in 1 .. n
        BY <3>3, <4>1
      <4>3. taddress'[l + 1] = taddress[l + 1]
        BY <1>2, <4>2
      <4>4. TargetOf(i)' = taddress'[l + 1]
        BY <1>2, <2>1, <3>3, <4>1, <4>3 DEF TargetOf
      <4>5. quads'[i].label = l /\ quads'[i].label < next'
        BY <1>4, <2>1, <4>1, <4>2
      <4>6. QED BY <4>4, <4>5 DEF Complete
    <3>4. QED BY <1>1a, <3>1, <3>2, <3>3
  <2>2. CASE i \in 0 .. n - 1
    BY <1>3, <1>8, <2>2
  <2>3. QED BY <1>4, <2>1, <2>2
<1>9. JumpsInHand'
  BY <1>4, <1>8 DEF JumpsInHand
<1>10. Generation'
  BY <1>2, <1>7, <1>9 DEF Generation
<1>11. Written' /\ JumpsResolved'
  BY DEF GenerationInv, Written, JumpsResolved, Generated
<1>12. QED BY <1>10, <1>11 DEF GenerationInv

(* The same for a quad that is no jump and patches none. *)
LEMMA NoJumpStep ==
  ASSUME GenerationInv, phase = "generate", UNCHANGED <<quads, open, phase, ijumps>>,
         next < currQuad, ~IsJump(next),
         IsCode(instructions'), Len(instructions') > Len(instructions),
         taddress' = Append(taddress, currInstruction), next' = next + 1,
         \A i \in DOMAIN instructions : instructions'[i] = instructions[i],
         SkipsApart'
  PROVE  GenerationInv'
<1>1. \A i \in 0 .. next - 1 : IsJump(i) =>
        instructions'[taddress[i + 1] + 1].result.value = TargetOf(i)
  BY AddressesInCode DEF GenerationInv, TargetOf
<1>2. QED BY <1>1, QuadStep

LEMMA SimpleKeeps ==
  ASSUME GenerationInv, phase = "generate", GenerateSimple
  PROVE  GenerationInv'
<1>1. IsProgram(quads) /\ Generation /\ currQuad \in Nat
  BY DEF GenerationInv, Written, IsProgram, currQuad
<1>2. UNCHANGED <<quads, open, phase, ijumps, func_skip_stack>>
  BY DEF GenerateSimple, program
<1>3. /\ next < currQuad /\ next \in Nat /\ ~IsJump(next)
      /\ IsCode(instructions) /\ Len(instructions) \in Nat
  <2>1. ~IsJump(next)
    BY DEF GenerateSimple, IsJump, Q, OpcodeOf, JumpOpcode
  <2>2. Len(instructions) \in Nat
    BY <1>1, SeqIsSeq DEF Generation, Ordered, IsCode, IsSeq
  <2>3. QED BY <1>1, <2>1, <2>2 DEF Generation, Ordered, GenerateSimple, Generating
<1>4. PICK c : /\ HasTarget(c)
               /\ instructions' = instructions \o <<c>>
               /\ taddress' = Append(taddress, currInstruction) /\ next' = next + 1
  <2> DEFINE source == IF Q.op = "getretval" THEN RetVal ELSE Operand(Q.arg1)
             goal == IF Q.op = "ret" THEN RetVal ELSE Operand(Q.result)
             c == Instruction(OpcodeOf[Q.op], source, Label(0), goal)
  <2>1. PICK t, v : goal = Arg(t, v)
    BY DEF Operand, RetVal, Label, Global
  <2>2. Generate(<<c>>)
    BY DEF GenerateSimple
  <2> HIDE DEF goal, source
  <2>3. HasTarget(c)
    BY <2>1, InstructionHasTarget
  <2> HIDE DEF c
  <2>4. QED BY <2>2, <2>3 DEF Generate
<1>5. /\ IsCode(instructions') /\ Len(instructions') > Len(instructions)
      /\ \A i \in DOMAIN instructions : instructions'[i] = instructions[i]
  BY <1>3, <1>4, OneIsCode, ConcatCode
<1>6. SkipsApart'
  BY <1>1, <1>2, <1>3, <1>4, <1>5, SkipsKept
<1>7. QED BY <1>2, <1>3, <1>4, <1>5, <1>6, NoJumpStep

LEMMA RelationalKeeps ==
  ASSUME GenerationInv, phase = "generate", GenerateRelational
  PROVE  GenerationInv'
<1> DEFINE known == Known(Q.label)
           value == IF known THEN taddress[Q.label + 1] ELSE 0
           c == Instruction(JumpOpcode[Q.op], Operand(Q.arg1), Operand(Q.arg2), Label(value))
<1>1. IsProgram(quads) /\ Generation /\ currQuad \in Nat
  BY DEF GenerationInv, Written, IsProgram, currQuad
<1>2. UNCHANGED <<quads, open, phase, func_skip_stack>>
  BY DEF GenerateRelational, program
<1>3. next < currQuad /\ IsCode(instructions) /\ Len(instructions) \in Nat
  BY <1>1, SeqIsSeq DEF Generation, Ordered, IsCode, IsSeq, GenerateRelational, Generating
<1>4. /\ Generate(<<c>>)
      /\ ijumps' = IF known THEN ijumps ELSE ijumps \cup {<<currInstruction, quads[next].label>>}
  BY DEF GenerateRelational, Q
<1>5. HasTarget(c) /\ c.result.value = value
  BY InstructionHasTarget DEF Label
<1>6. IsJump(next)
  BY DEF GenerateRelational, IsJump, Q
<1>7. known => quads[next].label < next /\ value = taddress[quads[next].label + 1]
  BY DEF Known, Q
<1> HIDE DEF c, known, value
<1>8. /\ instructions' = instructions \o <<c>>
      /\ taddress' = Append(taddress, currInstruction) /\ next' = next + 1
  BY <1>4 DEF Generate
<1>9. /\ IsCode(instructions') /\ Len(instructions') > Len(instructions)
      /\ \A i \in DOMAIN instructions : instructions'[i] = instructions[i]
      /\ instructions'[currInstruction + 1] = c
  BY <1>3, <1>5, <1>8, OneIsCode, ConcatCode DEF currInstruction
<1>10. \A i \in 0 .. next - 1 : IsJump(i) =>
         instructions'[taddress[i + 1] + 1].result.value = TargetOf(i)
  BY <1>1, <1>9, AddressesInCode DEF TargetOf
<1>11. /\ ijumps \subseteq ijumps'
       /\ \A j \in ijumps' :
            j \in ijumps \/ (IsJump(next) /\ j = <<currInstruction, quads[next].label>>)
  BY <1>4, <1>6
<1>12. \/ <<currInstruction, quads[next].label>> \in ijumps'
       \/ /\ quads[next].label < next
          /\ instructions'[currInstruction + 1].result.value = taddress[quads[next].label + 1]
  BY <1>4, <1>5, <1>7, <1>9
<1>13. SkipsApart'
  BY <1>1, <1>2, <1>3, <1>8, <1>9, SkipsKept
<1>14. QED BY <1>2, <1>3, <1>8, <1>9, <1>10, <1>11, <1>12, <1>13, QuadStep

LEMMA FuncStartKeeps ==
  ASSUME GenerationInv, phase = "generate", GenerateFuncStart
  PROVE  GenerationInv'
<1>1. IsProgram(quads) /\ Generation /\ currQuad \in Nat
  BY DEF GenerationInv, Written, IsProgram, currQuad
<1>2. /\ UNCHANGED <<quads, open, phase, ijumps>>
      /\ func_skip_stack' = <<currInstruction + 1>> \o func_skip_stack
  BY DEF GenerateFuncStart, program
<1>3. /\ next < currQuad /\ next \in Nat /\ ~IsJump(next)
      /\ IsCode(instructions) /\ Len(instructions) \in Nat
  <2>1. ~IsJump(next)
    BY DEF GenerateFuncStart, IsJump, Q, JumpOpcode
  <2>2. Len(instructions) \in Nat
    BY <1>1, SeqIsSeq DEF Generation, Ordered, IsCode, IsSeq
  <2>3. QED BY <1>1, <2>1, <2>2 DEF Generation, Ordered, GenerateFuncStart, Generating
<1>4. PICK c, d, e : /\ HasTarget(c) /\ HasTarget(d) /\ HasTarget(e)
                     /\ instructions' = instructions \o <<c, d, e>>
                     /\ taddress' = Append(taddress, currInstruction) /\ next' = next + 1
  <2> DEFINE c == Instruction("assign", Arg("userfunc_a", currInstruction + 2), Label(0),
                              Global(Offset(Q.arg1.value)))
             d == Instruction("jne", Label(0), Label(0), Label(0))
             e == Instruction("funcenter", Operand(Q.arg2), Label(0), Label(0))
  <2>1. HasTarget(c) /\ HasTarget(d) /\ HasTarget(e)
    BY InstructionHasTarget DEF Label, Global
  <2>2. Generate(<<c, d, e>>)
    BY DEF GenerateFuncStart
  <2> HIDE DEF c, d, e
  <2>3. QED BY <2>1, <2>2 DEF Generate
<1>5. /\ IsCode(instructions') /\ Len(instructions') = Len(instructions) + 3
      /\ \A i \in DOMAIN instructions : instructions'[i] = instructions[i]
  BY <1>3, <1>4, ThreeAreCode, ConcatCode
<1>6. Len(instructions') > Len(instructions) /\ Len(instructions) + 1 < Len(instructions')
  BY <1>3, <1>5
<1>7. SkipsApart'
  <2>1. PICK n \in Nat : next = n
    BY <1>3
  <2>2. Ordered' /\ next' = n + 1
    BY <1>1, <1>3, <1>4, <1>5, <1>6, <1>2, <2>1, OrderedStep DEF Generation
  <2>3. /\ taddress'[n + 1] = Len(instructions)
        /\ \A i \in 1 .. n : taddress'[i] = taddress[i] /\ taddress[i] \in Nat
                           /\ taddress[i] < Len(instructions)
    BY <1>1, <1>3, <1>4, <1>5, <1>6, <1>2, <2>1, OrderedStep DEF Generation, Ordered
  <2>4. PICK a \in Nat : a = Len(instructions) + 1
    BY <1>3
  <2>5. func_skip_stack \in Seq(Nat) /\ func_skip_stack' = <<a>> \o func_skip_stack
    BY <1>1, <1>2, <2>4 DEF Generation, SkipsApart, currInstruction
  <2>6. /\ func_skip_stack' \in Seq(Nat)
        /\ \A k \in DOMAIN func_skip_stack' :
             func_skip_stack'[k] = a \/
             \E m \in DOMAIN func_skip_stack : func_skip_stack'[k] = func_skip_stack[m]
    <3>1. <<a>> \in Seq(Nat) /\ Len(<<a>>) = 1 /\ <<a>>[1] = a
      BY <2>4
    <3>2. /\ func_skip_stack' \in Seq(Nat) /\ Len(func_skip_stack') = 1 + Len(func_skip_stack)
          /\ \A k \in 1 .. 1 + Len(func_skip_stack) :
               func_skip_stack'[k] = IF k <= 1 THEN <<a>>[k] ELSE func_skip_stack[k - 1]
      BY <2>5, <3>1, ConcatProperties
    <3>3. Len(func_skip_stack) \in Nat /\ DOMAIN func_skip_stack = 1 .. Len(func_skip_stack)
      BY <2>5, LenProperties
    <3>4. DOMAIN func_skip_stack' = 1 .. 1 + Len(func_skip_stack)
      BY <3>2, LenProperties
    <3>5. ASSUME NEW k \in 1 .. 1 + Len(func_skip_stack)
          PROVE  func_skip_stack'[k] = a \/
                 \E m \in DOMAIN func_skip_stack : func_skip_stack'[k] = func_skip_stack[m]
      <4>1. CASE k = 1
        BY <3>1, <3>2, <3>3, <4>1
      <4>2. CASE k # 1
        <5>1. k - 1 \in DOMAIN func_skip_stack
          BY <3>3, <4>2
        <5>2. func_skip_stack'[k] = func_skip_stack[k - 1]
          BY <3>2, <3>3, <4>2
        <5>3. QED BY <5>1, <5>2
      <4>3. QED BY <4>1, <4>2
    <3>6. QED BY <3>2, <3>4, <3>5
  <2>7. ASSUME NEW i \in 0 .. n, IsJump(i)'
        PROVE  /\ taddress'[i + 1] # a
               /\ \A m \in DOMAIN func_skip_stack : taddress'[i + 1] # func_skip_stack[m]
    <3>1. i # n /\ IsJump(i)
      BY <1>2, <1>3, <2>1, <2>7 DEF IsJump
    <3>2. i \in 0 .. n - 1 /\ i + 1 \in 1 .. n
      BY <3>1
    <3>3. PICK b \in Nat : taddress'[i + 1] = b /\ taddress[i + 1] = b /\ b < Len(instructions)
      BY <2>3, <3>2
    <3>4. b # a
      BY <1>3, <2>4, <3>3
    <3>5. QED BY <1>1, <2>1, <3>1, <3>2, <3>3, <3>4 DEF Generation, SkipsApart
  <2>8. a < Len(instructions') /\ next' - 1 = n
    BY <1>6, <2>2, <2>4
  <2>9. \A m \in DOMAIN func_skip_stack : func_skip_stack[m] < Len(instructions')
    <3>1. SUFFICES ASSUME NEW m \in DOMAIN func_skip_stack
                   PROVE func_skip_stack[m] < Len(instructions')
      OBVIOUS
    <3>2. PICK b \in Nat : func_skip_stack[m] = b
      BY <2>5
    <3>3. b < Len(instructions)
      BY <1>1, <3>2 DEF Generation, SkipsApart
    <3>4. QED BY <1>3, <1>5, <3>2, <3>3
  <2>10. QED BY <2>6, <2>7, <2>8, <2>9 DEF SkipsApart
<1>8. QED BY <1>2, <1>3, <1>4, <1>5, <1>6, <1>7, NoJumpStep

(* A jump over a function is completed; it is the innermost one.           *)
LEMMA FuncEndKeeps ==
  ASSUME GenerationInv, phase = "generate", GenerateFuncEnd
  PROVE  GenerationInv'
<1> DEFINE exit == Instruction("funcexit", Label(0), Label(0), Label(0))
           code == Append(instructions, exit)
<1>1. IsProgram(quads) /\ Generation /\ currQuad \in Nat
  BY DEF GenerationInv, Written, IsProgram, currQuad
<1>2. UNCHANGED <<quads, open, phase, ijumps>>
  BY DEF GenerateFuncEnd, program
<1>3. /\ next < currQuad /\ next \in Nat /\ ~IsJump(next)
      /\ IsCode(instructions) /\ Len(instructions) \in Nat
      /\ func_skip_stack \in Seq(Nat)
  <2>1. ~IsJump(next)
    BY DEF GenerateFuncEnd, IsJump, Q, JumpOpcode
  <2>2. Len(instructions) \in Nat
    BY <1>1, SeqIsSeq DEF Generation, Ordered, IsCode, IsSeq
  <2>3. QED BY <1>1, <2>1, <2>2 DEF Generation, Ordered, SkipsApart, GenerateFuncEnd, Generating
<1>4. /\ taddress' = Append(taddress, currInstruction) /\ next' = next + 1
      /\ IF func_skip_stack = << >>
         THEN instructions' = code /\ UNCHANGED func_skip_stack
         ELSE /\ instructions' = Target(code, Head(func_skip_stack), currInstruction + 1)
              /\ func_skip_stack' = Tail(func_skip_stack)
  BY DEF GenerateFuncEnd
<1>5. HasTarget(exit)
  BY InstructionHasTarget DEF Label
<1> HIDE DEF exit
<1>6. /\ IsCode(code) /\ Len(code) = Len(instructions) + 1
      /\ \A i \in DOMAIN instructions : i \in DOMAIN code /\ code[i] = instructions[i]
  <2>1. code = instructions \o <<exit>>
    BY <1>3 DEF IsCode, IsSeq
  <2> HIDE DEF code
  <2>2. QED BY <1>3, <1>5, <2>1, OneIsCode, ConcatCode
<1> HIDE DEF code
<1>7. Len(code) > Len(instructions)
  BY <1>3, <1>6
<1>8. CASE func_skip_stack = << >>
  <2>1. instructions' = code /\ UNCHANGED func_skip_stack
    BY <1>4, <1>8
  <2>2. SkipsApart'
    BY <1>1, <1>2, <1>3, <1>4, <1>6, <1>7, <2>1, SkipsKept
  <2>3. QED BY <1>2, <1>3, <1>4, <1>6, <1>7, <2>1, <2>2, NoJumpStep
<1>9. CASE func_skip_stack # << >>
  <2>1. PICK a \in Nat : a = Head(func_skip_stack) /\ func_skip_stack[1] = a
    BY <1>3, <1>9
  <2>2. 1 \in DOMAIN func_skip_stack
    BY <1>3, <1>9
  <2>3. \A i \in 0 .. next - 1 : IsJump(i) => taddress[i + 1] # a
    BY <1>1, <2>1, <2>2 DEF Generation, SkipsApart
  <2>4. instructions' = Target(code, a, currInstruction + 1)
    BY <1>4, <1>9, <2>1
  <2>5. /\ IsCode(instructions') /\ Len(instructions') = Len(code)
        /\ \A i \in DOMAIN code : i # a + 1 => instructions'[i] = code[i]
    BY <1>6, <2>4, TargetCode
  <2>6. ASSUME NEW i \in 0 .. next - 1, IsJump(i)
        PROVE  instructions'[taddress[i + 1] + 1].result.value = TargetOf(i)
    <3>1. PICK b \in Nat : taddress[i + 1] = b /\ b + 1 \in DOMAIN instructions
      BY <1>1, AddressesInCode
    <3>2. b + 1 # a + 1
      BY <2>3, <2>6, <3>1
    <3>3. instructions'[b + 1] = instructions[b + 1]
      BY <1>6, <2>5, <3>1, <3>2
    <3>4. QED BY <3>1, <3>3 DEF TargetOf
  <2>7. SkipsApart'
    <3>1. /\ Tail(func_skip_stack) \in Seq(Nat)
          /\ Len(Tail(func_skip_stack)) = Len(func_skip_stack) - 1
          /\ \A k \in 1 .. Len(Tail(func_skip_stack)) :
               Tail(func_skip_stack)[k] = func_skip_stack[k + 1]
      BY <1>3, <1>9, HeadTailProperties
    <3>2. func_skip_stack' = Tail(func_skip_stack)
      BY <1>4, <1>9
    <3>3. Len(func_skip_stack) \in Nat /\ DOMAIN func_skip_stack = 1 .. Len(func_skip_stack)
      BY <1>3, LenProperties
    <3>4. /\ func_skip_stack' \in Seq(Nat)
          /\ DOMAIN func_skip_stack' = 1 .. Len(func_skip_stack) - 1
      BY <3>1, <3>2, <3>3, LenProperties
    <3>5. \A k \in DOMAIN func_skip_stack' :
            k + 1 \in DOMAIN func_skip_stack /\ func_skip_stack'[k] = func_skip_stack[k + 1]
      BY <3>1, <3>2, <3>3, <3>4
    <3>6. PICK n \in Nat : next = n
      BY <1>3
    <3>7. /\ taddress'[n + 1] = Len(instructions) /\ next' - 1 = n
          /\ \A i \in 1 .. n : taddress'[i] = taddress[i]
      <4>1. next' - 1 = n
        BY <1>4, <3>6
      <4>2. QED BY <1>1, <1>2, <1>3, <1>4, <1>6, <1>7, <2>5, <3>6, <4>1, OrderedStep DEF Generation
    <3>8. ASSUME NEW k \in DOMAIN func_skip_stack'
          PROVE  /\ func_skip_stack'[k] < Len(instructions')
                 /\ \A i \in 0 .. n : IsJump(i)' => taddress'[i + 1] # func_skip_stack'[k]
      <4>1. PICK b \in Nat : func_skip_stack'[k] = b /\ func_skip_stack[k + 1] = b
        BY <1>3, <3>4, <3>5
      <4>2. b < Len(instructions)
        BY <1>1, <3>5, <4>1 DEF Generation, SkipsApart
      <4>3. b < Len(instructions')
        BY <1>3, <1>6, <2>5, <4>2
      <4>4. ASSUME NEW i \in 0 .. n, IsJump(i)'
            PROVE  taddress'[i + 1] # b
        <5>1. IsJump(i) /\ i # n
          BY <1>2, <1>3, <3>6, <4>4 DEF IsJump
        <5>2. i \in 0 .. n - 1 /\ i + 1 \in 1 .. n
          BY <5>1
        <5>3. taddress'[i + 1] = taddress[i + 1]
          BY <3>7, <5>2
        <5>4. QED BY <1>1, <3>5, <3>6, <4>1, <5>1, <5>2, <5>3 DEF Generation, SkipsApart
      <4>5. QED BY <4>1, <4>3, <4>4
    <3>9. QED BY <3>4, <3>7, <3>8 DEF SkipsApart
  <2>8. Len(instructions') > Len(instructions)
    BY <1>7, <2>5
  <2>9. QED BY <1>2, <1>3, <1>4, <2>5, <2>6, <2>7, <2>8, QuadStep
<1>10. QED BY <1>8, <1>9

(* The jumps that are listed are completed, each with its own target.      *)
LEMMA PatchKeeps ==
  ASSUME GenerationInv, phase = "generate", PatchIncompleteJumps
  PROVE  GenerationInv'
<1>1. IsProgram(quads) /\ Generation /\ currQuad \in Nat
  BY DEF GenerationInv, Written, IsProgram, currQuad
<1>2. /\ UNCHANGED <<quads, open, next, taddress, ijumps, func_skip_stack>>
      /\ phase' = "run" /\ next >= currQuad
  BY DEF PatchIncompleteJumps, program
<1>3. next = currQuad /\ next \in Nat
  BY <1>1, <1>2 DEF Generation, Ordered
<1>4. PICK m \in Nat : m = Len(instructions) /\ DOMAIN instructions = 1 .. m
  BY <1>1, SeqIsSeq DEF Generation, Ordered, IsCode, IsSeq
<1>5. Len(instructions') = m
  <2>1. DOMAIN instructions' = 1 .. m /\ instructions' = [i \in 1 .. m |-> instructions'[i]]
    BY <1>4 DEF PatchIncompleteJumps
  <2>2. instructions' \in [1 .. m -> Elements(instructions')]
    BY <2>1 DEF Elements
  <2>3. instructions' \in Seq(Elements(instructions'))
    BY <2>2
  <2>4. QED BY <2>1, <2>3, LenProperties
<1>6. \A l : Start(l)' = Start(l)
  BY <1>2, <1>4, <1>5 DEF Start, currQuad, currInstruction
<1>7. ASSUME NEW i \in 0 .. currQuad - 1, IsJump(i)
      PROVE  TargetOf(i)' = Start(quads[i].label)
  <2>1. PICK a \in Nat : taddress[i + 1] = a /\ a + 1 \in DOMAIN instructions
    BY <1>1, <1>3, AddressesInCode
  <2>2. PICK l \in Nat : quads[i].label = l
    BY <1>1 DEF IsProgram, currQuad
  <2>3. a = (a + 1) - 1
    BY <2>1
  <2>4. TargetOf(i)' = instructions'[a + 1].result.value
    BY <1>2, <2>1 DEF TargetOf
  <2>5. CASE \E j \in ijumps : j[1] = a
    <3>1. PICK j \in ijumps : j[1] = a /\ j = (CHOOSE k \in ijumps : k[1] = a)
      BY <2>5
    <3>2. j[2] = l
      <4>1. PICK k \in 0 .. next - 1 : j = <<taddress[k + 1], quads[k].label>>
        BY <1>1 DEF Generation, ListedJumps
      <4>2. taddress[k + 1] = a /\ j[2] = quads[k].label
        BY <3>1, <4>1
      <4>3. k = i
        <5>1. k + 1 \in 1 .. next /\ i + 1 \in 1 .. next /\ k \in Int /\ i \in Int
          BY <1>3
        <5>2. ~(k + 1 < i + 1) /\ ~(i + 1 < k + 1)
          BY <1>1, <2>1, <4>2, <5>1 DEF Generation, Ordered
        <5>3. QED BY <5>1, <5>2
      <4>4. QED BY <2>2, <4>2, <4>3
    <3>3. instructions'[a + 1] = [instructions[a + 1] EXCEPT !.result.value = Start(j[2])]
      BY <2>1, <2>3, <3>1, <2>5 DEF PatchIncompleteJumps
    <3>4. HasTarget(instructions[a + 1])
      BY <1>1, <2>1 DEF Generation, Ordered, IsCode
    <3>5. instructions'[a + 1].result = [instructions[a + 1].result EXCEPT !.value = Start(j[2])]
      BY <3>3, <3>4 DEF HasTarget
    <3>6. instructions'[a + 1].result.value = Start(j[2])
      BY <3>4, <3>5 DEF HasTarget
    <3>7. QED BY <2>2, <2>4, <3>2, <3>6
  <2>6. CASE ~ \E j \in ijumps : j[1] = a
    <3>1. instructions'[a + 1] = instructions[a + 1]
      BY <2>1, <2>3, <2>6 DEF PatchIncompleteJumps
    <3>2. ~Listed(i)
      BY <2>1, <2>6 DEF Listed
    <3>3. Complete(i)
      BY <1>1, <1>3, <1>7, <3>2 DEF Generation, JumpsInHand
    <3>4. l < currQuad /\ TargetOf(i) = taddress[l + 1]
      BY <1>3, <2>2, <3>3 DEF Complete
    <3>5. TargetOf(i) = Start(l)
      BY <1>1, <3>4 DEF Start
    <3>6. QED BY <2>1, <2>2, <2>4, <3>1, <3>5 DEF TargetOf
  <2>7. QED BY <2>5, <2>6
<1>8. JumpsResolved'
  <2>1. currQuad' = currQuad
    BY <1>2 DEF currQuad
  <2>2. SUFFICES ASSUME NEW i \in 0 .. currQuad - 1, IsJump(i)
                 PROVE  TargetOf(i)' = Start(quads[i].label)'
    BY <1>2, <2>1 DEF JumpsResolved, IsJump, TargetOf
  <2>3. QED BY <1>2, <1>6, <1>7, <2>2
<1>9. Written' /\ (phase = "generate" => Generation)'
  BY <1>2 DEF GenerationInv, Written
<1>10. QED BY <1>8, <1>9 DEF GenerationInv

-----------------------------------------------------------------------------
(* A program is written. *)

LEMMA QuadHasLabel ==
  ASSUME NEW op, NEW a, NEW b, NEW r, NEW l \in Nat
  PROVE  "label" \in DOMAIN Quad(op, a, b, r, l) /\ Quad(op, a, b, r, l).label \in Nat
BY DEF Quad

LEMMA WrittenKept ==
  ASSUME GenerationInv, phase = "parse", phase' \in {"parse", "generate"},
         UNCHANGED target, IsProgram(quads'), open' \in Seq(Construct)
  PROVE  GenerationInv'
<1>1. /\ next' = 0 /\ instructions' = << >> /\ taddress' = << >> /\ ijumps' = {}
      /\ func_skip_stack' = << >>
  BY DEF GenerationInv, Written, target
<1>2. Written'
  BY <1>1 DEF Written
<1>3. Generation'
  <2>1. IsCode(instructions')
    <3>1. << >> \in Seq({}) /\ DOMAIN << >> = {}
      OBVIOUS
    <3>2. IsSeq(<< >>)
      BY <3>1, SeqIsSeq
    <3>3. QED BY <1>1, <3>1, <3>2 DEF IsCode
  <2>2. currQuad' \in Nat
    BY DEF IsProgram, currQuad
  <2>3. next' \in 0 .. currQuad' /\ 1 .. next' = {} /\ 0 .. next' - 1 = {}
    BY <1>1, <2>2
  <2>4. taddress' \in Seq(Nat) /\ Len(taddress') = next'
    BY <1>1
  <2>5. Ordered'
    BY <2>1, <2>3, <2>4 DEF Ordered
  <2>6. ListedJumps' /\ JumpsInHand'
    BY <1>1, <2>3 DEF ListedJumps, JumpsInHand
  <2>7. func_skip_stack' \in Seq(Nat) /\ DOMAIN func_skip_stack' = {}
    BY <1>1
  <2>8. SkipsApart'
    BY <2>7 DEF SkipsApart
  <2>9. QED BY <2>5, <2>6, <2>8 DEF Generation
<1>4. JumpsResolved'
  BY DEF JumpsResolved, Generated
<1>5. QED BY <1>2, <1>3, <1>4 DEF GenerationInv

LEMMA OpenIsKept ==
  ASSUME GenerationInv
  PROVE  /\ IsProgram(quads) /\ currQuad \in Nat /\ open \in Seq(Construct)
         /\ Depth \in Nat /\ Scope \in Nat
         /\ Depth > 0 => Top \in Construct
         /\ SubSeq(open, 1, Depth - 1) \in Seq(Construct)
<1>1. IsProgram(quads) /\ currQuad \in Nat /\ open \in Seq(Construct)
  BY DEF GenerationInv, Written, IsProgram, currQuad
<1>2. Depth \in Nat /\ DOMAIN open = 1 .. Depth
  BY <1>1, LenProperties DEF Depth
<1>3. Depth > 0 => Top \in Construct
  BY <1>1, <1>2 DEF Top
<1>4. Scope \in Nat
  BY <1>2, <1>3 DEF Scope, Construct
<1>5. SubSeq(open, 1, Depth - 1) \in Seq(Construct)
  BY <1>1, <1>2, SubSeqProperties
<1>6. QED BY <1>1, <1>2, <1>3, <1>4, <1>5

LEMMA WriteKeeps ==
  ASSUME GenerationInv, Write
  PROVE  GenerationInv'
<1>1. /\ IsProgram(quads) /\ currQuad \in Nat /\ open \in Seq(Construct)
      /\ Depth \in Nat /\ Scope \in Nat
      /\ Depth > 0 => Top \in Construct
      /\ SubSeq(open, 1, Depth - 1) \in Seq(Construct)
  BY OpenIsKept
<1>2. CASE WriteAssign
  <2>1. PICK e : quads' = Emit(quads, Quad("assign", e, NoExpr, Var, 0))
    BY <1>2 DEF WriteAssign
  <2>2. IsProgram(quads')
    BY <1>1, <2>1, QuadHasLabel, EmitProgram
  <2>3. QED BY <1>1, <1>2, <2>2, WrittenKept DEF WriteAssign, Room
<1>3. ASSUME NEW kind \in {"if", "while"}, WriteTest(kind)
      PROVE  GenerationInv'
  <2>1. PICK op \in Relops :
          quads' = Emit(Emit(quads, Quad(op, Var, ConstNum(1), NoExpr, currQuad + 2)), Jump(0))
    BY <1>3 DEF WriteTest
  <2>2. IsProgram(Emit(quads, Quad(op, Var, ConstNum(1), NoExpr, currQuad + 2)))
    BY <1>1, QuadHasLabel, EmitProgram
  <2>3. IsProgram(quads')
    BY <2>1, <2>2, QuadHasLabel, EmitProgram DEF Jump
  <2>4. [kind |-> kind, start |-> currQuad, scope |-> Scope + 1] \in Construct
    BY <1>1 DEF Construct
  <2>5. open' \in Seq(Construct)
    BY <1>1, <1>3, <2>4 DEF WriteTest, Push
  <2>6. QED BY <1>3, <2>3, <2>5, WrittenKept DEF WriteTest, Room
<1>4. CASE WriteEnd
  <2>1. Top.start \in Nat /\ open' \in Seq(Construct)
    BY <1>1, <1>4 DEF WriteEnd, Construct, Pop
  <2> DEFINE q == IF Top.kind = "if" THEN quads ELSE Emit(quads, Jump(Top.start))
  <2>2. IsProgram(q)
    BY <1>1, <2>1, QuadHasLabel, EmitProgram DEF Jump
  <2>3. quads' = PatchLabel(q, Top.start + 1, NextQuad(q))
    BY <1>4 DEF WriteEnd
  <2> HIDE DEF q
  <2>4. IsProgram(quads')
    BY <2>2, <2>3, LabelledProgram DEF PatchLabel, IsProgram
  <2>5. QED BY <1>4, <2>1, <2>4, WrittenKept DEF WriteEnd, Room
<1>5. CASE WriteFunction
  <2>1. quads' = Emit(quads, Quad("funcstart", ProgramFunc(currQuad), ConstNum(0), NoExpr, 0))
    BY <1>5 DEF WriteFunction
  <2>2. IsProgram(quads')
    BY <1>1, <2>1, QuadHasLabel, EmitProgram
  <2>3. [kind |-> "function", start |-> currQuad, scope |-> Scope + 2] \in Construct
    BY <1>1 DEF Construct
  <2>4. open' \in Seq(Construct)
    BY <1>1, <1>5, <2>3 DEF WriteFunction, Push
  <2>5. QED BY <1>5, <2>2, <2>4, WrittenKept DEF WriteFunction, Room
<1>6. CASE WriteFunctionEnd
  <2> DEFINE q == Emit(quads, Only("funcend", ProgramFunc(Top.start)))
  <2>1. IsProgram(q)
    BY <1>1, QuadHasLabel, EmitProgram DEF Only
  <2>2. quads' = Labelled(q, returnlist, currQuad)
    BY <1>6 DEF WriteFunctionEnd
  <2> HIDE DEF q
  <2>3. IsProgram(quads')
    BY <1>1, <2>1, <2>2, LabelledProgram
  <2>4. open' \in Seq(Construct)
    BY <1>1, <1>6 DEF WriteFunctionEnd, Pop
  <2>5. QED BY <1>6, <2>3, <2>4, WrittenKept DEF WriteFunctionEnd, Room
<1>7. CASE WriteCall
  <2>1. PICK e :
          quads' = Emit(Emit(Emit(quads, Only("param", ConstNum(0))), Only("call", e)),
                        Quad("getretval", NoExpr, NoExpr, Var, 0))
    BY <1>7 DEF WriteCall
  <2> DEFINE q == Emit(quads, Only("param", ConstNum(0)))
             r == Emit(q, Only("call", e))
  <2>2. IsProgram(q)
    BY <1>1, QuadHasLabel, EmitProgram DEF Only
  <2> HIDE DEF q
  <2>3. IsProgram(r)
    BY <2>2, QuadHasLabel, EmitProgram DEF Only
  <2>4. quads' = Emit(r, Quad("getretval", NoExpr, NoExpr, Var, 0))
    BY <2>1 DEF q
  <2> HIDE DEF r
  <2>5. IsProgram(quads')
    BY <2>3, <2>4, QuadHasLabel, EmitProgram
  <2>6. QED BY <1>1, <1>7, <2>5, WrittenKept DEF WriteCall, Room
<1>8. CASE WriteReturn
  <2>1. PICK e : quads' = Emit(Emit(quads, Only("ret", e)), Jump(0))
    BY <1>8 DEF WriteReturn
  <2>2. IsProgram(Emit(quads, Only("ret", e)))
    BY <1>1, QuadHasLabel, EmitProgram DEF Only
  <2>3. IsProgram(quads')
    BY <2>1, <2>2, QuadHasLabel, EmitProgram DEF Jump
  <2>4. QED BY <1>1, <1>8, <2>3, WrittenKept DEF WriteReturn, Room
<1>9. CASE WriteDone
  BY <1>1, <1>9, WrittenKept DEF WriteDone, program
<1>10. QED
  BY <1>2, <1>3, <1>4, <1>5, <1>6, <1>7, <1>8, <1>9 DEF Write, WriteIf, WriteWhile

-----------------------------------------------------------------------------
(* Nothing else changes the program or its code. *)

LEMMA OthersKeep ==
  ASSUME GenerationInv, UNCHANGED <<program, target>>,
         phase' \in {"parse", "generate"} => phase' = phase,
         Generated' => Generated
  PROVE  GenerationInv'
<1>1. UNCHANGED <<quads, open, next, instructions, taddress, ijumps, func_skip_stack>>
  BY DEF program, target
<1>2. Written'
  BY <1>1 DEF GenerationInv, Written
<1>3. Generation' <=> Generation
  BY <1>1 DEF Generation, Ordered, ListedJumps, JumpsInHand, SkipsApart, IsJump, Listed,
     Complete, TargetOf, currQuad
<1>4. JumpsResolved'
  BY <1>1 DEF GenerationInv, JumpsResolved, Start, currQuad, currInstruction
<1>5. QED BY <1>2, <1>3, <1>4 DEF GenerationInv

LEMMA ExecuteKeeps ==
  ASSUME GenerationInv, Execute
  PROVE  GenerationInv'
<1>1. UNCHANGED <<program, target>> /\ phase = "run"
  BY DEF Execute, ExecuteJump, ExecuteAssign, ExecuteRecord, ExecuteCall, ExecuteFuncExit,
     ExecuteGetRet, InfiniteLoop, Halt, Running
<1>2. phase' \in {"run", "halted", "error", "wild", "infinite_loop"}
  BY <1>1 DEF Execute, ExecuteJump, ExecuteAssign, ExecuteRecord, ExecuteCall,
     ExecuteFuncExit, ExecuteGetRet, InfiniteLoop, Halt
<1>3. QED BY <1>1, <1>2, OthersKeep DEF Generated

LEMMA GenerationInvKept ==
  ASSUME GenerationInv, [Next]_vars
  PROVE  GenerationInv'
<1>1. CASE Write
  BY <1>1, WriteKeeps
<1>2. CASE GenerateTargetCode
  <2>1. phase = "generate"
    BY <1>2 DEF GenerateTargetCode, GenerateSimple, GenerateRelational, GenerateFuncStart,
       GenerateFuncEnd, AssertFails, Overrun, PatchIncompleteJumps, Generating
  <2>2. CASE GenerateSimple
    BY <2>1, <2>2, SimpleKeeps
  <2>3. CASE GenerateRelational
    BY <2>1, <2>3, RelationalKeeps
  <2>4. CASE GenerateFuncStart
    BY <2>1, <2>4, FuncStartKeeps
  <2>5. CASE GenerateFuncEnd
    BY <2>1, <2>5, FuncEndKeeps
  <2>6. CASE AssertFails
    BY <2>6, OthersKeep DEF AssertFails, Generated
  <2>7. CASE Overrun
    BY <2>7, OthersKeep DEF Overrun, Generated
  <2>8. CASE PatchIncompleteJumps
    BY <2>1, <2>8, PatchKeeps
  <2>9. QED BY <1>2, <2>2, <2>3, <2>4, <2>5, <2>6, <2>7, <2>8 DEF GenerateTargetCode
<1>3. CASE Execute
  BY <1>3, ExecuteKeeps
<1>4. CASE UNCHANGED vars
  BY <1>4, OthersKeep DEF vars, Generated
<1>5. QED BY <1>1, <1>2, <1>3, <1>4 DEF Next, Compile, CodeGenNext

LEMMA GenerationInvInit ==
  ASSUME Init
  PROVE  GenerationInv
<1>1. /\ quads = << >> /\ open = << >> /\ phase = "parse" /\ next = 0
      /\ instructions = << >> /\ taddress = << >> /\ ijumps = {}
      /\ func_skip_stack = << >>
  BY DEF Init, CodeGenInit
<1>2. IsProgram(quads)
  <2>1. DOMAIN quads = {} /\ 0 .. 0 - 1 = {} /\ 1 .. 0 = {}
    BY <1>1
  <2>2. NextQuad(quads) = 0
    BY <2>1, FS_Interval DEF NextQuad
  <2>3. QED BY <2>1, <2>2 DEF IsProgram
<1>3. Written /\ JumpsResolved
  BY <1>1, <1>2 DEF Written, JumpsResolved, Generated
<1>4. QED BY <1>1, <1>3 DEF GenerationInv

(* generate_relational and patch_incomplete_jumps: every jump of generated  *)
(* code goes to the first instruction of the quad it names, or behind the   *)
(* last instruction, in every program that the generator accepts.           *)
THEOREM JumpsAreResolved == Spec => []JumpsResolved
<1>1. Init => GenerationInv
  BY GenerationInvInit
<1>2. GenerationInv /\ [Next]_vars => GenerationInv'
  BY GenerationInvKept
<1>3. GenerationInv => JumpsResolved
  BY DEF GenerationInv
<1>4. QED BY <1>1, <1>2, <1>3, PTL DEF Spec
-----------------------------------------------------------------------------
(* The code while it is generated and while it runs. *)

(* The program. *)

IsQuad(x) == {"op", "arg1", "arg2", "label"} \subseteq DOMAIN x
SameButLabel(x, y) == x.op = y.op /\ x.arg1 = y.arg1 /\ x.arg2 = y.arg2
Quads == currQuad <= MaxQuads /\ \A i \in DOMAIN quads : IsQuad(quads[i])

(* The functions are the FUNCSTART quads; a quad names earlier ones only.   *)
Function == [name : Names, scope : Nat]
Refers(i) == quads[i].arg1.type = "programfunc" /\ quads[i].op \notin {"funcstart", "funcend"}
Declared ==
  /\ symbols \in [DOMAIN symbols -> Function]
  /\ \A i \in DOMAIN symbols : i \in DOMAIN quads
  /\ \A i \in DOMAIN quads :
       /\ quads[i].op = "funcstart" <=> i \in DOMAIN symbols
       /\ i \in DOMAIN symbols => quads[i].arg1 = ProgramFunc(i)
       /\ Refers(i) => quads[i].arg1.value \in DOMAIN symbols /\ quads[i].arg1.value < i
       /\ quads[i].arg2.type # "programfunc"

(* Functions end behind their begin, once, and are nested. *)
Ends(f, e) == e \in DOMAIN quads /\ quads[e].op = "funcend" /\ quads[e].arg1 = ProgramFunc(f)
EndsAfter ==
  \A e \in DOMAIN quads : quads[e].op = "funcend" => \E f \in DOMAIN symbols : f < e /\ Ends(f, e)
Nested ==
  \A f, g \in DOMAIN symbols : \A d, e \in DOMAIN quads :
    Ends(f, e) /\ Ends(g, d) /\ f <= g /\ g <= e => d <= e /\ (f # g => d # e)

(* What is open when quads are written: each construct begins behind the    *)
(* one around it and behind the functions that have ended.                  *)
OpenIn ==
  /\ \A k \in DOMAIN open : open[k].start \in DOMAIN quads
  /\ \A j, k \in DOMAIN open : j < k => open[j].start < open[k].start
  /\ \A k \in Inside : open[k].start \in DOMAIN symbols
  /\ \A f \in DOMAIN symbols :
       (\A e \in DOMAIN quads : ~Ends(f, e)) <=> \E k \in Inside : open[k].start = f
  /\ \A k \in DOMAIN open : \A f \in DOMAIN symbols : \A e \in DOMAIN quads :
       Ends(f, e) /\ f < open[k].start => e < open[k].start
AllEnd == \A f \in DOMAIN symbols : \E e \in DOMAIN quads : Ends(f, e)

(* Quad l is code of a function; jumps do not lead into one. *)
InFunction(f, l) == f < l /\ \A e \in DOMAIN quads : Ends(f, e) => l <= e
InCode(l) == \E f \in DOMAIN symbols : InFunction(f, l)
JumpsInside ==
  /\ \A i \in DOMAIN quads : IsJump(i) =>
       quads[i].label <= currQuad /\ (InCode(quads[i].label) => InCode(i))
  /\ \A i \in returnlist : i \in DOMAIN quads /\ InCode(i)

ProgramInv ==
  /\ Quads /\ Declared /\ EndsAfter /\ Nested /\ JumpsInside
  /\ phase = "parse" => OpenIn
  /\ phase # "parse" => AllEnd

-----------------------------------------------------------------------------
(* The code. *)

(* Each quad has its instructions, next to those of the quad before it.     *)
At(i) == taddress[i + 1]
Size(i) == IF quads[i].op = "funcstart" THEN 3 ELSE 1
Addr(l) == IF l >= next THEN Len(instructions) ELSE At(l)
Partition ==
  /\ \A i \in 0 .. next - 1 : At(i) + Size(i) = Addr(i + 1)
  /\ \A p \in 0 .. Len(instructions) - 1 : \E i \in 0 .. next - 1 :
       At(i) <= p /\ p < At(i) + Size(i)

IsCodeOfQuad(i, a) ==
  /\ quads[i].op = "funcstart" =>
       /\ instructions[a + 1].opcode = "assign"
       /\ instructions[a + 2].opcode = "jne"
       /\ instructions[a + 2].arg1.type = "label_a"
       /\ instructions[a + 2].arg2.type = "label_a"
       /\ instructions[a + 3].opcode = "funcenter"
  /\ quads[i].op = "funcend" => instructions[a + 1].opcode = "funcexit"
  /\ quads[i].op \notin {"funcstart", "funcend"} =>
       /\ instructions[a + 1].opcode # "funcexit"
       /\ instructions[a + 1].opcode \in {"jeq", "jne", "jlt", "jle", "jgt", "jge"} => IsJump(i)
Filled == \A i \in 0 .. next - 1 : IsCodeOfQuad(i, At(i))

(* Operands name functions by addresses, and no cell but the variable's.    *)
IsOperand(a) ==
  /\ a.type \in {"number_a", "label_a", "userfunc_a", "global_a", "retval_a"}
  /\ a.type = "userfunc_a" => a.value \in 0 .. currInstruction
  /\ a.type = "global_a" => a.value = 0
Operands ==
  \A p \in DOMAIN instructions :
    /\ {"opcode", "arg1", "arg2", "result"} \subseteq DOMAIN instructions[p]
    /\ IsOperand(instructions[p].arg1) /\ IsOperand(instructions[p].arg2)

(* The jumps over the functions that have begun and not ended, innermost    *)
(* first, and those over functions that have ended.                         *)
Waiting(f) == f < next /\ \A e \in DOMAIN quads : Ends(f, e) => next <= e
Skipping ==
  /\ \A k \in DOMAIN func_skip_stack :
       \E f \in DOMAIN symbols : Waiting(f) /\ func_skip_stack[k] = At(f) + 1
  /\ \A j, k \in DOMAIN func_skip_stack : j < k => func_skip_stack[j] > func_skip_stack[k]
  /\ \A f \in DOMAIN symbols : Waiting(f) =>
       \E k \in DOMAIN func_skip_stack : func_skip_stack[k] = At(f) + 1
Skipped ==
  \A f \in DOMAIN symbols : \A e \in DOMAIN quads :
    Ends(f, e) /\ e < next => instructions[At(f) + 2].result.value = At(e) + 1

(* The entries before that of a function are of later ones. *)
Entry == [name : Names, address : Nat]
FirstOf(name, k) == /\ k \in DOMAIN userfuncs /\ userfuncs[k].name = name
                    /\ \A j \in 1 .. k - 1 : userfuncs[j].name # name
Later(f, j) == \E g \in DOMAIN symbols : f < g /\ g < next /\ userfuncs[j].name = symbols[g].name
Userfuncs ==
  /\ userfuncs \in Seq(Entry)
  /\ \A k \in DOMAIN userfuncs : userfuncs[k].address <= Len(instructions)
  /\ \A f \in DOMAIN symbols : f < next =>
       /\ \E k \in DOMAIN userfuncs : FirstOf(symbols[f].name, k)
       /\ \E k \in DOMAIN userfuncs :
            /\ userfuncs[k].name = symbols[f].name
            /\ userfuncs[k].address = At(f) + 2
            /\ \A j \in 1 .. k - 1 : Later(f, j)

(* The last function with its name before quad i. *)
Latest(i, f) == \A g \in DOMAIN symbols : symbols[g].name = symbols[f].name /\ g < i => g <= f
Named ==
  \A i \in 0 .. next - 1, f \in DOMAIN symbols :
    RefersTo(i, f) /\ Latest(i, f) => Entered(i) = Arg("userfunc_a", At(f) + 2)

CodeInv ==
  /\ Ordered /\ Partition /\ Filled /\ Operands /\ Skipping /\ Skipped /\ Userfuncs /\ Named
  /\ currInstruction <= MaxInstructions
  /\ phase = "parse" => userfuncs = << >>
  /\ Generated => next = currQuad
  /\ \A j \in ijumps : j[1] < currInstruction /\ j[2] \in 0 .. MaxQuads

-----------------------------------------------------------------------------
(* The machine. *)

(* Instruction p is code of a function, from its FUNCENTER to its FUNCEXIT. *)
Within(f, p) == \E e \in DOMAIN quads : Ends(f, e) /\ Start(f) + 2 <= p /\ p <= Start(e)
In(p) == \E f \in DOMAIN symbols : Within(f, p)

IsCell(c) == c.type = "userfunc" => c.value \in 0 .. currInstruction

MachineInv ==
  /\ phase \in {"parse", "generate", "run"} \cup Ended
  /\ pc \in 0 .. currInstruction /\ steps \in 0 .. MAX_EXEC_STEPS
  /\ returns \in Seq(0 .. currInstruction)
  /\ DOMAIN stack = 0 .. MaxQuads /\ IsCell(stack[0]) /\ IsCell(retval_reg)
  /\ ~Generated => /\ pc = 0 /\ returns = << >>
                   /\ stack = [i \in 0 .. MaxQuads |-> Undef] /\ retval_reg = Undef
  /\ Generated =>
       /\ In(pc) => returns # << >>
       /\ \A k \in DOMAIN returns : In(returns[k]) => k < Len(returns)
  /\ phase # "wild"

-----------------------------------------------------------------------------
(* Quads as they are written. *)

(* A quad that the models write has the fields of one. *)
LEMMA QuadIsQuad ==
  ASSUME NEW op, NEW a, NEW b, NEW r, NEW l
  PROVE  LET x == Quad(op, a, b, r, l) IN
         IsQuad(x) /\ x.op = op /\ x.arg1 = a /\ x.arg2 = b /\ x.label = l
BY DEF Quad, IsQuad

(* emit appends a quad, and the others stay. *)
LEMMA EmitFacts ==
  ASSUME NEW q, IsProgram(q), \A i \in DOMAIN q : IsQuad(q[i]), NEW x, IsQuad(x)
  PROVE  /\ NextQuad(Emit(q, x)) = NextQuad(q) + 1
         /\ DOMAIN Emit(q, x) = 0 .. NextQuad(q)
         /\ \A i \in DOMAIN q : i \in DOMAIN Emit(q, x) /\ Emit(q, x)[i] = q[i]
         /\ Emit(q, x)[NextQuad(q)] = x
         /\ \A i \in DOMAIN Emit(q, x) : IsQuad(Emit(q, x)[i])
         /\ \A i \in DOMAIN Emit(q, x) : i \in DOMAIN q \/ (i = NextQuad(q) /\ Emit(q, x)[i] = x)
<1> DEFINE n == NextQuad(q)
           e == Emit(q, x)
<1>1. n \in Nat /\ DOMAIN q = 0 .. n - 1
  BY DEF IsProgram
<1> HIDE DEF n
<1>2. e = [i \in 0 .. n |-> IF i = n THEN x ELSE q[i]]
  BY DEF Emit, n
<1>3. DOMAIN e = 0 .. n
  BY <1>2
<1>4. NextQuad(e) = n + 1
  BY <1>1, <1>3, FS_Interval DEF NextQuad
<1>5. e[n] = x /\ \A i \in 0 .. n - 1 : e[i] = q[i]
  BY <1>1, <1>2
<1>6. ASSUME NEW i \in 0 .. n
      PROVE  IsQuad(e[i])
  <2>1. i = n \/ i \in 0 .. n - 1
    BY <1>1
  <2>2. QED BY <1>1, <1>5, <2>1
<1>7. (\A i \in 0 .. n : i \in 0 .. n - 1 \/ i = n) /\ \A i \in 0 .. n - 1 : i \in 0 .. n
  BY <1>1
<1> HIDE DEF e
<1>8. QED BY <1>1, <1>3, <1>4, <1>5, <1>6, <1>7 DEF e, n

(* Labelled, the jumps that patchlabel completes: labels only are changed. *)
LEMMA LabelledFacts ==
  ASSUME NEW q, \A i \in DOMAIN q : IsQuad(q[i]), NEW S, NEW l
  PROVE  LET r == Labelled(q, S, l) IN
         /\ DOMAIN r = DOMAIN q /\ NextQuad(r) = NextQuad(q)
         /\ \A i \in DOMAIN q :
              /\ IsQuad(r[i]) /\ SameButLabel(r[i], q[i])
              /\ r[i].label = IF i \in S THEN l ELSE q[i].label
<1> DEFINE r == Labelled(q, S, l)
<1>1. DOMAIN r = DOMAIN q
  BY DEF Labelled
<1>2. NextQuad(r) = NextQuad(q)
  BY <1>1 DEF NextQuad
<1>3. ASSUME NEW i \in DOMAIN q
      PROVE  /\ IsQuad(r[i]) /\ SameButLabel(r[i], q[i])
             /\ r[i].label = IF i \in S THEN l ELSE q[i].label
  <2>1. r[i] = IF i \in S THEN [q[i] EXCEPT !.label = l] ELSE q[i]
    BY DEF Labelled
  <2>2. PICK x : x = q[i]
    OBVIOUS
  <2>3. {"op", "arg1", "arg2", "label"} \subseteq DOMAIN x
    BY <2>2 DEF IsQuad
  <2>4. PICK y : y = [x EXCEPT !.label = l]
    OBVIOUS
  <2>5. y.op = x.op /\ y.arg1 = x.arg1 /\ y.arg2 = x.arg2 /\ y.label = l /\ DOMAIN y = DOMAIN x
    BY <2>3, <2>4
  <2>6. QED BY <2>1, <2>2, <2>3, <2>4, <2>5 DEF IsQuad, SameButLabel
<1>4. QED BY <1>1, <1>2, <1>3

(* The numbers below n, and those from n to m. *)
LEMMA Prefix ==
  ASSUME NEW n \in Nat, NEW m \in Nat, n <= m
  PROVE  /\ 0 .. n - 1 \subseteq 0 .. m - 1
         /\ \A i \in (0 .. m - 1) \ (0 .. n - 1) : n <= i /\ i \in Nat
         /\ \A i \in 0 .. n - 1 : i < n /\ i \in Nat
<1>1. \A i \in 0 .. n - 1 : i < n /\ i \in Nat /\ i \in 0 .. m - 1
  OBVIOUS
<1>2. \A i \in 0 .. m - 1 : i \in 0 .. n - 1 \/ (n <= i /\ i \in Nat)
  OBVIOUS
<1>3. QED BY <1>1, <1>2

(* A step that writes no FUNCSTART and no FUNCEND leaves the functions as   *)
(* they are.                                                                *)
LEMMA PlainStep ==
  ASSUME ProgramInv, IsProgram(quads), IsProgram(quads'), UNCHANGED symbols,
         currQuad <= currQuad', currQuad' <= MaxQuads,
         \A i \in DOMAIN quads' : IsQuad(quads'[i]),
         \A i \in DOMAIN quads : SameButLabel(quads'[i], quads[i]),
         \A i \in DOMAIN quads' \ DOMAIN quads :
           /\ quads'[i].op \notin {"funcstart", "funcend"}
           /\ quads'[i].arg1.type = "programfunc" => quads'[i].arg1.value \in DOMAIN symbols
           /\ quads'[i].arg2.type # "programfunc"
  PROVE  /\ (Quads /\ Declared /\ EndsAfter /\ Nested)'
         /\ DOMAIN quads \subseteq DOMAIN quads'
         /\ \A f, e : Ends(f, e)' <=> Ends(f, e)
         /\ \A l : InCode(l)' <=> InCode(l)
         /\ phase = "parse" /\ UNCHANGED open => OpenIn'
<1>1. PICK n \in Nat, m \in Nat : /\ n = currQuad /\ m = currQuad' /\ n <= m
                                /\ DOMAIN quads = 0 .. n - 1 /\ DOMAIN quads' = 0 .. m - 1
  BY DEF IsProgram, currQuad
<1>2. /\ DOMAIN quads \subseteq DOMAIN quads'
      /\ \A i \in DOMAIN quads' \ DOMAIN quads : n <= i /\ i \in Nat
      /\ \A i \in DOMAIN quads : i < n /\ i \in Nat
  BY <1>1, Prefix, Zenon
<1>3. Quads'
  BY <1>1 DEF Quads
<1>4. \A f, e : Ends(f, e)' <=> Ends(f, e)
  BY <1>2 DEF Ends, SameButLabel
<1>5. Declared'
  <2>1. /\ symbols \in [DOMAIN symbols -> Function]
        /\ \A i \in DOMAIN symbols : i \in DOMAIN quads
    BY DEF ProgramInv, Declared
  <2>2. ASSUME NEW i \in DOMAIN quads'
        PROVE  /\ quads'[i].op = "funcstart" <=> i \in DOMAIN symbols
               /\ i \in DOMAIN symbols => quads'[i].arg1 = ProgramFunc(i)
               /\ Refers(i)' => /\ quads'[i].arg1.value \in DOMAIN symbols
                                /\ quads'[i].arg1.value < i
               /\ quads'[i].arg2.type # "programfunc"
    <3>1. CASE i \in DOMAIN quads
      BY <3>1 DEF ProgramInv, Declared, Refers, SameButLabel
    <3>2. CASE i \notin DOMAIN quads
      <4>1. n <= i /\ i \in Nat /\ i \notin DOMAIN symbols
        BY <1>2, <2>1, <3>2
      <4>2. ASSUME Refers(i)'
            PROVE  quads'[i].arg1.value \in DOMAIN symbols /\ quads'[i].arg1.value < i
        <5>1. PICK f : f = quads'[i].arg1.value
          OBVIOUS
        <5>2. f \in DOMAIN symbols /\ f \in DOMAIN quads
          BY <2>1, <3>2, <4>2, <5>1 DEF Refers
        <5>3. f < n /\ f \in Nat
          BY <1>2, <5>2
        <5>4. QED BY <4>1, <5>1, <5>2, <5>3
      <4>3. QED BY <3>2, <4>1, <4>2
    <3>3. QED BY <3>1, <3>2
  <2>3. QED BY <1>2, <2>1, <2>2 DEF Declared
<1>6. EndsAfter'
  <2>1. SUFFICES ASSUME NEW e \in DOMAIN quads', quads'[e].op = "funcend"
                 PROVE  \E f \in DOMAIN symbols : f < e /\ Ends(f, e)'
    BY DEF EndsAfter
  <2>2. e \in DOMAIN quads /\ quads[e].op = "funcend"
    BY <2>1 DEF SameButLabel
  <2>3. QED BY <1>4, <2>2 DEF ProgramInv, EndsAfter
<1>7. Nested'
  <2>1. SUFFICES ASSUME NEW f \in DOMAIN symbols, NEW g \in DOMAIN symbols,
                        NEW d \in DOMAIN quads', NEW e \in DOMAIN quads',
                        Ends(f, e)', Ends(g, d)', f <= g, g <= e
                 PROVE  d <= e /\ (f # g => d # e)
    BY DEF Nested
  <2>2. Ends(f, e) /\ Ends(g, d) /\ d \in DOMAIN quads /\ e \in DOMAIN quads
    BY <1>4, <2>1 DEF Ends
  <2>3. QED BY <2>1, <2>2 DEF ProgramInv, Nested
<1>8. \A l : InCode(l)' <=> InCode(l)
  <2>1. \A f, l : InFunction(f, l)' <=> InFunction(f, l)
    BY <1>2, <1>4 DEF InFunction, Ends
  <2>2. QED BY <2>1 DEF InCode
<1>9. ASSUME phase = "parse", UNCHANGED open
      PROVE  OpenIn'
  <2>1. OpenIn /\ Inside' = Inside
    BY <1>9 DEF ProgramInv, Inside, Depth
  <2>2. \A f : (\A e \in DOMAIN quads' : ~Ends(f, e)') <=> (\A e \in DOMAIN quads : ~Ends(f, e))
    BY <1>2, <1>4 DEF Ends
  <2>3. \A f, e : Ends(f, e)' => e \in DOMAIN quads /\ Ends(f, e)
    BY <1>4 DEF Ends
  <2>4. QED BY <1>2, <1>9, <2>1, <2>2, <2>3 DEF OpenIn
<1>10. QED BY <1>2, <1>3, <1>4, <1>5, <1>6, <1>7, <1>8, <1>9

(* A step that writes no jump either, and patches none. *)
LEMMA NoJumpWritten ==
  ASSUME ProgramInv, IsProgram(quads), IsProgram(quads'),
         phase = "parse", UNCHANGED <<symbols, open, returnlist, phase>>,
         currQuad <= currQuad', currQuad' <= MaxQuads,
         \A i \in DOMAIN quads' : IsQuad(quads'[i]),
         \A i \in DOMAIN quads : quads'[i] = quads[i],
         \A i \in DOMAIN quads' \ DOMAIN quads :
           /\ quads'[i].op \notin {"funcstart", "funcend"} \cup DOMAIN JumpOpcode
           /\ quads'[i].arg1.type = "programfunc" => quads'[i].arg1.value \in DOMAIN symbols
           /\ quads'[i].arg2.type # "programfunc"
  PROVE  ProgramInv'
<1>1. /\ (Quads /\ Declared /\ EndsAfter /\ Nested)'
      /\ DOMAIN quads \subseteq DOMAIN quads'
      /\ \A l : InCode(l)' <=> InCode(l)
      /\ OpenIn'
  BY PlainStep DEF SameButLabel
<1>2. JumpsInside'
  <2>1. ASSUME NEW i \in DOMAIN quads', IsJump(i)'
        PROVE  quads'[i].label <= currQuad' /\ (InCode(quads[i].label)' => InCode(i)')
    <3>1. i \in DOMAIN quads /\ IsJump(i) /\ quads'[i].label = quads[i].label
      BY <2>1 DEF IsJump
    <3>2. PICK l : l = quads[i].label
      OBVIOUS
    <3>3. l <= currQuad /\ (InCode(l) => InCode(i)) /\ l \in Nat
      BY <3>1, <3>2 DEF ProgramInv, JumpsInside, IsProgram
    <3>4. l <= currQuad'
      BY <3>3 DEF IsProgram, currQuad
    <3>5. quads'[i].label = l
      BY <3>1, <3>2
    <3>6. InCode(quads[i].label)' <=> InCode(l)
      BY <1>1, <3>5 DEF InCode, InFunction, Ends
    <3>7. QED BY <1>1, <3>3, <3>4, <3>5, <3>6
  <2>2. ASSUME NEW i \in returnlist'
        PROVE  i \in DOMAIN quads' /\ InCode(i)'
    BY <1>1, <2>2 DEF ProgramInv, JumpsInside
  <2>3. QED BY <2>1, <2>2 DEF JumpsInside
<1>3. QED BY <1>1, <1>2 DEF ProgramInv

(* What an operand names has been declared. *)
LEMMA SourcesDeclared ==
  ASSUME NEW e \in Sources \cup {ProgramFunc(f) : f \in Callable} \cup {Var}, e.type = "programfunc"
  PROVE  e.value \in DOMAIN symbols
BY DEF Sources, ConstNum, ProgramFunc, Callable, Var

(* An assignment is written. *)
LEMMA AssignWritten ==
  ASSUME GenerationInv, ProgramInv, WriteAssign
  PROVE  ProgramInv'
<1>1. /\ IsProgram(quads) /\ currQuad \in Nat
      /\ \A i \in DOMAIN quads : IsQuad(quads[i])
  BY OpenIsKept DEF ProgramInv, Quads
<1>2. /\ phase = "parse" /\ UNCHANGED <<symbols, open, returnlist, phase>>
      /\ currQuad + 1 <= MaxQuads
  BY DEF WriteAssign, Room
<1>3. PICK e \in Sources : quads' = Emit(quads, Quad("assign", e, NoExpr, Var, 0))
  BY DEF WriteAssign
<1> DEFINE x == Quad("assign", e, NoExpr, Var, 0)
<1>4. IsQuad(x) /\ x.op = "assign" /\ x.arg1 = e /\ x.arg2.type = "none" /\ x.label = 0
  BY QuadIsQuad DEF NoExpr
<1>5. "label" \in DOMAIN x /\ quads' = Emit(quads, x)
  BY <1>3, <1>4 DEF IsQuad
<1> HIDE DEF x
<1>6. IsProgram(quads')
  BY <1>1, <1>4, <1>5, EmitProgram
<1>7. /\ NextQuad(quads') = currQuad + 1
      /\ \A i \in DOMAIN quads : quads'[i] = quads[i]
      /\ \A i \in DOMAIN quads' : IsQuad(quads'[i])
      /\ \A i \in DOMAIN quads' : i \in DOMAIN quads \/ quads'[i] = x
  BY <1>1, <1>4, <1>5, EmitFacts DEF currQuad
<1>8. currQuad <= currQuad' /\ currQuad' <= MaxQuads
  BY <1>1, <1>2, <1>7 DEF currQuad
<1>9. e.type = "programfunc" => e.value \in DOMAIN symbols
  BY SourcesDeclared
<1>10. x.op \notin {"funcstart", "funcend"} \cup DOMAIN JumpOpcode /\ x.arg2.type # "programfunc"
  BY <1>4 DEF JumpOpcode
<1>11. QED BY <1>1, <1>2, <1>4, <1>6, <1>7, <1>8, <1>9, <1>10, NoJumpWritten

(* A call, and the fetching of its result, are written. *)
LEMMA CallWritten ==
  ASSUME GenerationInv, ProgramInv, WriteCall
  PROVE  ProgramInv'
<1>1. /\ IsProgram(quads) /\ currQuad \in Nat
      /\ \A i \in DOMAIN quads : IsQuad(quads[i])
  BY OpenIsKept DEF ProgramInv, Quads
<1>2. /\ phase = "parse" /\ UNCHANGED <<symbols, open, returnlist, phase>>
      /\ currQuad + 3 <= MaxQuads
  BY DEF WriteCall, Room
<1>3. PICK e \in {ProgramFunc(f) : f \in Callable} \cup {Var} :
        quads' = Emit(Emit(Emit(quads, Only("param", ConstNum(0))), Only("call", e)),
                      Quad("getretval", NoExpr, NoExpr, Var, 0))
  BY DEF WriteCall
<1> DEFINE x == Only("param", ConstNum(0))
           y == Only("call", e)
           z == Quad("getretval", NoExpr, NoExpr, Var, 0)
           q == Emit(quads, x)
           r == Emit(q, y)
<1>4. /\ IsQuad(x) /\ x.op = "param" /\ x.arg1.type = "constnum" /\ x.arg2.type = "none"
      /\ IsQuad(y) /\ y.op = "call" /\ y.arg1 = e /\ y.arg2.type = "none"
      /\ IsQuad(z) /\ z.op = "getretval" /\ z.arg1.type = "none" /\ z.arg2.type = "none"
      /\ x.label = 0 /\ y.label = 0 /\ z.label = 0
  BY QuadIsQuad DEF NoExpr, Only, ConstNum
<1>5. /\ "label" \in DOMAIN x /\ "label" \in DOMAIN y /\ "label" \in DOMAIN z
      /\ quads' = Emit(r, z)
  BY <1>3, <1>4 DEF IsQuad
<1> HIDE DEF x, y, z
<1>6. /\ IsProgram(q) /\ NextQuad(q) = currQuad + 1
      /\ \A i \in DOMAIN quads : i \in DOMAIN q /\ q[i] = quads[i]
      /\ \A i \in DOMAIN q : IsQuad(q[i]) /\ (i \in DOMAIN quads \/ q[i] = x)
  <2>1. IsProgram(q) /\ NextQuad(q) = currQuad + 1
    BY <1>1, <1>4, <1>5, EmitProgram DEF currQuad
  <2>2. QED BY <1>1, <1>4, <2>1, EmitFacts
<1> HIDE DEF q
<1>7. /\ IsProgram(r) /\ NextQuad(r) = currQuad + 2
      /\ \A i \in DOMAIN quads : i \in DOMAIN r /\ r[i] = quads[i]
      /\ \A i \in DOMAIN r : IsQuad(r[i]) /\ (i \in DOMAIN quads \/ r[i] \in {x, y})
  <2>1. IsProgram(r) /\ NextQuad(r) = currQuad + 2
    BY <1>1, <1>4, <1>5, <1>6, EmitProgram
  <2>2. /\ \A i \in DOMAIN q : i \in DOMAIN r /\ r[i] = q[i]
        /\ \A i \in DOMAIN r : IsQuad(r[i]) /\ (i \in DOMAIN q \/ r[i] = y)
    BY <1>4, <1>6, EmitFacts
  <2>3. QED BY <1>6, <2>1, <2>2
<1> HIDE DEF r
<1>8. IsProgram(quads') /\ NextQuad(quads') = currQuad + 3
  BY <1>1, <1>4, <1>5, <1>7, EmitProgram
<1>9. /\ \A i \in DOMAIN r : quads'[i] = r[i]
      /\ \A i \in DOMAIN quads' : IsQuad(quads'[i]) /\ (i \in DOMAIN r \/ quads'[i] = z)
  BY <1>4, <1>5, <1>7, EmitFacts
<1>10. /\ \A i \in DOMAIN quads : quads'[i] = quads[i]
       /\ \A i \in DOMAIN quads' : i \in DOMAIN quads \/ quads'[i] \in {x, y, z}
  BY <1>7, <1>9
<1>11. currQuad <= currQuad' /\ currQuad' <= MaxQuads
  BY <1>1, <1>2, <1>8 DEF currQuad
<1>12. e.type = "programfunc" => e.value \in DOMAIN symbols
  BY SourcesDeclared
<1>13. \A w \in {x, y, z} :
         /\ w.op \notin {"funcstart", "funcend"} \cup DOMAIN JumpOpcode
         /\ w.arg1.type = "programfunc" => w.arg1.value \in DOMAIN symbols
         /\ w.arg2.type # "programfunc"
  BY <1>4, <1>12 DEF JumpOpcode
<1>14. \A i \in DOMAIN quads' \ DOMAIN quads :
         /\ quads'[i].op \notin {"funcstart", "funcend"} \cup DOMAIN JumpOpcode
         /\ quads'[i].arg1.type = "programfunc" => quads'[i].arg1.value \in DOMAIN symbols
         /\ quads'[i].arg2.type # "programfunc"
  BY <1>10, <1>13
<1>15. QED BY <1>1, <1>2, <1>8, <1>9, <1>10, <1>11, <1>14, NoJumpWritten

(* Two quads are written, as by a return or a test. *)
LEMMA EmitTwice ==
  ASSUME NEW q, IsProgram(q), \A i \in DOMAIN q : IsQuad(q[i]),
         NEW x, IsQuad(x), x.label \in Nat, NEW y, IsQuad(y), y.label \in Nat
  PROVE  LET r == Emit(Emit(q, x), y) IN
         /\ IsProgram(r) /\ NextQuad(r) = NextQuad(q) + 2
         /\ \A i \in DOMAIN q : i \in DOMAIN r /\ r[i] = q[i]
         /\ r[NextQuad(q)] = x /\ r[NextQuad(q) + 1] = y
         /\ \A i \in DOMAIN r :
              IsQuad(r[i]) /\ (i \in DOMAIN q \/ i = NextQuad(q) \/ i = NextQuad(q) + 1)
<1> DEFINE p == Emit(q, x)
           r == Emit(p, y)
           n == NextQuad(q)
<1>1. "label" \in DOMAIN x /\ "label" \in DOMAIN y /\ n \in Nat
  BY DEF IsQuad, IsProgram
<1>2. /\ IsProgram(p) /\ NextQuad(p) = n + 1 /\ DOMAIN p = 0 .. n /\ p[n] = x
      /\ \A i \in DOMAIN q : i \in DOMAIN p /\ p[i] = q[i]
      /\ \A i \in DOMAIN p : IsQuad(p[i]) /\ (i \in DOMAIN q \/ i = n)
  BY <1>1, EmitProgram, EmitFacts
<1> HIDE DEF p, n
<1>3. /\ IsProgram(r) /\ NextQuad(r) = (n + 1) + 1 /\ r[n + 1] = y
      /\ \A i \in DOMAIN p : i \in DOMAIN r /\ r[i] = p[i]
      /\ \A i \in DOMAIN r : IsQuad(r[i]) /\ (i \in DOMAIN p \/ i = n + 1)
  <2>1. IsProgram(r) /\ NextQuad(r) = NextQuad(p) + 1
    BY <1>1, <1>2, EmitProgram
  <2>2. /\ \A i \in DOMAIN p : i \in DOMAIN r /\ r[i] = p[i]
        /\ r[NextQuad(p)] = y
        /\ \A i \in DOMAIN r : IsQuad(r[i]) /\ (i \in DOMAIN p \/ (i = NextQuad(p) /\ r[i] = y))
    BY <1>2, EmitFacts
  <2> HIDE DEF r
  <2>3. QED BY <1>2, <2>1, <2>2
<1> HIDE DEF r
<1>4. n \in DOMAIN p /\ (n + 1) + 1 = n + 2
  BY <1>1, <1>2
<1>5. /\ NextQuad(r) = n + 2 /\ r[n] = x
      /\ \A i \in DOMAIN q : i \in DOMAIN r /\ r[i] = q[i]
      /\ \A i \in DOMAIN r : i \in DOMAIN q \/ i = n \/ i = n + 1
  BY <1>2, <1>3, <1>4
<1>6. QED BY <1>3, <1>5 DEF r, n, p

(* A FUNCEND is behind the FUNCSTART of its function. *)
LEMMA EndFacts ==
  ASSUME ProgramInv, IsProgram(quads)
  PROVE  /\ DOMAIN symbols \subseteq DOMAIN quads
         /\ \A i \in DOMAIN quads : i \in Nat /\ i < currQuad
         /\ currQuad \in Nat /\ currQuad \notin DOMAIN quads
         /\ \A f, e : Ends(f, e) => f \in DOMAIN symbols /\ e \in DOMAIN quads /\ f < e
<1>1. currQuad \in Nat /\ DOMAIN quads = 0 .. currQuad - 1
  BY DEF IsProgram, currQuad
<1>2. DOMAIN symbols \subseteq DOMAIN quads
  BY DEF ProgramInv, Declared
<1>3. ASSUME NEW f, NEW e, Ends(f, e)
      PROVE  f \in DOMAIN symbols /\ e \in DOMAIN quads /\ f < e
  <2>1. e \in DOMAIN quads /\ quads[e].op = "funcend" /\ quads[e].arg1 = ProgramFunc(f)
    BY <1>3 DEF Ends
  <2>2. PICK g \in DOMAIN symbols : g < e /\ Ends(g, e)
    BY <2>1 DEF ProgramInv, EndsAfter
  <2>3. ProgramFunc(g) = ProgramFunc(f)
    BY <2>1, <2>2 DEF Ends
  <2>4. g = f
    BY <2>3 DEF ProgramFunc
  <2>5. QED BY <2>1, <2>2, <2>4
<1>4. \A i \in DOMAIN quads : i \in Nat /\ i < currQuad
  BY <1>1
<1>5. currQuad \notin DOMAIN quads
  BY <1>1
<1>6. QED BY <1>1, <1>2, <1>3, <1>4, <1>5

(* Behind the begin of a function that is open is its code; quad 0 is in none. *)
LEMMA OpenIsCode ==
  ASSUME ProgramInv, IsProgram(quads), phase = "parse", NEW k \in Inside
  PROVE  /\ open[k].start \in DOMAIN quads
         /\ \A l : open[k].start < l => InFunction(open[k].start, l) /\ InCode(l)
<1>1. PICK f : f = open[k].start
  OBVIOUS
<1>2. f \in DOMAIN symbols /\ (\A e \in DOMAIN quads : ~Ends(f, e))
  BY <1>1 DEF ProgramInv, OpenIn
<1>3. \A l : f < l => InFunction(f, l)
  BY <1>2 DEF InFunction
<1>4. \A l : f < l => InCode(l)
  BY <1>2, <1>3 DEF InCode
<1>5. f \in DOMAIN quads
  BY <1>2, EndFacts
<1>6. QED BY <1>1, <1>3, <1>4, <1>5

(* A program does not begin inside a function. *)
LEMMA NotAtZero ==
  ASSUME ProgramInv, IsProgram(quads)
  PROVE  ~InCode(0)
<1>1. \A f \in DOMAIN symbols : f \in Nat
  BY EndFacts
<1>2. QED BY <1>1 DEF InCode, InFunction

(* Code behind the last quad is that of a function that is open. *)
LEMMA CodeAtEnd ==
  ASSUME ProgramInv, IsProgram(quads), NEW l \in Nat, currQuad <= l, NEW f \in DOMAIN symbols,
         InFunction(f, l)
  PROVE  (\A e \in DOMAIN quads : ~Ends(f, e)) /\ f \in Nat /\ f < currQuad
<1>1. f \in Nat /\ f < currQuad /\ currQuad \in Nat /\ \A i \in DOMAIN quads : i \in Nat /\ i < currQuad
  BY EndFacts
<1>2. QED BY <1>1 DEF InFunction

(* A jump that was written earlier stays one. *)
LEMMA OldJump ==
  ASSUME ProgramInv, IsProgram(quads), NEW i \in DOMAIN quads, IsJump(i), NEW l, l = quads[i].label
  PROVE  l \in Nat /\ l <= currQuad /\ (InCode(l) => InCode(i))
BY DEF ProgramInv, JumpsInside, IsProgram

(* In a step that leaves the functions, jumps go on not leading into one.   *)
LEMMA JumpsWritten ==
  ASSUME IsProgram(quads'),
         \A l : InCode(l)' <=> InCode(l),
         \A i \in DOMAIN quads' : IsJump(i)' =>
           \E l \in Nat : quads'[i].label = l /\ l <= currQuad' /\ (InCode(l) => InCode(i)),
         \A i \in returnlist' : i \in DOMAIN quads' /\ InCode(i)
  PROVE  JumpsInside'
<1>1. ASSUME NEW i \in DOMAIN quads', IsJump(i)'
      PROVE  quads'[i].label <= currQuad' /\ (InCode(quads[i].label)' => InCode(i)')
  <2>1. PICK l \in Nat : quads'[i].label = l /\ l <= currQuad' /\ (InCode(l) => InCode(i))
    BY <1>1
  <2>2. InCode(quads[i].label)' <=> InCode(l)
    BY <2>1 DEF InCode, InFunction, Ends
  <2>3. QED BY <2>1, <2>2
<1>2. QED BY <1>1 DEF JumpsInside

(* A return is written: its value, and a jump that waits for the end. *)
LEMMA ReturnWritten ==
  ASSUME GenerationInv, ProgramInv, WriteReturn
  PROVE  ProgramInv'
<1>1. /\ IsProgram(quads) /\ currQuad \in Nat
      /\ \A i \in DOMAIN quads : IsQuad(quads[i])
  BY OpenIsKept DEF ProgramInv, Quads
<1>2. /\ phase = "parse" /\ UNCHANGED <<symbols, open, phase>>
      /\ currQuad + 2 <= MaxQuads /\ Inside # {}
      /\ returnlist' = returnlist \cup {currQuad + 1}
  BY DEF WriteReturn, Room
<1>3. PICK e \in Sources : quads' = Emit(Emit(quads, Only("ret", e)), Jump(0))
  BY DEF WriteReturn
<1> DEFINE x == Only("ret", e)
           y == Jump(0)
<1>4. /\ IsQuad(x) /\ x.op = "ret" /\ x.arg1 = e /\ x.arg2.type = "none" /\ x.label = 0
      /\ IsQuad(y) /\ y.op = "jump" /\ y.arg1.type = "none" /\ y.arg2.type = "none" /\ y.label = 0
  BY QuadIsQuad DEF NoExpr, Only, Jump
<1>5. quads' = Emit(Emit(quads, x), y)
  BY <1>3
<1> HIDE DEF x, y
<1>6. PICK n \in Nat : n = currQuad /\ n = NextQuad(quads)
  BY <1>1 DEF currQuad
<1>7. /\ IsProgram(quads') /\ NextQuad(quads') = n + 2
      /\ \A i \in DOMAIN quads : i \in DOMAIN quads' /\ quads'[i] = quads[i]
      /\ quads'[n] = x /\ quads'[n + 1] = y
      /\ \A i \in DOMAIN quads' : IsQuad(quads'[i]) /\ (i \in DOMAIN quads \/ i = n \/ i = n + 1)
  BY <1>1, <1>4, <1>5, <1>6, EmitTwice
<1>8. currQuad' = n + 2 /\ n <= n + 2 /\ n + 2 <= MaxQuads
  BY <1>2, <1>6, <1>7 DEF currQuad
<1>9. e.type = "programfunc" => e.value \in DOMAIN symbols
  BY SourcesDeclared
<1>10. \A i \in DOMAIN quads' \ DOMAIN quads : quads'[i] = x \/ quads'[i] = y
  BY <1>7
<1>11. \A i \in DOMAIN quads' \ DOMAIN quads :
           /\ quads'[i].op \notin {"funcstart", "funcend"}
           /\ quads'[i].arg1.type = "programfunc" => quads'[i].arg1.value \in DOMAIN symbols
           /\ quads'[i].arg2.type # "programfunc"
  BY <1>4, <1>9, <1>10
<1>12. /\ (Quads /\ Declared /\ EndsAfter /\ Nested)' /\ OpenIn'
       /\ \A l : InCode(l)' <=> InCode(l)
  <2>1. \A i \in DOMAIN quads : SameButLabel(quads'[i], quads[i])
    BY <1>7 DEF SameButLabel
  <2>2. currQuad <= currQuad' /\ currQuad' <= MaxQuads
    BY <1>6, <1>8
  <2>3. QED BY <1>1, <1>2, <1>7, <1>11, <2>1, <2>2, PlainStep
<1>13. PICK k \in Inside : open[k].start \in DOMAIN quads /\ InCode(n + 1)
  <2>1. PICK k \in Inside : TRUE
    BY <1>2
  <2>2. open[k].start \in DOMAIN quads /\ \A l : open[k].start < l => InCode(l)
    BY <1>1, <1>2, OpenIsCode
  <2>3. PICK f : f = open[k].start
    OBVIOUS
  <2>4. f \in Nat /\ f < n
    BY <1>1, <1>6, <2>2, <2>3, EndFacts
  <2>5. f < n + 1
    BY <2>4
  <2>6. QED BY <2>2, <2>3, <2>5
<1>14. ASSUME NEW i \in DOMAIN quads', IsJump(i)'
       PROVE  \E l \in Nat : quads'[i].label = l /\ l <= currQuad' /\ (InCode(l) => InCode(i))
  <2>1. CASE i \in DOMAIN quads
    <3>1. IsJump(i) /\ quads'[i].label = quads[i].label
      BY <1>7, <1>14, <2>1 DEF IsJump
    <3>2. PICK l : l = quads[i].label
      OBVIOUS
    <3>3. l \in Nat /\ l <= n /\ (InCode(l) => InCode(i))
      BY <1>1, <1>6, <2>1, <3>1, <3>2, OldJump
    <3>4. l <= n + 2
      BY <3>3
    <3>5. QED BY <1>8, <3>1, <3>2, <3>3, <3>4
  <2>2. CASE i = n
    BY <1>4, <1>7, <1>14, <2>2 DEF IsJump, JumpOpcode
  <2>3. CASE i = n + 1
    <3>1. quads'[i].label = 0
      BY <1>4, <1>7, <2>3
    <3>2. 0 <= currQuad'
      BY <1>8
    <3>3. QED BY <1>1, <3>1, <3>2, NotAtZero
  <2>4. QED BY <1>7, <2>1, <2>2, <2>3
<1>15. n + 1 \in DOMAIN quads'
  BY <1>7 DEF IsProgram
<1>16. \A i \in returnlist' : i \in DOMAIN quads' /\ InCode(i)
  BY <1>2, <1>6, <1>7, <1>13, <1>15 DEF ProgramInv, JumpsInside
<1>17. JumpsInside'
  BY <1>7, <1>12, <1>14, <1>16, JumpsWritten
<1>18. QED BY <1>2, <1>12, <1>17 DEF ProgramInv

(* A construct is opened, perhaps a function: what OpenIn says of it.       *)
LEMMA OpenPushed ==
  ASSUME GenerationInv, ProgramInv, phase = "parse",
         NEW c \in Construct, c.start = currQuad, Push(c),
         currQuad \in DOMAIN quads', DOMAIN quads \subseteq DOMAIN quads',
         \A f, e : Ends(f, e)' <=> Ends(f, e),
         IF c.kind = "function" THEN DOMAIN symbols' = DOMAIN symbols \cup {currQuad}
                                ELSE DOMAIN symbols' = DOMAIN symbols
  PROVE  OpenIn'
<1>1. IsProgram(quads) /\ open \in Seq(Construct) /\ OpenIn
  BY OpenIsKept DEF ProgramInv
<1>2. /\ DOMAIN symbols \subseteq DOMAIN quads
      /\ \A i \in DOMAIN quads : i \in Nat /\ i < currQuad
      /\ currQuad \in Nat /\ currQuad \notin DOMAIN quads
      /\ \A f, e : Ends(f, e) => f \in DOMAIN symbols /\ e \in DOMAIN quads /\ f < e
  BY <1>1, EndFacts
<1>3. PICK n \in Nat : n = currQuad
  BY <1>2
<1>4. PICK m \in Nat : m = Len(open) /\ DOMAIN open = 1 .. m
  BY <1>1, LenProperties
<1>5. /\ open' \in Seq(Construct) /\ DOMAIN open' = 1 .. m + 1 /\ open'[m + 1] = c
      /\ \A k \in 1 .. m : open'[k] = open[k]
  <2>1. open' = Append(open, c)
    BY DEF Push
  <2>2. QED BY <1>1, <1>4, <2>1, AppendProperties
<1>6. \A k \in 1 .. m + 1 : k \in Nat /\ (k \in 1 .. m \/ k = m + 1)
  BY <1>4
<1>7. /\ m + 1 \in 1 .. m + 1 /\ m + 1 \notin 1 .. m
      /\ \A k \in 1 .. m : k \in 1 .. m + 1 /\ k < m + 1
  BY <1>4
<1>8. /\ Inside = {k \in 1 .. m : open[k].kind = "function"}
      /\ Inside' = {k \in 1 .. m + 1 : open'[k].kind = "function"}
  <2>1. Depth = m
    BY <1>4 DEF Depth
  <2>2. Depth' = m + 1
    BY <1>5, LenProperties DEF Depth
  <2>3. QED BY <2>1, <2>2 DEF Inside
<1>9. /\ \A k \in Inside : k \in Inside' /\ k \in 1 .. m
      /\ \A k \in Inside' : k \in Inside \/ (k = m + 1 /\ c.kind = "function")
      /\ c.kind = "function" => m + 1 \in Inside'
  BY <1>5, <1>6, <1>7, <1>8
<1>10. \A k \in DOMAIN open' : open'[k].start \in DOMAIN quads'
  BY <1>1, <1>3, <1>4, <1>5, <1>6 DEF OpenIn
<1>11. \A j, k \in DOMAIN open' : j < k => open'[j].start < open'[k].start
  <2>1. SUFFICES ASSUME NEW j \in 1 .. m + 1, NEW k \in 1 .. m + 1, j < k
                 PROVE  open'[j].start < open'[k].start
    BY <1>5
  <2>2. j \in 1 .. m
    BY <2>1
  <2>3. CASE k \in 1 .. m
    BY <1>1, <1>4, <1>5, <2>1, <2>2, <2>3 DEF OpenIn
  <2>4. CASE k = m + 1
    <3>1. open[j].start \in DOMAIN quads
      BY <1>1, <1>4, <2>2 DEF OpenIn
    <3>2. QED BY <1>2, <1>5, <2>2, <2>4, <3>1
  <2>5. QED BY <1>6, <2>3, <2>4
<1>12. \A k \in Inside' : open'[k].start \in DOMAIN symbols'
  <2>1. SUFFICES ASSUME NEW k \in Inside' PROVE open'[k].start \in DOMAIN symbols'
    OBVIOUS
  <2>2. CASE k \in Inside
    BY <1>1, <1>5, <1>9, <2>2 DEF OpenIn
  <2>3. CASE k = m + 1 /\ c.kind = "function"
    BY <1>5, <2>3
  <2>4. QED BY <1>9, <2>2, <2>3
<1>13. ASSUME NEW f \in DOMAIN symbols'
       PROVE  (\A e \in DOMAIN quads' : ~Ends(f, e)') <=> \E k \in Inside' : open'[k].start = f
  <2>1. (\A e \in DOMAIN quads' : ~Ends(f, e)') <=> (\A e \in DOMAIN quads : ~Ends(f, e))
    BY <1>2
  <2>2. CASE f \in DOMAIN symbols
    <3>1. f # currQuad
      BY <1>2, <2>2
    <3>2. (\E k \in Inside' : open'[k].start = f) <=> (\E k \in Inside : open[k].start = f)
      BY <1>5, <1>9, <3>1
    <3>3. QED BY <1>1, <2>1, <2>2, <3>2 DEF OpenIn
  <2>3. CASE f = currQuad /\ c.kind = "function"
    <3>1. \A e \in DOMAIN quads : ~Ends(f, e)
      BY <1>2, <2>3
    <3>2. m + 1 \in Inside' /\ open'[m + 1].start = f
      BY <1>5, <1>9, <2>3
    <3>3. QED BY <2>1, <3>1, <3>2
  <2>4. QED BY <2>2, <2>3
<1>14. \A k \in DOMAIN open' : \A f \in DOMAIN symbols' : \A e \in DOMAIN quads' :
         Ends(f, e)' /\ f < open'[k].start => e < open'[k].start
  <2>1. SUFFICES ASSUME NEW k \in 1 .. m + 1, NEW f, NEW e, Ends(f, e), f < open'[k].start
                 PROVE  e < open'[k].start
    BY <1>5
  <2>2. CASE k \in 1 .. m
    BY <1>1, <1>2, <1>4, <1>5, <2>1, <2>2 DEF OpenIn
  <2>3. CASE k = m + 1
    BY <1>2, <1>5, <2>1, <2>3
  <2>4. QED BY <1>6, <2>2, <2>3
<1>15. QED BY <1>10, <1>11, <1>12, <1>13, <1>14 DEF OpenIn

(* The innermost construct is closed; if it is a function, that ends it.    *)
LEMMA OpenPopped ==
  ASSUME GenerationInv, ProgramInv, phase = "parse", Depth > 0, Pop,
         DOMAIN quads \subseteq DOMAIN quads', UNCHANGED symbols,
         IF Top.kind = "function"
         THEN /\ currQuad \in DOMAIN quads'
              /\ \A f, e : Ends(f, e)' <=> Ends(f, e) \/ (f = Top.start /\ e = currQuad)
         ELSE \A f, e : Ends(f, e)' <=> Ends(f, e)
  PROVE  OpenIn'
<1>1. IsProgram(quads) /\ open \in Seq(Construct) /\ OpenIn
  BY OpenIsKept DEF ProgramInv
<1>2. /\ DOMAIN symbols \subseteq DOMAIN quads
      /\ \A i \in DOMAIN quads : i \in Nat /\ i < currQuad
      /\ currQuad \in Nat
      /\ \A f, e : Ends(f, e) => f \in DOMAIN symbols /\ e \in DOMAIN quads /\ f < e
  BY <1>1, EndFacts
<1>3. PICK m \in Nat : /\ m = Depth - 1 /\ Depth = m + 1 /\ DOMAIN open = 1 .. m + 1
                       /\ Len(open) = m + 1
  <2>1. Len(open) \in Nat /\ DOMAIN open = 1 .. Len(open) /\ Depth = Len(open)
    BY <1>1, LenProperties DEF Depth
  <2>2. PICK m : m = Depth - 1
    OBVIOUS
  <2>3. m \in Nat /\ Depth = m + 1
    BY <2>1, <2>2
  <2>4. QED BY <2>1, <2>2, <2>3
<1>4. /\ open' \in Seq(Construct) /\ DOMAIN open' = 1 .. m
      /\ \A k \in 1 .. m : open'[k] = open[k] /\ k \in DOMAIN open /\ k < m + 1
      /\ m + 1 \in DOMAIN open /\ Top = open[m + 1]
  <2>1. open' = SubSeq(open, 1, m) /\ m <= Len(open)
    BY <1>3 DEF Pop
  <2>2. open' \in Seq(Construct) /\ Len(open') = m /\ \A k \in 1 .. m : open'[k] = open[k]
    BY <1>1, <1>3, <2>1, SubSeqProperties
  <2>3. DOMAIN open' = 1 .. m
    BY <2>2, LenProperties
  <2>4. m + 1 \in 1 .. m + 1 /\ \A k \in 1 .. m : k \in 1 .. m + 1 /\ k < m + 1
    BY <1>3
  <2>5. QED BY <1>3, <2>2, <2>3, <2>4 DEF Top
<1>5. /\ Inside = {k \in 1 .. m + 1 : open[k].kind = "function"}
      /\ Inside' = {k \in 1 .. m : open[k].kind = "function"}
  <2>1. Depth' = m
    BY <1>3, <1>4, LenProperties DEF Depth
  <2>2. Inside' = {k \in 1 .. m : open'[k].kind = "function"}
    BY <2>1 DEF Inside
  <2>3. QED BY <1>3, <1>4, <2>2 DEF Inside
<1>6. /\ \A k \in Inside' : k \in Inside /\ k \in 1 .. m
      /\ \A k \in Inside : k \in Inside' \/ (k = m + 1 /\ Top.kind = "function")
      /\ Top.kind = "function" => m + 1 \in Inside
  <2>1. \A k \in 1 .. m + 1 : k \in 1 .. m \/ k = m + 1
    BY <1>3
  <2>2. \A k \in Inside' : k \in Inside /\ k \in 1 .. m
    BY <1>3, <1>4, <1>5
  <2>3. QED BY <1>3, <1>4, <1>5, <2>1, <2>2
<1>7. PICK s : s = Top.start
  OBVIOUS
<1>8. s \in DOMAIN quads /\ s \in Nat /\ s < currQuad /\ \A k \in 1 .. m : open[k].start < s
  <2>1. s \in DOMAIN quads /\ \A k \in 1 .. m : open[k].start < s
    BY <1>1, <1>4, <1>7 DEF OpenIn
  <2>2. QED BY <1>2, <2>1
<1>9. \A k \in 1 .. m : open[k].start \in Nat
  BY <1>1, <1>2, <1>4 DEF OpenIn
<1>10. /\ \A k \in DOMAIN open' : open'[k].start \in DOMAIN quads'
       /\ \A j, k \in DOMAIN open' : j < k => open'[j].start < open'[k].start
       /\ \A k \in Inside' : open'[k].start \in DOMAIN symbols'
  BY <1>1, <1>4, <1>6 DEF OpenIn
<1>11. ASSUME NEW f \in DOMAIN symbols
       PROVE  (\A e \in DOMAIN quads' : ~Ends(f, e)') <=> \E k \in Inside' : open'[k].start = f
  <2>1. \A e : Ends(f, e) => e \in DOMAIN quads /\ e \in DOMAIN quads'
    BY <1>2
  <2>2. CASE Top.kind = "function"
    <3>1. CASE f = s
      <4>1. ~(\A e \in DOMAIN quads' : ~Ends(f, e)')
        BY <1>7, <2>2, <3>1
      <4>2. ASSUME NEW k \in Inside' PROVE open'[k].start # f
        <5>1. k \in 1 .. m /\ open'[k] = open[k]
          BY <1>4, <1>6
        <5>2. PICK a \in Nat : a = open[k].start /\ a < s
          BY <1>8, <1>9, <5>1
        <5>3. a # s
          BY <1>8, <5>2
        <5>4. QED BY <3>1, <5>1, <5>2, <5>3
      <4>3. QED BY <4>1, <4>2
    <3>2. CASE f # s
      <4>1. (\A e \in DOMAIN quads' : ~Ends(f, e)') <=> (\A e \in DOMAIN quads : ~Ends(f, e))
        BY <1>7, <2>1, <2>2, <3>2
      <4>2. (\E k \in Inside' : open'[k].start = f) <=> (\E k \in Inside : open[k].start = f)
        BY <1>4, <1>6, <1>7, <3>2
      <4>3. QED BY <1>1, <4>1, <4>2 DEF OpenIn
    <3>3. QED BY <3>1, <3>2
  <2>3. CASE Top.kind # "function"
    <3>1. (\A e \in DOMAIN quads' : ~Ends(f, e)') <=> (\A e \in DOMAIN quads : ~Ends(f, e))
      BY <2>1, <2>3
    <3>2. (\E k \in Inside' : open'[k].start = f) <=> (\E k \in Inside : open[k].start = f)
      BY <1>4, <1>6, <2>3
    <3>3. QED BY <1>1, <3>1, <3>2 DEF OpenIn
  <2>4. QED BY <2>2, <2>3
<1>12. ASSUME NEW k \in 1 .. m, NEW f, NEW e, Ends(f, e)', f < open[k].start
       PROVE  e < open[k].start
  <2>1. CASE Ends(f, e)
    BY <1>1, <1>2, <1>4, <1>12, <2>1 DEF OpenIn
  <2>2. CASE f = s /\ e = currQuad
    <3>1. PICK a \in Nat : a = open[k].start /\ a < s
      BY <1>8, <1>9
    <3>2. s < a
      BY <1>12, <2>2, <3>1
    <3>3. QED BY <1>8, <3>1, <3>2
  <2>3. QED BY <1>7, <1>12, <2>1, <2>2
<1>13. QED BY <1>4, <1>10, <1>11, <1>12 DEF OpenIn

(* An if or a while begins: a test and a jump past the body. *)
LEMMA TestWritten ==
  ASSUME GenerationInv, ProgramInv, NEW kind \in {"if", "while"}, WriteTest(kind)
  PROVE  ProgramInv'
<1>1. /\ IsProgram(quads) /\ currQuad \in Nat /\ Scope \in Nat
      /\ \A i \in DOMAIN quads : IsQuad(quads[i])
  BY OpenIsKept DEF ProgramInv, Quads
<1>2. /\ phase = "parse" /\ UNCHANGED <<symbols, returnlist, phase>>
      /\ currQuad + 2 <= MaxQuads
      /\ Push([kind |-> kind, start |-> currQuad, scope |-> Scope + 1])
  BY DEF WriteTest, Room
<1>3. PICK op \in Relops :
        quads' = Emit(Emit(quads, Quad(op, Var, ConstNum(1), NoExpr, currQuad + 2)), Jump(0))
  BY DEF WriteTest
<1>4. PICK n \in Nat : n = currQuad /\ n = NextQuad(quads)
  BY <1>1 DEF currQuad
<1> DEFINE x == Quad(op, Var, ConstNum(1), NoExpr, currQuad + 2)
           y == Jump(0)
<1>5. /\ IsQuad(x) /\ x.op = op /\ x.arg1.type = "var" /\ x.arg2.type = "constnum" /\ x.label = n + 2
      /\ IsQuad(y) /\ y.op = "jump" /\ y.arg1.type = "none" /\ y.arg2.type = "none" /\ y.label = 0
  BY <1>4, QuadIsQuad DEF NoExpr, Var, ConstNum, Jump
<1>6. quads' = Emit(Emit(quads, x), y)
  BY <1>3
<1> HIDE DEF x, y
<1>7. /\ IsProgram(quads') /\ NextQuad(quads') = n + 2
      /\ \A i \in DOMAIN quads : i \in DOMAIN quads' /\ quads'[i] = quads[i]
      /\ quads'[n] = x /\ quads'[n + 1] = y
      /\ \A i \in DOMAIN quads' : IsQuad(quads'[i]) /\ (i \in DOMAIN quads \/ i = n \/ i = n + 1)
  <2>1. x.label \in Nat /\ y.label \in Nat
    BY <1>5
  <2>2. QED BY <1>1, <1>4, <1>5, <1>6, <2>1, EmitTwice
<1>8. currQuad' = n + 2 /\ n <= n + 2 /\ n + 2 <= MaxQuads
  BY <1>2, <1>4, <1>7 DEF currQuad
<1>9. op \notin {"funcstart", "funcend"}
  BY CodeGenAssumption
<1>10. \A i \in DOMAIN quads' \ DOMAIN quads : quads'[i] = x \/ quads'[i] = y
  BY <1>7
<1>11. \A i \in DOMAIN quads' \ DOMAIN quads :
           /\ quads'[i].op \notin {"funcstart", "funcend"}
           /\ quads'[i].arg1.type = "programfunc" => quads'[i].arg1.value \in DOMAIN symbols
           /\ quads'[i].arg2.type # "programfunc"
  BY <1>5, <1>9, <1>10
<1>12. /\ (Quads /\ Declared /\ EndsAfter /\ Nested)'
       /\ DOMAIN quads \subseteq DOMAIN quads'
       /\ \A f, e : Ends(f, e)' <=> Ends(f, e)
       /\ \A l : InCode(l)' <=> InCode(l)
  <2>1. \A i \in DOMAIN quads : SameButLabel(quads'[i], quads[i])
    BY <1>7 DEF SameButLabel
  <2>2. currQuad <= currQuad' /\ currQuad' <= MaxQuads
    BY <1>4, <1>8
  <2>3. QED BY <1>1, <1>2, <1>7, <1>11, <2>1, <2>2, PlainStep
<1>13. n \in DOMAIN quads' /\ n + 1 \in DOMAIN quads'
  BY <1>7 DEF IsProgram
<1>14. OpenIn'
  <2> DEFINE c == [kind |-> kind, start |-> currQuad, scope |-> Scope + 1]
  <2>1. c \in Construct /\ c.start = currQuad /\ c.kind # "function" /\ Push(c)
    BY <1>1, <1>2 DEF Construct
  <2> HIDE DEF c
  <2>2. QED BY <1>2, <1>4, <1>12, <1>13, <2>1, OpenPushed
<1>15. InCode(n + 2) => InCode(n)
  <2>1. SUFFICES ASSUME NEW f \in DOMAIN symbols, InFunction(f, n + 2)
                 PROVE  InCode(n)
    BY DEF InCode
  <2>2. (\A e \in DOMAIN quads : ~Ends(f, e)) /\ f \in Nat /\ f < n
    BY <1>1, <1>4, <1>8, <2>1, CodeAtEnd
  <2>3. QED BY <2>2 DEF InCode, InFunction
<1>16. ASSUME NEW i \in DOMAIN quads', IsJump(i)'
       PROVE  \E l \in Nat : quads'[i].label = l /\ l <= currQuad' /\ (InCode(l) => InCode(i))
  <2>1. CASE i \in DOMAIN quads
    <3>1. IsJump(i) /\ quads'[i].label = quads[i].label
      BY <1>7, <1>16, <2>1 DEF IsJump
    <3>2. PICK l : l = quads[i].label
      OBVIOUS
    <3>3. l \in Nat /\ l <= n /\ (InCode(l) => InCode(i))
      BY <1>1, <1>4, <2>1, <3>1, <3>2, OldJump
    <3>4. l <= n + 2
      BY <3>3
    <3>5. QED BY <1>8, <3>1, <3>2, <3>3, <3>4
  <2>2. CASE i = n
    <3>1. quads'[i].label = n + 2 /\ n + 2 \in Nat /\ n + 2 <= currQuad'
      BY <1>5, <1>7, <1>8, <2>2
    <3>2. QED BY <1>15, <2>2, <3>1
  <2>3. CASE i = n + 1
    <3>1. quads'[i].label = 0
      BY <1>5, <1>7, <2>3
    <3>2. 0 <= currQuad'
      BY <1>8
    <3>3. QED BY <1>1, <3>1, <3>2, NotAtZero
  <2>4. QED BY <1>7, <2>1, <2>2, <2>3
<1>17. \A i \in returnlist' : i \in DOMAIN quads' /\ InCode(i)
  BY <1>2, <1>7 DEF ProgramInv, JumpsInside
<1>18. JumpsInside'
  BY <1>7, <1>12, <1>16, <1>17, JumpsWritten
<1>19. QED BY <1>2, <1>12, <1>14, <1>18 DEF ProgramInv

(* The body of an if or a while ends: its jump past it is completed.        *)
LEMMA EndWritten ==
  ASSUME GenerationInv, ProgramInv, WriteEnd
  PROVE  ProgramInv'
<1>1. /\ IsProgram(quads) /\ open \in Seq(Construct) /\ Depth \in Nat
      /\ \A i \in DOMAIN quads : IsQuad(quads[i])
  BY OpenIsKept DEF ProgramInv, Quads
<1>2. /\ phase = "parse" /\ UNCHANGED <<symbols, returnlist, phase>>
      /\ currQuad + 1 <= MaxQuads /\ Depth > 0 /\ Top.kind \in {"if", "while"} /\ Pop
  BY DEF WriteEnd, Room
<1>3. PICK n \in Nat : n = currQuad /\ n = NextQuad(quads) /\ DOMAIN quads = 0 .. n - 1
  BY <1>1 DEF currQuad, IsProgram
<1>4. PICK s \in Nat : /\ s = Top.start /\ s \in DOMAIN quads /\ s < n
                       /\ \A k \in Inside : open[k].start \in Nat /\ open[k].start < s
                       /\ \A f \in DOMAIN symbols, e \in DOMAIN quads : Ends(f, e) /\ f < s => e < s
  <2>1. DOMAIN open = 1 .. Depth /\ Depth \in DOMAIN open /\ OpenIn
    BY <1>1, <1>2, LenProperties DEF Depth, ProgramInv
  <2>2. PICK s : s = Top.start /\ s = open[Depth].start
    BY DEF Top
  <2>3. s \in DOMAIN quads
    BY <2>1, <2>2 DEF OpenIn
  <2>4. s \in Nat /\ s < n
    BY <1>1, <1>3, <2>3, EndFacts
  <2>5. ASSUME NEW k \in Inside PROVE open[k].start \in Nat /\ open[k].start < s
    <3>1. k \in DOMAIN open /\ open[k].kind = "function" /\ k \in Nat /\ k <= Depth
      BY <1>1, <2>1 DEF Inside
    <3>2. k # Depth
      BY <1>2, <3>1 DEF Top
    <3>3. k < Depth
      BY <1>1, <3>1, <3>2
    <3>4. open[k].start \in DOMAIN quads /\ open[k].start < s
      BY <2>1, <2>2, <3>1, <3>3 DEF OpenIn
    <3>5. QED BY <1>1, <3>4, EndFacts
  <2>6. \A f \in DOMAIN symbols, e \in DOMAIN quads : Ends(f, e) /\ f < s => e < s
    BY <2>1, <2>2 DEF OpenIn
  <2>7. QED BY <2>2, <2>3, <2>4, <2>5, <2>6
<1> DEFINE y == Jump(s)
           q == IF Top.kind = "if" THEN quads ELSE Emit(quads, y)
<1>5. /\ IsQuad(y) /\ y.op = "jump" /\ y.arg1.type = "none" /\ y.arg2.type = "none" /\ y.label = s
      /\ "label" \in DOMAIN y
  BY QuadIsQuad DEF NoExpr, Jump, IsQuad
<1> HIDE DEF y
<1>6. PICK m \in Nat : /\ m = NextQuad(q) /\ IsProgram(q) /\ n <= m /\ m <= n + 1
                       /\ \A i \in DOMAIN quads : i \in DOMAIN q /\ q[i] = quads[i]
                       /\ \A i \in DOMAIN q :
                            IsQuad(q[i]) /\ (i \in DOMAIN quads \/ (i = n /\ m = n + 1 /\ q[i] = y))
  <2>1. CASE Top.kind = "if"
    BY <1>1, <1>3, <2>1
  <2>2. CASE Top.kind # "if"
    <3>1. q = Emit(quads, y)
      BY <2>2
    <3>2. IsProgram(q) /\ NextQuad(q) = n + 1
      BY <1>1, <1>3, <1>4, <1>5, <3>1, EmitProgram
    <3>3. /\ \A i \in DOMAIN quads : i \in DOMAIN q /\ q[i] = quads[i]
          /\ \A i \in DOMAIN q : IsQuad(q[i]) /\ (i \in DOMAIN quads \/ (i = n /\ q[i] = y))
      BY <1>1, <1>3, <1>5, <3>1, EmitFacts
    <3> HIDE DEF q
    <3>4. QED BY <1>3, <3>2, <3>3
  <2>3. QED BY <2>1, <2>2
<1>7. quads' = PatchLabel(q, s + 1, NextQuad(q))
  BY <1>4 DEF WriteEnd, y
<1> HIDE DEF q
<1>8. quads' = Labelled(q, {s + 1}, m)
  BY <1>6, <1>7 DEF PatchLabel
<1>9. /\ IsProgram(quads') /\ NextQuad(quads') = m /\ DOMAIN quads' = DOMAIN q
      /\ \A i \in DOMAIN q :
           /\ IsQuad(quads'[i]) /\ SameButLabel(quads'[i], q[i])
           /\ quads'[i].label = IF i \in {s + 1} THEN m ELSE q[i].label
  BY <1>6, <1>8, LabelledProgram, LabelledFacts
<1>10. currQuad' = m /\ currQuad <= currQuad' /\ currQuad' <= MaxQuads
  <2>1. MaxQuads \in Nat
    BY CodeGenAssumption
  <2>2. QED BY <1>2, <1>3, <1>6, <1>9, <2>1 DEF currQuad
<1>11. /\ (Quads /\ Declared /\ EndsAfter /\ Nested)'
       /\ DOMAIN quads \subseteq DOMAIN quads'
       /\ \A f, e : Ends(f, e)' <=> Ends(f, e)
       /\ \A l : InCode(l)' <=> InCode(l)
  <2>1. \A i \in DOMAIN quads : SameButLabel(quads'[i], quads[i])
    BY <1>6, <1>9
  <2>2. \A i \in DOMAIN quads' \ DOMAIN quads : SameButLabel(quads'[i], y)
    BY <1>6, <1>9
  <2>3. \A i \in DOMAIN quads' \ DOMAIN quads :
           /\ quads'[i].op \notin {"funcstart", "funcend"}
           /\ quads'[i].arg1.type = "programfunc" => quads'[i].arg1.value \in DOMAIN symbols
           /\ quads'[i].arg2.type # "programfunc"
    BY <1>5, <2>2 DEF SameButLabel
  <2>4. QED BY <1>1, <1>2, <1>9, <1>10, <2>1, <2>3, PlainStep
<1>12. OpenIn'
  BY <1>2, <1>11, OpenPopped
<1>13. InCode(m) => InCode(s + 1)
  <2>1. SUFFICES ASSUME NEW f \in DOMAIN symbols, InFunction(f, m)
                 PROVE  InCode(s + 1)
    BY DEF InCode
  <2>2. \A e \in DOMAIN quads : ~Ends(f, e)
    BY <1>1, <1>3, <1>6, <2>1, CodeAtEnd
  <2>3. PICK k \in Inside : open[k].start = f
    BY <1>2, <2>2 DEF ProgramInv, OpenIn
  <2>4. f \in Nat /\ f < s
    BY <1>4, <2>3
  <2>5. f < s + 1
    BY <2>4
  <2>6. QED BY <2>2, <2>5 DEF InCode, InFunction
<1>14. InCode(s) => InCode(n)
  <2>1. SUFFICES ASSUME NEW f \in DOMAIN symbols, InFunction(f, s)
                 PROVE  InCode(n)
    BY DEF InCode
  <2>2. f \in Nat /\ f < s
    BY <1>1, <2>1, EndFacts DEF InFunction
  <2>3. ASSUME NEW e \in DOMAIN quads, Ends(f, e)
        PROVE  FALSE
    <3>1. e \in Nat /\ s <= e /\ e < s
      BY <1>1, <1>4, <2>1, <2>2, <2>3, EndFacts DEF InFunction
    <3>2. QED BY <3>1
  <2>4. f < n
    BY <1>4, <2>2
  <2>5. QED BY <2>3, <2>4 DEF InCode, InFunction
<1>15. ASSUME NEW i \in DOMAIN quads', IsJump(i)'
       PROVE  \E l \in Nat : quads'[i].label = l /\ l <= currQuad' /\ (InCode(l) => InCode(i))
  <2>1. CASE i = s + 1
    <3>1. quads'[i].label = m /\ m <= currQuad'
      BY <1>6, <1>9, <1>10, <1>15, <2>1
    <3>2. QED BY <1>13, <2>1, <3>1
  <2>2. CASE i # s + 1 /\ i \in DOMAIN quads
    <3>1. IsJump(i) /\ quads'[i].label = quads[i].label
      BY <1>6, <1>9, <1>15, <2>2 DEF IsJump, SameButLabel
    <3>2. PICK l : l = quads[i].label
      OBVIOUS
    <3>3. l \in Nat /\ l <= n /\ (InCode(l) => InCode(i))
      BY <1>1, <1>3, <2>2, <3>1, <3>2, OldJump
    <3>4. l <= m
      BY <1>6, <3>3
    <3>5. QED BY <1>10, <3>1, <3>2, <3>3, <3>4
  <2>3. CASE i # s + 1 /\ i = n /\ m = n + 1
    <3>1. i \in DOMAIN q /\ i \notin DOMAIN quads
      BY <1>3, <1>9, <1>15, <2>3
    <3>2. quads'[i].label = s
      BY <1>5, <1>6, <1>9, <2>3, <3>1
    <3>3. s <= m
      BY <1>4, <1>6
    <3>4. QED BY <1>10, <1>14, <2>3, <3>2, <3>3
  <2>4. QED BY <1>6, <1>9, <1>15, <2>1, <2>2, <2>3
<1>16. \A i \in returnlist' : i \in DOMAIN quads' /\ InCode(i)
  BY <1>2, <1>11 DEF ProgramInv, JumpsInside
<1>17. JumpsInside'
  BY <1>9, <1>11, <1>15, <1>16, JumpsWritten
<1>18. QED BY <1>2, <1>11, <1>12, <1>17 DEF ProgramInv

(* A function begins. *)
LEMMA FunctionWritten ==
  ASSUME GenerationInv, ProgramInv, WriteFunction
  PROVE  ProgramInv'
<1>1. /\ IsProgram(quads) /\ Scope \in Nat
      /\ \A i \in DOMAIN quads : IsQuad(quads[i])
  BY OpenIsKept DEF ProgramInv, Quads
<1>2. /\ phase = "parse" /\ phase' = phase /\ currQuad + 2 <= MaxQuads
      /\ returnlist' = {}
      /\ Push([kind |-> "function", start |-> currQuad, scope |-> Scope + 2])
      /\ quads' = Emit(quads, Quad("funcstart", ProgramFunc(currQuad), ConstNum(0), NoExpr, 0))
  BY DEF WriteFunction, Room
<1>3. PICK n \in Nat : n = currQuad /\ n = NextQuad(quads)
  BY <1>1 DEF currQuad, IsProgram
<1>4. PICK name \in Names :
        symbols' = [f \in DOMAIN symbols \cup {currQuad} |->
                      IF f = currQuad THEN [name |-> name, scope |-> Scope] ELSE symbols[f]]
  BY DEF WriteFunction
<1> DEFINE x == Quad("funcstart", ProgramFunc(n), ConstNum(0), NoExpr, 0)
<1>5. /\ IsQuad(x) /\ x.op = "funcstart" /\ x.arg1 = ProgramFunc(n) /\ x.arg2.type = "constnum"
      /\ x.label = 0 /\ "label" \in DOMAIN x /\ quads' = Emit(quads, x)
  BY <1>2, <1>3, QuadIsQuad DEF ConstNum, IsQuad
<1> HIDE DEF x
<1>6. /\ IsProgram(quads') /\ NextQuad(quads') = n + 1
      /\ \A i \in DOMAIN quads : i \in DOMAIN quads' /\ quads'[i] = quads[i]
      /\ n \in DOMAIN quads' /\ quads'[n] = x
      /\ \A i \in DOMAIN quads' : IsQuad(quads'[i]) /\ (i \in DOMAIN quads \/ i = n)
  <2>1. IsProgram(quads') /\ NextQuad(quads') = n + 1
    BY <1>1, <1>3, <1>5, EmitProgram
  <2>2. n \in DOMAIN quads'
    BY <2>1 DEF IsProgram
  <2>3. QED BY <1>1, <1>3, <1>5, <2>1, <2>2, EmitFacts
<1>7. currQuad' = n + 1 /\ n + 1 <= MaxQuads
  <2>1. MaxQuads \in Nat
    BY CodeGenAssumption
  <2>2. QED BY <1>2, <1>3, <1>6, <2>1 DEF currQuad
<1>8. /\ DOMAIN symbols \subseteq DOMAIN quads
      /\ \A i \in DOMAIN quads : i \in Nat /\ i < n
      /\ n \notin DOMAIN quads
      /\ \A f, e : Ends(f, e) => f \in DOMAIN symbols /\ e \in DOMAIN quads /\ f < e
  BY <1>1, <1>3, EndFacts
<1>9. /\ DOMAIN symbols' = DOMAIN symbols \cup {n}
      /\ symbols'[n] = [name |-> name, scope |-> Scope]
      /\ \A f \in DOMAIN symbols : symbols'[f] = symbols[f]
  BY <1>3, <1>4, <1>8
<1>10. Quads'
  BY <1>6, <1>7 DEF Quads
<1>11. \A f, e : Ends(f, e)' <=> Ends(f, e)
  BY <1>5, <1>6 DEF Ends
<1>12. Declared'
  <2>1. /\ symbols \in [DOMAIN symbols -> Function]
        /\ \A i \in DOMAIN quads :
             /\ quads[i].op = "funcstart" <=> i \in DOMAIN symbols
             /\ i \in DOMAIN symbols => quads[i].arg1 = ProgramFunc(i)
             /\ Refers(i) => quads[i].arg1.value \in DOMAIN symbols /\ quads[i].arg1.value < i
             /\ quads[i].arg2.type # "programfunc"
    BY DEF ProgramInv, Declared
  <2>2. \A f \in DOMAIN symbols' : symbols'[f] \in Function
    BY <1>1, <1>9, <2>1 DEF Function
  <2>3. symbols' = [f \in DOMAIN symbols' |-> symbols'[f]]
    BY <1>4
  <2>4. symbols' \in [DOMAIN symbols' -> Function]
    BY <2>2, <2>3
  <2>5. ASSUME NEW i \in DOMAIN quads'
        PROVE  /\ quads'[i].op = "funcstart" <=> i \in DOMAIN symbols'
               /\ i \in DOMAIN symbols' => quads'[i].arg1 = ProgramFunc(i)
               /\ Refers(i)' => quads'[i].arg1.value \in DOMAIN symbols' /\ quads'[i].arg1.value < i
               /\ quads'[i].arg2.type # "programfunc"
    <3>1. CASE i \in DOMAIN quads
      <4>1. quads'[i] = quads[i] /\ i # n
        BY <1>6, <1>8, <3>1
      <4>2. Refers(i)' <=> Refers(i)
        BY <4>1 DEF Refers
      <4>3. QED BY <1>9, <2>1, <3>1, <4>1, <4>2
    <3>2. CASE i = n
      BY <1>5, <1>6, <1>9, <3>2 DEF Refers
    <3>3. QED BY <1>6, <3>1, <3>2
  <2>6. \A i \in DOMAIN symbols' : i \in DOMAIN quads'
    BY <1>6, <1>8, <1>9
  <2>7. QED BY <2>4, <2>5, <2>6 DEF Declared
<1>13. EndsAfter'
  <2>1. SUFFICES ASSUME NEW e \in DOMAIN quads', quads'[e].op = "funcend"
                 PROVE  \E f \in DOMAIN symbols' : f < e /\ Ends(f, e)'
    BY DEF EndsAfter
  <2>2. e \in DOMAIN quads /\ quads[e].op = "funcend"
    BY <1>5, <1>6, <2>1
  <2>3. QED BY <1>9, <1>11, <2>2 DEF ProgramInv, EndsAfter
<1>14. Nested'
  <2>1. SUFFICES ASSUME NEW f, NEW g, NEW d, NEW e, Ends(f, e), Ends(g, d), f <= g, g <= e
                 PROVE  d <= e /\ (f # g => d # e)
    BY <1>11 DEF Nested
  <2>2. QED BY <1>8, <2>1 DEF ProgramInv, Nested
<1>15. OpenIn'
  <2> DEFINE c == [kind |-> "function", start |-> currQuad, scope |-> Scope + 2]
  <2>1. c \in Construct /\ c.start = currQuad /\ c.kind = "function" /\ Push(c)
    BY <1>1, <1>2, <1>3 DEF Construct
  <2> HIDE DEF c
  <2>2. DOMAIN quads \subseteq DOMAIN quads'
    BY <1>6
  <2>3. QED BY <1>2, <1>3, <1>6, <1>9, <1>11, <2>1, <2>2, OpenPushed
<1>16. ASSUME NEW l \in Nat, l <= n
       PROVE  InCode(l)' <=> InCode(l)
  <2>1. \A f : InFunction(f, l)' <=> InFunction(f, l)
    BY <1>6, <1>8, <1>11 DEF InFunction, Ends
  <2>2. ~InFunction(n, l)
    BY <1>16 DEF InFunction
  <2>3. QED BY <1>9, <2>1, <2>2 DEF InCode
<1>17. JumpsInside'
  <2>1. ASSUME NEW i \in DOMAIN quads', IsJump(i)'
        PROVE  quads'[i].label <= currQuad' /\ (InCode(quads[i].label)' => InCode(i)')
    <3>1. i \in DOMAIN quads /\ IsJump(i) /\ quads'[i] = quads[i]
      BY <1>5, <1>6, <2>1 DEF IsJump, JumpOpcode
    <3>2. PICK l : l = quads[i].label
      OBVIOUS
    <3>3. l \in Nat /\ l <= n /\ (InCode(l) => InCode(i)) /\ i \in Nat /\ i < n
      BY <1>1, <1>3, <1>8, <3>1, <3>2, OldJump
    <3>4. l <= n + 1 /\ i <= n
      BY <3>3
    <3>5. InCode(quads[i].label)' <=> InCode(l)'
      BY <3>1, <3>2 DEF InCode, InFunction, Ends
    <3>6. (InCode(l)' <=> InCode(l)) /\ (InCode(i)' <=> InCode(i))
      BY <1>16, <3>3, <3>4
    <3>7. QED BY <1>7, <3>1, <3>2, <3>3, <3>4, <3>5, <3>6
  <2>2. QED BY <1>2, <2>1 DEF JumpsInside
<1>18. QED BY <1>2, <1>10, <1>12, <1>13, <1>14, <1>15, <1>17 DEF ProgramInv

(* A function ends: the jumps of its returns go to its last quad.           *)
LEMMA FunctionEndWritten ==
  ASSUME GenerationInv, ProgramInv, WriteFunctionEnd
  PROVE  ProgramInv'
<1>1. /\ IsProgram(quads) /\ open \in Seq(Construct) /\ Depth \in Nat
      /\ \A i \in DOMAIN quads : IsQuad(quads[i])
  BY OpenIsKept DEF ProgramInv, Quads
<1>2. /\ phase = "parse" /\ phase' = phase /\ UNCHANGED symbols /\ currQuad + 1 <= MaxQuads
      /\ returnlist' = {} /\ Pop /\ Depth > 0 /\ Top.kind = "function"
      /\ quads' = Labelled(Emit(quads, Only("funcend", ProgramFunc(Top.start))),
                           returnlist, currQuad)
  BY DEF WriteFunctionEnd, Room
<1>3. PICK n \in Nat : n = currQuad /\ n = NextQuad(quads)
  BY <1>1 DEF currQuad, IsProgram
<1>4. /\ DOMAIN symbols \subseteq DOMAIN quads
      /\ \A i \in DOMAIN quads : i \in Nat /\ i < n
      /\ n \notin DOMAIN quads
      /\ \A f, e : Ends(f, e) => f \in DOMAIN symbols /\ e \in DOMAIN quads /\ f < e
  BY <1>1, <1>3, EndFacts
<1>5. PICK s \in Nat : /\ s = Top.start /\ s \in DOMAIN symbols /\ s < n
                       /\ \A e \in DOMAIN quads : ~Ends(s, e)
                       /\ \A f, e : Ends(f, e) /\ f < s => e < s
  <2>1. DOMAIN open = 1 .. Depth /\ Depth \in DOMAIN open /\ OpenIn
    BY <1>1, <1>2, LenProperties DEF Depth, ProgramInv
  <2>2. PICK s : s = Top.start /\ s = open[Depth].start
    BY DEF Top
  <2>3. Depth \in Inside
    BY <1>1, <1>2, <2>1 DEF Inside, Top
  <2>4. s \in DOMAIN symbols /\ \A e \in DOMAIN quads : ~Ends(s, e)
    BY <2>1, <2>2, <2>3 DEF OpenIn
  <2>5. s \in Nat /\ s < n
    BY <1>4, <2>4
  <2>6. \A f, e : Ends(f, e) /\ f < s => e < s
    BY <1>4, <2>1, <2>2 DEF OpenIn
  <2>7. QED BY <2>2, <2>4, <2>5, <2>6
<1> DEFINE x == Only("funcend", ProgramFunc(s))
           q == Emit(quads, x)
<1>6. /\ IsQuad(x) /\ x.op = "funcend" /\ x.arg1 = ProgramFunc(s) /\ x.arg2.type = "none"
      /\ x.label = 0 /\ "label" \in DOMAIN x /\ quads' = Labelled(q, returnlist, n)
  BY <1>2, <1>3, <1>5, QuadIsQuad DEF NoExpr, Only, IsQuad
<1> HIDE DEF x
<1>7. /\ IsProgram(q) /\ NextQuad(q) = n + 1
      /\ \A i \in DOMAIN quads : i \in DOMAIN q /\ q[i] = quads[i]
      /\ n \in DOMAIN q /\ q[n] = x
      /\ \A i \in DOMAIN q : IsQuad(q[i]) /\ (i \in DOMAIN quads \/ i = n)
  <2>1. IsProgram(q) /\ NextQuad(q) = n + 1
    BY <1>1, <1>3, <1>6, EmitProgram
  <2>2. n \in DOMAIN q
    BY <2>1 DEF IsProgram
  <2>3. QED BY <1>1, <1>3, <1>6, <2>1, <2>2, EmitFacts
<1> HIDE DEF q
<1>8. /\ IsProgram(quads') /\ NextQuad(quads') = n + 1 /\ DOMAIN quads' = DOMAIN q
      /\ \A i \in DOMAIN q :
           /\ IsQuad(quads'[i]) /\ SameButLabel(quads'[i], q[i])
           /\ quads'[i].label = IF i \in returnlist THEN n ELSE q[i].label
  BY <1>6, <1>7, LabelledProgram, LabelledFacts
<1>9. currQuad' = n + 1 /\ n + 1 <= MaxQuads
  BY <1>2, <1>3, <1>8 DEF currQuad
<1>10. Quads'
  BY <1>8, <1>9 DEF Quads
<1>11. \A i \in DOMAIN quads : i \in DOMAIN quads' /\ SameButLabel(quads'[i], quads[i])
  BY <1>7, <1>8
<1>12. n \in DOMAIN quads' /\ SameButLabel(quads'[n], x)
  BY <1>7, <1>8
<1>13. \A f, e : Ends(f, e)' <=> Ends(f, e) \/ (f = s /\ e = n)
  <2>1. \A f : ProgramFunc(f) = ProgramFunc(s) => f = s
    BY DEF ProgramFunc
  <2>2. SUFFICES ASSUME NEW f, NEW e
                 PROVE  Ends(f, e)' <=> Ends(f, e) \/ (f = s /\ e = n)
    OBVIOUS
  <2>3. CASE e \in DOMAIN quads
    BY <1>4, <1>11, <2>3 DEF Ends, SameButLabel
  <2>4. CASE e = n
    <3>1. Ends(f, e)' <=> ProgramFunc(s) = ProgramFunc(f)
      BY <1>6, <1>12, <2>4 DEF Ends, SameButLabel
    <3>2. ~Ends(f, e)
      BY <1>4, <2>4
    <3>3. QED BY <2>1, <2>4, <3>1, <3>2
  <2>5. CASE e \notin DOMAIN quads /\ e # n
    BY <1>7, <1>8, <2>5 DEF Ends
  <2>6. QED BY <2>3, <2>4, <2>5
<1>14. Declared'
  <2>1. /\ symbols \in [DOMAIN symbols -> Function]
        /\ \A i \in DOMAIN quads :
             /\ quads[i].op = "funcstart" <=> i \in DOMAIN symbols
             /\ i \in DOMAIN symbols => quads[i].arg1 = ProgramFunc(i)
             /\ Refers(i) => quads[i].arg1.value \in DOMAIN symbols /\ quads[i].arg1.value < i
             /\ quads[i].arg2.type # "programfunc"
    BY DEF ProgramInv, Declared
  <2>2. ASSUME NEW i \in DOMAIN quads'
        PROVE  /\ quads'[i].op = "funcstart" <=> i \in DOMAIN symbols
               /\ i \in DOMAIN symbols => quads'[i].arg1 = ProgramFunc(i)
               /\ Refers(i)' => quads'[i].arg1.value \in DOMAIN symbols /\ quads'[i].arg1.value < i
               /\ quads'[i].arg2.type # "programfunc"
    <3>1. CASE i \in DOMAIN quads
      BY <1>11, <2>1, <3>1 DEF Refers, SameButLabel
    <3>2. CASE i = n
      BY <1>4, <1>6, <1>12, <3>2 DEF Refers, SameButLabel
    <3>3. QED BY <1>7, <1>8, <3>1, <3>2
  <2>3. QED BY <1>2, <1>4, <1>11, <2>1, <2>2 DEF Declared
<1>15. EndsAfter'
  <2>1. SUFFICES ASSUME NEW e \in DOMAIN quads', quads'[e].op = "funcend"
                 PROVE  \E f \in DOMAIN symbols : f < e /\ Ends(f, e)'
    BY <1>2 DEF EndsAfter
  <2>2. CASE e \in DOMAIN quads
    <3>1. quads[e].op = "funcend"
      BY <1>11, <2>1, <2>2 DEF SameButLabel
    <3>2. QED BY <1>13, <2>2, <3>1 DEF ProgramInv, EndsAfter
  <2>3. CASE e = n
    BY <1>5, <1>13, <2>3
  <2>4. QED BY <1>7, <1>8, <2>1, <2>2, <2>3
<1>16. Nested'
  <2>1. SUFFICES ASSUME NEW f \in DOMAIN symbols, NEW g \in DOMAIN symbols, NEW d, NEW e,
                        Ends(f, e)', Ends(g, d)', f <= g, g <= e
                 PROVE  d <= e /\ (f # g => d # e)
    BY <1>2 DEF Nested
  <2>2. f \in Nat /\ g \in Nat
    BY <1>4
  <2>3. CASE Ends(f, e) /\ Ends(g, d)
    BY <1>4, <2>1, <2>3 DEF ProgramInv, Nested
  <2>4. CASE f = s /\ e = n /\ Ends(g, d)
    <3>1. d \in Nat /\ d < n
      BY <1>4, <2>4
    <3>2. QED BY <2>4, <3>1
  <2>5. CASE g = s /\ d = n /\ Ends(f, e)
    <3>1. f # s
      BY <1>4, <1>5, <2>5
    <3>2. f < s
      BY <1>5, <2>1, <2>2, <2>5, <3>1
    <3>3. e < s /\ e \in Nat
      BY <1>4, <1>5, <2>5, <3>2
    <3>4. QED BY <1>5, <2>1, <2>5, <3>3
  <2>6. CASE f = s /\ e = n /\ g = s /\ d = n
    BY <2>6
  <2>7. QED BY <1>13, <2>1, <2>3, <2>4, <2>5, <2>6
<1>17. OpenIn'
  <2>1. DOMAIN quads \subseteq DOMAIN quads'
    BY <1>11
  <2>2. QED BY <1>2, <1>3, <1>5, <1>12, <1>13, <2>1, OpenPopped
<1>18. ASSUME NEW l \in Nat, l <= n
       PROVE  InCode(l)' <=> InCode(l)
  <2>1. \A f : InFunction(f, l)' <=> InFunction(f, l)
    <3>1. \A f : (\A e \in DOMAIN quads' : Ends(f, e)' => l <= e)
                 <=> (\A e \in DOMAIN quads : Ends(f, e) => l <= e)
      BY <1>4, <1>11, <1>12, <1>13, <1>18
    <3>2. QED BY <3>1 DEF InFunction
  <2>2. QED BY <1>2, <2>1 DEF InCode
<1>19. JumpsInside'
  <2>1. ASSUME NEW i \in DOMAIN quads', IsJump(i)'
        PROVE  quads'[i].label <= currQuad' /\ (InCode(quads[i].label)' => InCode(i)')
    <3>1. i \in DOMAIN quads /\ IsJump(i) /\ quads'[i].label = (IF i \in returnlist THEN n ELSE quads[i].label)
      <4>1. i \in DOMAIN quads
        BY <1>6, <1>7, <1>8, <1>12, <2>1 DEF IsJump, JumpOpcode, SameButLabel
      <4>2. QED BY <1>7, <1>8, <1>11, <2>1, <4>1 DEF IsJump, SameButLabel
    <3>2. PICK l : l = quads'[i].label
      OBVIOUS
    <3>3. l \in Nat /\ l <= n /\ (InCode(l) => InCode(i)) /\ i \in Nat /\ i < n
      <4>1. CASE i \in returnlist
        <5>1. l = n /\ InCode(i)
          BY <3>1, <3>2, <4>1 DEF ProgramInv, JumpsInside
        <5>2. QED BY <1>4, <3>1, <5>1
      <4>2. CASE i \notin returnlist
        BY <1>1, <1>3, <1>4, <3>1, <3>2, <4>2, OldJump
      <4>3. QED BY <4>1, <4>2
    <3>4. l <= n + 1 /\ i <= n
      BY <3>3
    <3>5. InCode(quads[i].label)' <=> InCode(l)'
      BY <3>2 DEF InCode, InFunction, Ends
    <3>6. (InCode(l)' <=> InCode(l)) /\ (InCode(i)' <=> InCode(i))
      BY <1>18, <3>3, <3>4
    <3>7. QED BY <1>9, <3>2, <3>3, <3>4, <3>5, <3>6
  <2>2. QED BY <1>2, <2>1 DEF JumpsInside
<1>20. QED BY <1>2, <1>10, <1>14, <1>15, <1>16, <1>17, <1>19 DEF ProgramInv

(* When nothing more is written, no function is open. *)
LEMMA DoneWritten ==
  ASSUME GenerationInv, ProgramInv, WriteDone
  PROVE  ProgramInv'
<1>1. /\ phase = "parse" /\ phase' # "parse" /\ open = << >>
      /\ UNCHANGED <<quads, symbols, returnlist>>
  BY DEF WriteDone, program
<1>2. Inside = {}
  BY <1>1 DEF Inside, Depth
<1>3. \A f \in DOMAIN symbols : \E e \in DOMAIN quads : Ends(f, e)
  BY <1>1, <1>2 DEF ProgramInv, OpenIn
<1>4. AllEnd'
  BY <1>1, <1>3 DEF AllEnd, Ends
<1>5. (Quads /\ Declared /\ EndsAfter /\ Nested /\ JumpsInside)'
  BY <1>1 DEF ProgramInv, Quads, Declared, EndsAfter, Nested, JumpsInside, currQuad, Refers,
     Ends, IsJump, InCode, InFunction
<1>6. QED BY <1>1, <1>4, <1>5 DEF ProgramInv

(* Nothing that ProgramInv speaks of changes after the program is written. *)
LEMMA ProgramKept ==
  ASSUME ProgramInv, UNCHANGED program, phase' = "parse" <=> phase = "parse"
  PROVE  ProgramInv'
<1>1. UNCHANGED <<quads, symbols, open, returnlist>>
  BY DEF program
<1>2. (Quads /\ Declared /\ EndsAfter /\ Nested /\ JumpsInside)'
  BY <1>1 DEF ProgramInv, Quads, Declared, EndsAfter, Nested, JumpsInside, currQuad, Refers,
     Ends, IsJump, InCode, InFunction
<1>3. (OpenIn => OpenIn') /\ (AllEnd => AllEnd')
  BY <1>1 DEF OpenIn, AllEnd, Ends, Inside, Depth
<1>4. QED BY <1>2, <1>3 DEF ProgramInv

(* Every step keeps what is said of programs. *)
LEMMA ProgramInvKept ==
  ASSUME GenerationInv, ProgramInv, [Next]_vars
  PROVE  ProgramInv'
<1>1. CASE Write
  BY <1>1, AssignWritten, TestWritten, EndWritten, FunctionWritten, FunctionEndWritten,
     CallWritten, ReturnWritten, DoneWritten DEF Write, WriteIf, WriteWhile
<1>2. CASE GenerateTargetCode
  <2>1. UNCHANGED program /\ phase # "parse" /\ phase' # "parse"
    BY <1>2 DEF GenerateTargetCode, GenerateSimple, GenerateRelational, GenerateFuncStart,
       GenerateFuncEnd, AssertFails, Overrun, PatchIncompleteJumps, Generating
  <2>2. QED BY <2>1, ProgramKept
<1>3. CASE Execute
  <2>1. UNCHANGED program /\ phase # "parse" /\ phase' # "parse"
    BY <1>3 DEF Execute, ExecuteJump, ExecuteAssign, ExecuteRecord, ExecuteCall,
       ExecuteFuncExit, ExecuteGetRet, InfiniteLoop, Halt, Running
  <2>2. QED BY <2>1, ProgramKept
<1>4. CASE UNCHANGED vars
  BY <1>4, ProgramKept DEF vars
<1>5. QED BY <1>1, <1>2, <1>3, <1>4 DEF Next, Compile, CodeGenNext

(* It holds of the empty program. *)
LEMMA ProgramInvInit ==
  ASSUME Init
  PROVE  ProgramInv
<1>1. /\ quads = << >> /\ symbols = << >> /\ open = << >> /\ returnlist = {} /\ phase = "parse"
  BY DEF Init, CodeGenInit
<1>2. DOMAIN quads = {} /\ DOMAIN symbols = {} /\ DOMAIN open = {} /\ Inside = {}
  BY <1>1 DEF Inside, Depth
<1>3. currQuad <= MaxQuads
  <2>1. MaxQuads \in Nat /\ NextQuad(quads) = 0
    BY <1>1, CodeGenAssumption, FS_EmptySet DEF NextQuad
  <2>2. QED BY <2>1 DEF currQuad
<1>4. symbols \in [DOMAIN symbols -> Function]
  BY <1>1
<1>5. Quads /\ Declared /\ EndsAfter /\ Nested /\ JumpsInside /\ OpenIn
  BY <1>1, <1>2, <1>3, <1>4 DEF Quads, Declared, EndsAfter, Nested, JumpsInside, OpenIn
<1>6. QED BY <1>1, <1>5 DEF ProgramInv

-----------------------------------------------------------------------------
(* A quad is generated. *)

(* A quad becomes three instructions or one. *)
LEMMA SizeIs == \A i : Size(i) \in Nat /\ Size(i) \in {1, 3} /\ Size(i) >= 1
BY DEF Size

(* Quads have their code one behind the other. *)
LEMMA Addresses ==
  ASSUME Ordered, Partition
  PROVE  /\ next \in Nat /\ Len(instructions) \in Nat
         /\ DOMAIN instructions = 1 .. Len(instructions)
         /\ \A i \in 0 .. next - 1 : At(i) \in Nat /\ At(i) + Size(i) <= Len(instructions)
         /\ \A i, j \in 0 .. next - 1 : i < j => At(i) + Size(i) <= At(j)
<1>1. next \in Nat /\ Len(instructions) \in Nat /\ DOMAIN instructions = 1 .. Len(instructions)
  BY SeqIsSeq DEF Ordered, IsCode, IsSeq
<1>2. PICK n \in Nat, m \in Nat : n = next /\ m = Len(instructions)
  BY <1>1
<1>3. \A i \in 0 .. n - 1 : i + 1 \in 1 .. n /\ i \in Nat
  BY <1>2
<1>4. \A i \in 0 .. n - 1 : At(i) \in Nat /\ At(i) < m
  <2>1. taddress \in Seq(Nat) /\ Len(taddress) = n
    BY <1>2 DEF Ordered
  <2>2. \A k \in 1 .. n : taddress[k] \in Nat /\ taddress[k] < m
    BY <1>2, <2>1 DEF Ordered
  <2>3. QED BY <1>3, <2>2 DEF At
<1>5. \A i, j \in 0 .. n - 1 : i < j => At(i) < At(j)
  <2>1. SUFFICES ASSUME NEW i \in 0 .. n - 1, NEW j \in 0 .. n - 1, i < j
                 PROVE  At(i) < At(j)
    OBVIOUS
  <2>2. i + 1 \in 1 .. n /\ j + 1 \in 1 .. n /\ i + 1 < j + 1
    BY <1>3, <2>1
  <2>3. QED BY <1>2, <2>2 DEF Ordered, At
<1>6. ASSUME NEW i \in 0 .. n - 1
      PROVE  /\ At(i) + Size(i) <= m
             /\ \A j \in 0 .. n - 1 : i < j => At(i) + Size(i) <= At(j)
  <2>1. At(i) + Size(i) = Addr(i + 1)
    BY <1>2 DEF Partition
  <2>2. CASE i + 1 >= n
    <3>1. Addr(i + 1) = m
      BY <1>2, <2>2 DEF Addr
    <3>2. \A j \in 0 .. n - 1 : ~(i < j)
      BY <2>2
    <3>3. QED BY <1>2, <2>1, <3>1, <3>2
  <2>3. CASE ~(i + 1 >= n)
    <3>1. Addr(i + 1) = At(i + 1) /\ i + 1 \in 0 .. n - 1
      BY <1>2, <2>3 DEF Addr
    <3>2. PICK a \in Nat : a = At(i + 1) /\ a < m
      BY <1>4, <3>1
    <3>3. ASSUME NEW j \in 0 .. n - 1, i < j
          PROVE  a <= At(j)
      <4>1. i + 1 < j \/ i + 1 = j
        BY <3>3
      <4>2. At(j) \in Nat
        BY <1>4
      <4>3. QED BY <1>5, <3>1, <3>2, <4>1, <4>2
    <3>4. QED BY <1>2, <2>1, <3>1, <3>2, <3>3
  <2>4. QED BY <2>2, <2>3
<1>7. QED BY <1>1, <1>2, <1>4, <1>6

(* The code of the next quad is added; of the code before it, results only  *)
(* are changed.                                                             *)
SameButResult(c, d) ==
  c.opcode = d.opcode /\ c.arg1 = d.arg1 /\ c.arg2 = d.arg2 /\ DOMAIN c = DOMAIN d
Grows ==
  /\ UNCHANGED <<program, phase>> /\ phase = "generate" /\ next < currQuad
  /\ taddress' = Append(taddress, currInstruction) /\ next' = next + 1
  /\ Len(instructions') = Len(instructions) + Size(next)
  /\ \A p \in DOMAIN instructions : SameButResult(instructions'[p], instructions[p])

(* A step that adds code leaves the quads and the code before it in place. *)
LEMMA GrowsFacts ==
  ASSUME GenerationInv', CodeInv, Grows
  PROVE  /\ Ordered' /\ Partition'
         /\ \A i \in 0 .. next - 1 : At(i)' = At(i)
         /\ \A i : i = next => At(i)' = Len(instructions)
<1>1. /\ next \in Nat /\ Len(instructions) \in Nat
      /\ DOMAIN instructions = 1 .. Len(instructions)
      /\ \A i \in 0 .. next - 1 : At(i) \in Nat /\ At(i) + Size(i) <= Len(instructions)
  BY Addresses DEF CodeInv
<1>2. PICK n \in Nat, m \in Nat : n = next /\ m = Len(instructions)
  BY <1>1
<1>3. Ordered'
  BY DEF GenerationInv, Generation, Grows
<1>4. UNCHANGED quads /\ phase' = "generate" /\ next' = n + 1
  BY <1>2 DEF Grows, program
<1>5. \A i : Size(i)' = Size(i)
  BY <1>4 DEF Size
<1>6. PICK z \in Nat : z = Size(n) /\ Len(instructions') = m + z /\ z >= 1
  BY <1>2, SizeIs DEF Grows
<1>7. taddress \in Seq(Nat) /\ Len(taddress) = n /\ taddress' = Append(taddress, m)
  BY <1>2 DEF CodeInv, Ordered, Grows, currInstruction
<1>8. taddress'[n + 1] = m /\ \A k \in 1 .. n : taddress'[k] = taddress[k]
  BY <1>2, <1>7, AppendProperties
<1>9. \A i \in 0 .. n - 1 : At(i)' = At(i)
  <2>1. \A i \in 0 .. n - 1 : i + 1 \in 1 .. n
    BY <1>2
  <2>2. QED BY <1>8, <2>1 DEF At
<1>10. At(n)' = m
  BY <1>8 DEF At
<1>11. ASSUME NEW i \in 0 .. n
       PROVE  At(i)' + Size(i) = Addr(i + 1)'
  <2>1. CASE i = n
    <3>1. Addr(i + 1)' = m + z
      BY <1>4, <1>6, <2>1 DEF Addr
    <3>2. QED BY <1>6, <1>10, <2>1, <3>1
  <2>2. CASE i \in 0 .. n - 1 /\ i + 1 = n
    <3>1. Addr(i + 1) = m
      BY <1>2, <2>2 DEF Addr
    <3>2. Addr(i + 1)' = At(n)'
      BY <1>4, <2>2 DEF Addr
    <3>3. QED BY <1>2, <1>9, <1>10, <2>2, <3>1, <3>2 DEF CodeInv, Partition
  <2>3. CASE i \in 0 .. n - 1 /\ i + 1 # n
    <3>1. i + 1 \in 0 .. n - 1 /\ ~(i + 1 >= n) /\ ~(i + 1 >= n + 1)
      BY <2>3
    <3>2. Addr(i + 1) = At(i + 1) /\ Addr(i + 1)' = At(i + 1)'
      BY <1>2, <1>4, <3>1 DEF Addr
    <3>3. QED BY <1>2, <1>9, <2>3, <3>1, <3>2 DEF CodeInv, Partition
  <2>4. i = n \/ i \in 0 .. n - 1
    OBVIOUS
  <2>5. QED BY <2>1, <2>2, <2>3, <2>4
<1>12. ASSUME NEW p \in 0 .. (m + z) - 1
       PROVE  \E i \in 0 .. n : At(i)' <= p /\ p < At(i)' + Size(i)
  <2>1. CASE p < m
    <3>1. p \in 0 .. m - 1
      BY <2>1
    <3>2. PICK i \in 0 .. n - 1 : At(i) <= p /\ p < At(i) + Size(i)
      BY <1>2, <3>1 DEF CodeInv, Partition
    <3>3. i \in 0 .. n
      BY <1>2
    <3>4. QED BY <1>9, <3>2, <3>3
  <2>2. CASE ~(p < m)
    <3>1. At(n)' <= p /\ p < At(n)' + Size(n)
      BY <1>6, <1>10, <2>2
    <3>2. n \in 0 .. n
      OBVIOUS
    <3>3. QED BY <3>1, <3>2
  <2>3. QED BY <2>1, <2>2
<1>13. Partition'
  <2>1. next' - 1 = n /\ Len(instructions') = m + z
    BY <1>4, <1>6
  <2>2. QED BY <1>5, <1>11, <1>12, <2>1 DEF Partition
<1>14. QED BY <1>2, <1>3, <1>9, <1>10, <1>13

(* What code stands for a quad does not hang on results. *)
LEMMA CodeStays ==
  ASSUME CodeInv, UNCHANGED quads, NEW i \in 0 .. next - 1, At(i)' = At(i),
         \A p \in DOMAIN instructions : SameButResult(instructions'[p], instructions[p])
  PROVE  IsCodeOfQuad(i, At(i))'
<1>1. PICK m \in Nat :
        m = Len(instructions) /\ DOMAIN instructions = 1 .. m /\ At(i) \in Nat /\ At(i) + Size(i) <= m
  BY Addresses DEF CodeInv
<1>2. PICK a \in Nat : a = At(i) /\ a + Size(i) <= m /\ At(i)' = a
  BY <1>1
<1>3. \A k \in 1 .. Size(i) : a + k \in 1 .. m
  BY <1>1, <1>2, SizeIs
<1>4. \A k \in 1 .. Size(i) : /\ instructions'[a + k].opcode = instructions[a + k].opcode
                              /\ instructions'[a + k].arg1 = instructions[a + k].arg1
                              /\ instructions'[a + k].arg2 = instructions[a + k].arg2
  BY <1>1, <1>3 DEF SameButResult
<1>5. IsCodeOfQuad(i, a)
  BY <1>2 DEF CodeInv, Filled
<1>6. IsJump(i)' <=> IsJump(i)
  BY DEF IsJump
<1>7. CASE quads[i].op = "funcstart"
  <2>1. 1 \in 1 .. Size(i) /\ 2 \in 1 .. Size(i) /\ 3 \in 1 .. Size(i)
    BY <1>7 DEF Size
  <2>2. IsCodeOfQuad(i, a)'
    BY <1>4, <1>5, <1>7, <2>1 DEF IsCodeOfQuad
  <2>3. QED BY <1>2, <2>2 DEF IsCodeOfQuad
<1>8. CASE quads[i].op # "funcstart"
  <2>1. 1 \in 1 .. Size(i)
    BY <1>8 DEF Size
  <2>2. IsCodeOfQuad(i, a)'
    BY <1>4, <1>5, <1>6, <1>8, <2>1 DEF IsCodeOfQuad
  <2>3. QED BY <1>2, <2>2 DEF IsCodeOfQuad
<1>9. QED BY <1>7, <1>8

(* What code is of the quads before the next one stays so. *)
LEMMA GrowsFilled ==
  ASSUME GenerationInv', CodeInv, Grows,
         NEW n, n = next, NEW m, m = Len(instructions), IsCodeOfQuad(n, m)',
         \A p \in DOMAIN instructions' \ DOMAIN instructions :
           /\ {"opcode", "arg1", "arg2", "result"} \subseteq DOMAIN instructions'[p]
           /\ IsOperand(instructions[p].arg1)' /\ IsOperand(instructions[p].arg2)'
  PROVE  Filled' /\ Operands'
<1>1. /\ n \in Nat /\ m \in Nat /\ DOMAIN instructions = 1 .. m
      /\ \A i \in 0 .. n - 1 : At(i) \in Nat /\ At(i) + Size(i) <= m
  BY Addresses DEF CodeInv
<1>2. /\ \A i \in 0 .. n - 1 : At(i)' = At(i)
      /\ At(n)' = m
  BY GrowsFacts
<1>3. UNCHANGED quads /\ next' = n + 1
  BY DEF Grows, program
<1>4. ASSUME NEW i \in 0 .. n - 1
      PROVE  IsCodeOfQuad(i, At(i))'
  BY <1>2, <1>3, CodeStays DEF Grows
<1>5. IsCodeOfQuad(n, At(n))'
  BY <1>2 DEF IsCodeOfQuad
<1>6. Filled'
  <2>1. \A i \in 0 .. next' - 1 : i \in 0 .. n - 1 \/ i = n
    BY <1>1, <1>3
  <2>2. QED BY <1>4, <1>5, <2>1 DEF Filled
<1>7. Operands'
  <2>1. ASSUME NEW p \in DOMAIN instructions', p \in DOMAIN instructions
        PROVE  /\ {"opcode", "arg1", "arg2", "result"} \subseteq DOMAIN instructions'[p]
               /\ IsOperand(instructions[p].arg1)' /\ IsOperand(instructions[p].arg2)'
    <3>1. SameButResult(instructions'[p], instructions[p])
      BY <2>1 DEF Grows
    <3>2. 0 .. m \subseteq 0 .. Len(instructions')
      <4>1. PICK z \in Nat : Len(instructions') = m + z
        BY SizeIs DEF Grows
      <4>2. 0 .. m \subseteq 0 .. m + z
        BY <1>1
      <4>3. QED BY <4>1, <4>2
    <3>3. \A x : IsOperand(x) => IsOperand(x)'
      BY <3>2 DEF IsOperand, currInstruction
    <3>4. PICK x, y : x = instructions[p].arg1 /\ y = instructions[p].arg2
      OBVIOUS
    <3>5. IsOperand(x)' /\ IsOperand(y)'
      BY <2>1, <3>3, <3>4 DEF CodeInv, Operands
    <3>6. instructions'[p].arg1 = x /\ instructions'[p].arg2 = y
      BY <3>1, <3>4 DEF SameButResult
    <3>7. IsOperand(instructions[p].arg1)' /\ IsOperand(instructions[p].arg2)'
      BY <3>5, <3>6 DEF IsOperand
    <3>8. QED BY <2>1, <3>1, <3>7 DEF CodeInv, Operands, SameButResult
  <2>2. QED BY <2>1 DEF Operands
<1>8. QED BY <1>6, <1>7

(* Names went to their functions before, and so does that of the next quad. *)
LEMMA GrowsNamed ==
  ASSUME GenerationInv, GenerationInv', ProgramInv, CodeInv, Grows, NEW n, n = next,
         NEW m, m = Len(instructions),
         \A f \in DOMAIN symbols : RefersTo(n, f) /\ Latest(n, f) =>
           instructions'[m + 1].arg1 = Arg("userfunc_a", At(f) + 2)
  PROVE  Named'
<1>1. /\ n \in Nat /\ m \in Nat /\ DOMAIN instructions = 1 .. m
      /\ \A i \in 0 .. n - 1 : At(i) \in Nat /\ At(i) + Size(i) <= m
  BY Addresses DEF CodeInv
<1>2. /\ \A i \in 0 .. n - 1 : At(i)' = At(i)
      /\ At(n)' = m
  BY GrowsFacts
<1>3. UNCHANGED <<quads, symbols>> /\ next' = n + 1
  BY DEF Grows, program
<1>4. IsProgram(quads) /\ n < currQuad /\ currQuad \in Nat
  BY DEF GenerationInv, Written, Grows, IsProgram, currQuad
<1>5. SUFFICES ASSUME NEW i \in 0 .. n, NEW f \in DOMAIN symbols, RefersTo(i, f), Latest(i, f)
               PROVE  Entered(i)' = Arg("userfunc_a", At(f)' + 2)
  <2>1. next' - 1 = n
    BY <1>1, <1>3
  <2>2. \A i, f : RefersTo(i, f)' <=> RefersTo(i, f)
    BY <1>3 DEF RefersTo
  <2>3. \A i, f : Latest(i, f)' <=> Latest(i, f)
    BY <1>3 DEF Latest
  <2>4. QED BY <1>3, <1>5, <2>1, <2>2, <2>3 DEF Named
<1>6. i \in DOMAIN quads
  BY <1>1, <1>4, <1>5 DEF IsProgram, currQuad
<1>7. f < i /\ f \in 0 .. n - 1
  <2>1. Refers(i) /\ quads[i].arg1.value = f
    BY <1>5 DEF RefersTo, Refers, ProgramFunc
  <2>2. f < i
    BY <1>6, <2>1 DEF ProgramInv, Declared
  <2>3. f \in Nat
    BY <1>4, EndFacts
  <2>4. QED BY <1>1, <2>2, <2>3
<1>8. At(f)' = At(f)
  BY <1>2, <1>7
<1>9. CASE i = n
  <2>1. Entered(n)' = instructions'[m + 1].arg1
    BY <1>2 DEF Entered, At
  <2>2. QED BY <1>5, <1>8, <1>9, <2>1
<1>10. CASE i \in 0 .. n - 1
  <2>1. PICK a \in Nat : a = At(i) /\ At(i)' = a /\ a + 1 \in DOMAIN instructions
    <3>1. PICK a \in Nat : a = At(i) /\ a + Size(i) <= m
      BY <1>1, <1>10
    <3>2. a + 1 \in 1 .. m
      BY <1>1, <3>1, SizeIs
    <3>3. QED BY <1>1, <1>2, <1>10, <3>1, <3>2
  <2>2. instructions'[a + 1].arg1 = instructions[a + 1].arg1
    BY <2>1 DEF Grows, SameButResult
  <2>3. Entered(i)' = Entered(i)
    BY <2>1, <2>2 DEF Entered, At
  <2>4. QED BY <1>5, <1>8, <1>10, <2>3 DEF CodeInv, Named
<1>11. i = n \/ i \in 0 .. n - 1
  BY <1>1
<1>12. QED BY <1>9, <1>10, <1>11

(* The jumps over functions that have ended go on leading behind them.      *)
LEMMA GrowsSkipped ==
  ASSUME GenerationInv, GenerationInv', ProgramInv, CodeInv, Grows, quads[next].op # "funcend",
         \A p \in DOMAIN instructions : instructions'[p] = instructions[p]
  PROVE  Skipped'
<1>1. PICK n \in Nat, m \in Nat :
        /\ n = next /\ m = Len(instructions) /\ DOMAIN instructions = 1 .. m
        /\ \A i \in 0 .. n - 1 : At(i) \in Nat /\ At(i) + Size(i) <= m
  BY Addresses DEF CodeInv
<1>2. \A i \in 0 .. n - 1 : At(i)' = At(i)
  BY <1>1, GrowsFacts
<1>3. UNCHANGED <<quads, symbols>> /\ next' = n + 1
  BY <1>1 DEF Grows, program
<1>4. IsProgram(quads)
  BY DEF GenerationInv, Written
<1>5. \A g, d : Ends(g, d)' <=> Ends(g, d)
  BY <1>3 DEF Ends
<1>6. SUFFICES ASSUME NEW f, NEW e, Ends(f, e), e < n + 1
               PROVE  instructions'[At(f)' + 2].result.value = At(e)' + 1
  BY <1>3, <1>5 DEF Skipped
<1>7. f \in DOMAIN symbols /\ f \in DOMAIN quads /\ e \in DOMAIN quads /\ f \in Nat /\ e \in Nat /\ f < e
  BY <1>4, <1>6, EndFacts
<1>8. e # n
  BY <1>1, <1>6 DEF Ends
<1>9. e \in 0 .. n - 1 /\ f \in 0 .. n - 1 /\ e < n
  BY <1>6, <1>7, <1>8
<1>10. PICK a \in Nat : a = At(f) /\ At(f)' = a /\ a + 2 \in DOMAIN instructions
  <2>1. Size(f) = 3
    BY <1>7 DEF ProgramInv, Declared, Size
  <2>2. PICK a \in Nat : a = At(f) /\ a + 3 <= m
    BY <1>1, <1>9, <2>1
  <2>3. a + 2 \in 1 .. m
    BY <2>2
  <2>4. QED BY <1>1, <1>2, <1>9, <2>2, <2>3
<1>11. instructions[a + 2].result.value = At(e) + 1
  BY <1>1, <1>6, <1>7, <1>9, <1>10 DEF CodeInv, Skipped
<1>12. QED BY <1>2, <1>9, <1>10, <1>11

(* A quad that begins or ends no function leaves those that have begun.     *)
LEMMA PlainSkipping ==
  ASSUME GenerationInv, GenerationInv', ProgramInv, CodeInv, Grows,
         quads[next].op \notin {"funcstart", "funcend"}, UNCHANGED func_skip_stack
  PROVE  Skipping'
<1>1. PICK n \in Nat : n = next
  BY Addresses DEF CodeInv
<1>2. \A i \in 0 .. n - 1 : At(i)' = At(i)
  BY <1>1, GrowsFacts
<1>3. UNCHANGED <<quads, symbols>> /\ next' = n + 1
  BY <1>1 DEF Grows, program
<1>4. IsProgram(quads)
  BY DEF GenerationInv, Written
<1>5. ASSUME NEW f \in DOMAIN symbols
      PROVE  (Waiting(f)' <=> Waiting(f)) /\ (Waiting(f) => At(f)' = At(f))
  <2>1. f \in Nat /\ f \in DOMAIN quads
    BY <1>4, EndFacts
  <2>2. f # n
    BY <1>1, <2>1 DEF ProgramInv, Declared
  <2>3. f < n + 1 <=> f < n
    BY <2>1, <2>2
  <2>4. ASSUME NEW e \in DOMAIN quads, Ends(f, e)
        PROVE  n + 1 <= e <=> n <= e
    <3>1. e # n /\ e \in Nat
      BY <1>1, <1>4, <2>4, EndFacts DEF Ends
    <3>2. QED BY <3>1
  <2>5. Waiting(f)' <=> Waiting(f)
    BY <1>1, <1>3, <2>3, <2>4 DEF Waiting, Ends
  <2>6. Waiting(f) => f \in 0 .. n - 1
    BY <1>1, <2>1 DEF Waiting
  <2>7. QED BY <1>2, <2>5, <2>6
<1>6. QED BY <1>3, <1>5 DEF CodeInv, Skipping

(* The names that are known stay known. *)
LEMMA PlainUserfuncs ==
  ASSUME GenerationInv, GenerationInv', ProgramInv, CodeInv, Grows,
         quads[next].op # "funcstart", UNCHANGED userfuncs
  PROVE  Userfuncs'
<1>1. PICK n \in Nat, m \in Nat : n = next /\ m = Len(instructions)
  BY Addresses DEF CodeInv
<1>2. \A i \in 0 .. n - 1 : At(i)' = At(i)
  BY <1>1, GrowsFacts
<1>3. UNCHANGED <<quads, symbols>> /\ next' = n + 1
  BY <1>1 DEF Grows, program
<1>4. IsProgram(quads)
  BY DEF GenerationInv, Written
<1>5. userfuncs \in Seq(Entry) /\ \A k \in DOMAIN userfuncs : userfuncs[k].address \in Nat /\ userfuncs[k].address <= m
  <2>1. userfuncs \in Seq(Entry)
    BY DEF CodeInv, Userfuncs
  <2>2. \A k \in DOMAIN userfuncs : userfuncs[k] \in Entry
    BY <2>1
  <2>3. \A k \in DOMAIN userfuncs : userfuncs[k].address \in Nat
    BY <2>2 DEF Entry
  <2>4. QED BY <1>1, <2>1, <2>3 DEF CodeInv, Userfuncs
<1>6. PICK z \in Nat : Len(instructions') = m + z
  BY <1>1, SizeIs DEF Grows
<1>7. \A k \in DOMAIN userfuncs : userfuncs[k].address <= Len(instructions')
  <2>1. \A a \in Nat : a <= m => a <= m + z
    OBVIOUS
  <2>2. QED BY <1>5, <1>6, <2>1
<1>8. ASSUME NEW f \in DOMAIN symbols, f < n + 1
      PROVE  /\ \E k \in DOMAIN userfuncs : FirstOf(symbols[f].name, k)'
             /\ \E k \in DOMAIN userfuncs :
                  /\ userfuncs[k].name = symbols[f].name
                  /\ userfuncs[k].address = At(f)' + 2
                  /\ \A j \in 1 .. k - 1 : Later(f, j)'
  <2>1. f \in Nat /\ f \in DOMAIN quads
    BY <1>4, EndFacts
  <2>2. f # n
    BY <1>1, <2>1 DEF ProgramInv, Declared
  <2>3. f < n /\ f \in 0 .. n - 1
    BY <1>8, <2>1, <2>2
  <2>4. \E k \in DOMAIN userfuncs : FirstOf(symbols[f].name, k)
    BY <1>1, <2>3 DEF CodeInv, Userfuncs
  <2>5. PICK k \in DOMAIN userfuncs :
          /\ userfuncs[k].name = symbols[f].name
          /\ userfuncs[k].address = At(f) + 2
          /\ \A j \in 1 .. k - 1 : Later(f, j)
    BY <1>1, <2>3 DEF CodeInv, Userfuncs
  <2>6. \A j : Later(f, j) => Later(f, j)'
    <3>1. \A g \in DOMAIN symbols : g < n => g < n + 1
      BY <1>4, EndFacts
    <3>2. QED BY <1>1, <1>3, <3>1 DEF Later
  <2>7. \A k1 \in DOMAIN userfuncs : FirstOf(symbols[f].name, k1) => FirstOf(symbols[f].name, k1)'
    BY <1>3 DEF FirstOf
  <2>8. QED BY <1>2, <2>3, <2>4, <2>5, <2>6, <2>7
<1>9. QED BY <1>3, <1>5, <1>7, <1>8 DEF Userfuncs

(* lookup_userfunc_address finds the first entry with the name. *)
LEMMA AddressIs ==
  ASSUME CodeInv, NEW f, NEW k, FirstOf(symbols[f].name, k)
  PROVE  Address(f) = userfuncs[k].address
<1> DEFINE S == Registered(symbols[f].name)
<1>1. userfuncs \in Seq(Entry)
  BY DEF CodeInv, Userfuncs
<1>2. DOMAIN userfuncs = 1 .. Len(userfuncs) /\ Len(userfuncs) \in Nat
  BY <1>1, LenProperties
<1>3. k \in S /\ k \in Nat /\ \A j \in 1 .. k - 1 : j \notin S
  BY <1>2 DEF FirstOf, Registered
<1>4. \A j \in S : j \in Nat /\ j >= 1
  BY <1>2 DEF Registered
<1> HIDE DEF S
<1>5. \A j \in S : k <= j
  <2>1. SUFFICES ASSUME NEW j \in S, ~(k <= j) PROVE FALSE
    OBVIOUS
  <2>2. j \in 1 .. k - 1
    BY <1>3, <1>4, <2>1
  <2>3. QED BY <1>3, <2>2
<1>6. (CHOOSE i \in S : \A j \in S : i <= j) = k
  <2>1. PICK i : i = (CHOOSE x \in S : \A j \in S : x <= j)
    OBVIOUS
  <2>2. i \in S /\ \A j \in S : i <= j
    BY <1>3, <1>5, <2>1
  <2>3. i <= k /\ k <= i /\ i \in Nat
    BY <1>3, <1>4, <1>5, <2>2
  <2>4. i = k
    BY <1>3, <2>3
  <2>5. QED BY <2>1, <2>4
<1>7. QED BY <1>6 DEF Address, S

(* make_operand: a function that has begun has an address. *)
LEMMA OperandIs ==
  ASSUME CodeInv, NEW e,
         e.type = "programfunc" => e.value \in DOMAIN symbols /\ e.value < next
  PROVE  IsOperand(Operand(e))
<1>1. CASE e.type = "programfunc"
  <2>1. PICK f \in DOMAIN symbols : f = e.value /\ f < next
    BY <1>1
  <2>2. PICK k \in DOMAIN userfuncs : FirstOf(symbols[f].name, k)
    BY <2>1 DEF CodeInv, Userfuncs
  <2>3. Operand(e) = Arg("userfunc_a", userfuncs[k].address)
    BY <1>1, <2>1, <2>2, AddressIs DEF Operand
  <2>4. userfuncs[k].address \in Nat /\ userfuncs[k].address <= Len(instructions)
    <3>1. userfuncs[k] \in Entry
      BY DEF CodeInv, Userfuncs
    <3>2. QED BY <3>1 DEF CodeInv, Userfuncs, Entry
  <2>5. Len(instructions) \in Nat
    BY Addresses DEF CodeInv
  <2>6. userfuncs[k].address \in 0 .. currInstruction
    BY <2>4, <2>5 DEF currInstruction
  <2>7. QED BY <2>3, <2>6 DEF IsOperand, Arg
<1>2. CASE e.type # "programfunc"
  <2>1. Operand(e) \in {Arg("number_a", e.value), Global(0), Label(0)}
    BY <1>2 DEF Operand
  <2>2. QED BY <2>1 DEF IsOperand, Arg, Global, Label
<1>3. QED BY <1>1, <1>2

(* generate's instructions are those that were there, and the new ones.     *)
LEMMA Generates ==
  ASSUME CodeInv, NEW s, IsCode(s), Len(s) = Size(next), Generate(s), Generating,
         UNCHANGED <<program, phase>>
  PROVE  /\ Grows
         /\ \A p \in DOMAIN instructions : p \in DOMAIN instructions' /\ instructions'[p] = instructions[p]
         /\ \A k \in DOMAIN s : instructions'[Len(instructions) + k] = s[k]
         /\ \A p \in DOMAIN instructions' \ DOMAIN instructions : \E k \in DOMAIN s : instructions'[p] = s[k]
         /\ currInstruction <= currInstruction' /\ currInstruction' <= MaxInstructions
         /\ \A x : IsOperand(x) => IsOperand(x)'
<1>1. PICK m \in Nat : m = Len(instructions) /\ DOMAIN instructions = 1 .. m
  BY Addresses DEF CodeInv
<1>2. PICK z \in Nat : z = Len(s) /\ DOMAIN s = 1 .. z
  BY SeqIsSeq DEF IsCode, IsSeq
<1>3. /\ IsCode(instructions') /\ Len(instructions') = m + z
      /\ \A p \in DOMAIN instructions : p \in DOMAIN instructions' /\ instructions'[p] = instructions[p]
      /\ \A k \in DOMAIN s : instructions'[m + k] = s[k]
  <2>1. instructions' = instructions \o s
    BY DEF Generate
  <2>2. IsCode(instructions)
    BY DEF CodeInv, Ordered
  <2>3. /\ IsCode(instructions \o s) /\ Len(instructions \o s) = Len(instructions) + Len(s)
        /\ \A p \in DOMAIN instructions :
             p \in DOMAIN (instructions \o s) /\ (instructions \o s)[p] = instructions[p]
        /\ \A k \in DOMAIN s : (instructions \o s)[Len(instructions) + k] = s[k]
    BY <2>2, ConcatCode
  <2>4. QED BY <1>1, <1>2, <2>1, <2>3
<1>4. DOMAIN instructions' = 1 .. m + z
  BY <1>3, SeqIsSeq DEF IsCode, IsSeq
<1>5. ASSUME NEW p \in DOMAIN instructions' \ DOMAIN instructions
      PROVE  \E k \in DOMAIN s : instructions'[p] = s[k]
  <2>1. p - m \in DOMAIN s /\ m + (p - m) = p
    BY <1>1, <1>2, <1>4
  <2>2. QED BY <1>3, <2>1
<1>6. Grows
  BY <1>1, <1>2, <1>3 DEF Grows, Generate, Generating, SameButResult
<1>7. currInstruction <= currInstruction' /\ currInstruction' <= MaxInstructions
  BY <1>1, <1>2, <1>3 DEF Generate, Fits, currInstruction
<1>8. \A x : IsOperand(x) => IsOperand(x)'
  <2>1. 0 .. m \subseteq 0 .. m + z
    OBVIOUS
  <2>2. QED BY <1>1, <1>3, <2>1 DEF IsOperand, currInstruction
<1>9. QED BY <1>1, <1>3, <1>5, <1>6, <1>7, <1>8

(* What generate writes: opcode, operands and result. *)
LEMMA InstructionIs ==
  ASSUME NEW op, NEW a, NEW b, NEW r
  PROVE  LET c == Instruction(op, a, b, r) IN
         /\ DOMAIN c = {"opcode", "arg1", "arg2", "result"}
         /\ c.opcode = op /\ c.arg1 = a /\ c.arg2 = b /\ c.result = r
BY DEF Instruction

(* Labels and the result register name no function. *)
LEMMA PlainOperands ==
  /\ IsOperand(Label(0)) /\ IsOperand(RetVal) /\ Label(0).type = "label_a"
BY DEF IsOperand, Label, RetVal, Arg

(* The quad that is next, and what it names. *)
LEMMA NextQuadIs ==
  ASSUME GenerationInv, ProgramInv, CodeInv, next < currQuad
  PROVE  /\ next \in DOMAIN quads
         /\ Q.op \notin {"funcstart", "funcend"} /\ Q.arg1.type = "programfunc" =>
              Q.arg1.value \in DOMAIN symbols /\ Q.arg1.value < next
         /\ Q.arg2.type # "programfunc"
<1>1. next \in DOMAIN quads
  <2>1. next \in Nat /\ IsProgram(quads)
    BY Addresses DEF CodeInv, GenerationInv, Written
  <2>2. QED BY <2>1 DEF IsProgram, currQuad
<1>2. QED BY <1>1 DEF ProgramInv, Declared, Refers, Q

(* What is listed for patching is in the code. *)
LEMMA GrowsJumps ==
  ASSUME GenerationInv, CodeInv, Grows
  PROVE  \A j \in ijumps : j[1] < currInstruction' /\ j[2] \in 0 .. MaxQuads
<1>1. SUFFICES ASSUME NEW j \in ijumps
               PROVE  j[1] < currInstruction' /\ j[2] \in 0 .. MaxQuads
  OBVIOUS
<1>2. PICK i \in 0 .. next - 1 : j = <<taddress[i + 1], quads[i].label>>
  BY DEF GenerationInv, Generation, ListedJumps, Grows
<1>3. PICK a \in Nat : a = At(i) /\ j[1] = a
  BY <1>2, Addresses DEF At, CodeInv
<1>4. PICK m \in Nat, z \in Nat : m = Len(instructions) /\ Len(instructions') = m + z
  BY Addresses, SizeIs DEF CodeInv, Grows
<1>5. j[1] < currInstruction /\ j[2] \in 0 .. MaxQuads
  BY DEF CodeInv
<1>6. QED BY <1>3, <1>4, <1>5 DEF currInstruction

(* The next quad becomes one instruction and is no boundary of a function.  *)
LEMMA OneGenerated ==
  ASSUME GenerationInv, GenerationInv', ProgramInv, CodeInv, Generating,
         UNCHANGED <<program, phase, func_skip_stack, userfuncs>>,
         NEW c, Generate(<<c>>), HasTarget(c), DOMAIN c = {"opcode", "arg1", "arg2", "result"},
         IsOperand(c.arg1), IsOperand(c.arg2),
         Q.op \notin {"funcstart", "funcend"}, c.opcode # "funcexit",
         c.opcode \in {"jeq", "jne", "jlt", "jle", "jgt", "jge"} => IsJump(next),
         \A j \in ijumps' :
           j \in ijumps \/ (\E l \in 0 .. MaxQuads : j = <<currInstruction, l>>),
         \A f \in DOMAIN symbols : RefersTo(next, f) /\ Latest(next, f) =>
           c.arg1 = Arg("userfunc_a", At(f) + 2)
  PROVE  CodeInv'
<1>1. IsCode(<<c>>) /\ Len(<<c>>) = 1 /\ DOMAIN <<c>> = {1} /\ <<c>>[1] = c
  BY OneIsCode
<1>2. Size(next) = 1
  BY DEF Size, Q
<1>3. PICK m \in Nat, n \in Nat : m = Len(instructions) /\ n = next
  BY Addresses DEF CodeInv
<1>4. /\ Grows
      /\ \A p \in DOMAIN instructions : p \in DOMAIN instructions' /\ instructions'[p] = instructions[p]
      /\ instructions'[m + 1] = c
      /\ \A p \in DOMAIN instructions' \ DOMAIN instructions : instructions'[p] = c
      /\ currInstruction <= currInstruction' /\ currInstruction' <= MaxInstructions
      /\ \A x : IsOperand(x) => IsOperand(x)'
  <2>1. PICK s : s = <<c>>
    OBVIOUS
  <2>2. IsCode(s) /\ Len(s) = Size(next) /\ Generate(s) /\ DOMAIN s = {1} /\ s[1] = c
    BY <1>1, <1>2, <2>1
  <2>3. /\ Grows
        /\ \A p \in DOMAIN instructions : p \in DOMAIN instructions' /\ instructions'[p] = instructions[p]
        /\ \A k \in DOMAIN s : instructions'[Len(instructions) + k] = s[k]
        /\ \A p \in DOMAIN instructions' \ DOMAIN instructions : \E k \in DOMAIN s : instructions'[p] = s[k]
        /\ currInstruction <= currInstruction' /\ currInstruction' <= MaxInstructions
        /\ \A x : IsOperand(x) => IsOperand(x)'
    BY <2>2, Generates
  <2>4. QED BY <1>3, <2>2, <2>3
<1>5. Ordered' /\ Partition'
  BY <1>4, GrowsFacts
<1>6. Filled' /\ Operands'
  <2>1. UNCHANGED quads
    BY DEF program
  <2>2. IsCodeOfQuad(n, m)'
    BY <1>3, <1>4, <2>1 DEF IsCodeOfQuad, Q, IsJump
  <2>3. PICK x, y : x = c.arg1 /\ y = c.arg2
    OBVIOUS
  <2>4. IsOperand(x)' /\ IsOperand(y)'
    BY <1>4, <2>3
  <2>5. ASSUME NEW p \in DOMAIN instructions' \ DOMAIN instructions
        PROVE  /\ {"opcode", "arg1", "arg2", "result"} \subseteq DOMAIN instructions'[p]
               /\ IsOperand(instructions[p].arg1)' /\ IsOperand(instructions[p].arg2)'
    <3>1. instructions'[p].arg1 = x /\ instructions'[p].arg2 = y
      BY <1>4, <2>3
    <3>2. QED BY <1>4, <2>4, <3>1 DEF IsOperand
  <2>6. QED BY <1>3, <1>4, <2>2, <2>5, GrowsFilled
<1>7. Skipping' /\ Skipped' /\ Userfuncs'
  <2>1. quads[next].op \notin {"funcstart", "funcend"}
    BY DEF Q
  <2>2. QED BY <1>4, <2>1, PlainSkipping, GrowsSkipped, PlainUserfuncs
<1>8. Named'
  BY <1>3, <1>4, GrowsNamed
<1>9. \A j \in ijumps' : j[1] < currInstruction' /\ j[2] \in 0 .. MaxQuads
  <2>1. currInstruction = m /\ currInstruction' = m + 1
    BY <1>2, <1>3, <1>4 DEF Grows, currInstruction
  <2>2. \A j \in ijumps : j[1] < currInstruction' /\ j[2] \in 0 .. MaxQuads
    BY <1>4, GrowsJumps
  <2>3. ASSUME NEW l \in 0 .. MaxQuads, NEW j, j = <<currInstruction, l>>
        PROVE  j[1] < currInstruction' /\ j[2] \in 0 .. MaxQuads
    BY <1>3, <2>1, <2>3
  <2>4. QED BY <2>2, <2>3
<1>10. phase' = "generate"
  BY DEF Generating
<1>11. QED BY <1>4, <1>5, <1>6, <1>7, <1>8, <1>9, <1>10 DEF CodeInv, Generated

(* generate_ASSIGN, generate_CALL and the other quads of one instruction.  *)
LEMMA SimpleGenerated ==
  ASSUME GenerationInv, GenerationInv', ProgramInv, CodeInv, GenerateSimple
  PROVE  CodeInv'
<1>1. /\ Generating /\ Q.op \in DOMAIN OpcodeOf
      /\ UNCHANGED <<program, phase, ijumps, func_skip_stack, userfuncs>>
  BY DEF GenerateSimple
<1> DEFINE source == IF Q.op = "getretval" THEN RetVal ELSE Operand(Q.arg1)
           goal == IF Q.op = "ret" THEN RetVal ELSE Operand(Q.result)
           c == Instruction(OpcodeOf[Q.op], source, Label(0), goal)
<1>2. Generate(<<c>>)
  BY DEF GenerateSimple
<1>3. PICK t, v : goal = Arg(t, v)
  BY DEF Operand, RetVal, Label, Global
<1>4. Q.op \notin {"funcstart", "funcend"}
  BY <1>1 DEF OpcodeOf
<1>5. OpcodeOf[Q.op] \in {"assign", "pusharg", "callfunc", "getretval"}
  BY <1>1 DEF OpcodeOf
<1>6. /\ next \in DOMAIN quads
      /\ Q.arg1.type = "programfunc" => Q.arg1.value \in DOMAIN symbols /\ Q.arg1.value < next
  BY <1>1, <1>4, NextQuadIs DEF Generating
<1>7. IsOperand(source)
  BY <1>6, OperandIs, PlainOperands
<1>8. ASSUME NEW f \in DOMAIN symbols, RefersTo(next, f), Latest(next, f)
      PROVE  source = Arg("userfunc_a", At(f) + 2)
  <2>1. Q.arg1 = ProgramFunc(f) /\ Q.op # "getretval"
    BY <1>8 DEF RefersTo, Q
  <2>2. source = Arg("userfunc_a", Address(f)) /\ f < next
    BY <1>6, <2>1 DEF Operand, ProgramFunc
  <2>3. PICK k \in DOMAIN userfuncs :
          /\ userfuncs[k].name = symbols[f].name
          /\ userfuncs[k].address = At(f) + 2
          /\ \A j \in 1 .. k - 1 : Later(f, j)
    BY <2>2 DEF CodeInv, Userfuncs
  <2>4. ASSUME NEW j \in 1 .. k - 1, userfuncs[j].name = symbols[f].name
        PROVE  FALSE
    <3>1. PICK g \in DOMAIN symbols : f < g /\ g < next /\ symbols[g].name = symbols[f].name
      BY <2>3, <2>4 DEF Later
    <3>2. f \in Nat /\ g \in Nat
      BY EndFacts DEF GenerationInv, Written
    <3>3. g <= f
      BY <1>8, <3>1 DEF Latest
    <3>4. QED BY <3>1, <3>2, <3>3
  <2>5. FirstOf(symbols[f].name, k)
    BY <2>3, <2>4 DEF FirstOf
  <2>6. Address(f) = At(f) + 2
    BY <2>3, <2>5, AddressIs
  <2>7. QED BY <2>2, <2>6
<1>9. /\ HasTarget(c)
      /\ DOMAIN c = {"opcode", "arg1", "arg2", "result"}
      /\ c.opcode = OpcodeOf[Q.op] /\ c.arg1 = source /\ c.arg2 = Label(0)
  <2> HIDE DEF goal, source
  <2>1. HasTarget(c)
    BY <1>3, InstructionHasTarget
  <2>2. QED BY <2>1, InstructionIs
<1> HIDE DEF source, goal, c
<1>10. IsOperand(c.arg1) /\ IsOperand(c.arg2)
  BY <1>7, <1>9, PlainOperands
<1>11. c.opcode \notin {"jeq", "jne", "jlt", "jle", "jgt", "jge", "funcexit"}
  BY <1>5, <1>9
<1>12. QED BY <1>1, <1>2, <1>4, <1>8, <1>9, <1>10, <1>11, OneGenerated

(* generate_relational. *)
LEMMA RelationalGenerated ==
  ASSUME GenerationInv, GenerationInv', ProgramInv, CodeInv, GenerateRelational
  PROVE  CodeInv'
<1> DEFINE known == Known(Q.label)
           value == IF known THEN taddress[Q.label + 1] ELSE 0
           c == Instruction(JumpOpcode[Q.op], Operand(Q.arg1), Operand(Q.arg2), Label(value))
<1>1. /\ Generating /\ Q.op \in DOMAIN JumpOpcode /\ Generate(<<c>>)
      /\ ijumps' = IF known THEN ijumps ELSE ijumps \cup {<<currInstruction, Q.label>>}
      /\ UNCHANGED <<program, phase, func_skip_stack, userfuncs>>
  BY DEF GenerateRelational
<1>2. Q.op \notin {"funcstart", "funcend", "assign", "ret", "call"} /\ IsJump(next)
  BY <1>1 DEF JumpOpcode, IsJump, Q
<1>3. JumpOpcode[Q.op] \in {"jeq", "jne", "jlt", "jle", "jgt", "jge"}
  BY <1>1 DEF JumpOpcode
<1>4. /\ next \in DOMAIN quads /\ Q.arg2.type # "programfunc"
      /\ Q.arg1.type = "programfunc" => Q.arg1.value \in DOMAIN symbols /\ Q.arg1.value < next
  BY <1>1, <1>2, NextQuadIs DEF Generating
<1>5. IsOperand(Operand(Q.arg1)) /\ IsOperand(Operand(Q.arg2))
  BY <1>4, OperandIs
<1>6. /\ HasTarget(c)
      /\ DOMAIN c = {"opcode", "arg1", "arg2", "result"}
      /\ c.opcode = JumpOpcode[Q.op] /\ c.arg1 = Operand(Q.arg1) /\ c.arg2 = Operand(Q.arg2)
  BY InstructionHasTarget, InstructionIs DEF Label
<1>7. PICK l : l = Q.label /\ l \in 0 .. MaxQuads
  <2>1. PICK l : l = Q.label
    OBVIOUS
  <2>2. l \in Nat /\ l <= currQuad
    BY <1>2, <1>4, <2>1, OldJump DEF GenerationInv, Written, Q
  <2>3. currQuad \in Nat /\ currQuad <= MaxQuads /\ MaxQuads \in Nat
    BY CodeGenAssumption DEF GenerationInv, Written, IsProgram, currQuad, ProgramInv, Quads
  <2>4. QED BY <2>1, <2>2, <2>3
<1> HIDE DEF known, value, c
<1>8. \A j \in ijumps' : j \in ijumps \/ \E k \in 0 .. MaxQuads : j = <<currInstruction, k>>
  BY <1>1, <1>7
<1>9. \A f : ~RefersTo(next, f)
  BY <1>2 DEF RefersTo, Q
<1>10. IsOperand(c.arg1) /\ IsOperand(c.arg2) /\ c.opcode # "funcexit"
  BY <1>3, <1>5, <1>6
<1>11. QED BY <1>1, <1>2, <1>6, <1>8, <1>9, <1>10, OneGenerated

(* A sequence with one element more in front. *)
LEMMA InFront ==
  ASSUME NEW S, NEW s \in Seq(S), NEW x \in S, NEW t, t = <<x>> \o s
  PROVE  /\ t \in Seq(S) /\ t[1] = x /\ 1 \in DOMAIN t
         /\ \A k \in DOMAIN s : k + 1 \in DOMAIN t /\ t[k + 1] = s[k]
         /\ \A k \in DOMAIN t : k = 1 \/ (k \in Nat /\ k > 1 /\ k - 1 \in DOMAIN s /\ t[k] = s[k - 1])
<1>1. <<x>> \in Seq(S) /\ Len(<<x>>) = 1 /\ <<x>>[1] = x
  OBVIOUS
<1>2. PICK n \in Nat : n = Len(s) /\ DOMAIN s = 1 .. n
  BY LenProperties
<1>3. /\ t \in Seq(S) /\ Len(t) = 1 + n
      /\ \A k \in 1 .. 1 + n : t[k] = IF k <= 1 THEN <<x>>[k] ELSE s[k - 1]
  BY <1>1, <1>2, ConcatProperties
<1>4. DOMAIN t = 1 .. 1 + n
  BY <1>3, LenProperties
<1>5. ASSUME NEW k \in 1 .. n
      PROVE  k + 1 \in 1 .. 1 + n /\ t[k + 1] = s[k]
  <2>1. k + 1 \in 1 .. 1 + n /\ ~(k + 1 <= 1) /\ (k + 1) - 1 = k
    OBVIOUS
  <2>2. QED BY <1>3, <2>1
<1>6. ASSUME NEW k \in 1 .. 1 + n, k # 1
      PROVE  k \in Nat /\ k > 1 /\ k - 1 \in 1 .. n /\ t[k] = s[k - 1]
  <2>1. k \in Nat /\ k > 1 /\ k - 1 \in 1 .. n /\ ~(k <= 1)
    BY <1>6
  <2>2. QED BY <1>3, <2>1
<1>7. t[1] = x /\ 1 \in 1 .. 1 + n
  <2>1. 1 \in 1 .. 1 + n
    OBVIOUS
  <2>2. QED BY <1>1, <1>3, <2>1
<1>8. QED BY <1>2, <1>3, <1>4, <1>5, <1>6, <1>7

(* A sequence without its first element. *)
LEMMA Behind ==
  ASSUME NEW S, NEW s \in Seq(S), s # << >>, NEW t, t = Tail(s)
  PROVE  /\ t \in Seq(S) /\ Head(s) = s[1] /\ 1 \in DOMAIN s
         /\ Len(s) \in Nat /\ Len(t) \in Nat /\ Len(t) = Len(s) - 1
         /\ \A k \in DOMAIN t : k \in Nat /\ 0 < k /\ k + 1 \in DOMAIN s /\ t[k] = s[k + 1]
         /\ \A k \in DOMAIN s : k = 1 \/ (k \in Nat /\ k > 1 /\ k - 1 \in DOMAIN t /\ t[k - 1] = s[k])
<1>1. PICK n \in Nat : n = Len(s) /\ DOMAIN s = 1 .. n
  BY LenProperties
<1>2. 1 \in 1 .. n /\ Head(s) = s[1]
  BY <1>1
<1>3. t \in Seq(S) /\ Len(t) = n - 1 /\ \A k \in 1 .. Len(t) : t[k] = s[k + 1]
  BY <1>1, HeadTailProperties
<1>4. DOMAIN t = 1 .. n - 1
  BY <1>3, LenProperties
<1>5. \A k \in 1 .. n - 1 : k \in Nat /\ 0 < k /\ k + 1 \in 1 .. n /\ t[k] = s[k + 1]
  BY <1>3
<1>6. ASSUME NEW k \in 1 .. n, k # 1
      PROVE  k \in Nat /\ k > 1 /\ k - 1 \in 1 .. n - 1 /\ t[k - 1] = s[k]
  <2>1. k \in Nat /\ k > 1 /\ k - 1 \in 1 .. n - 1 /\ (k - 1) + 1 = k
    BY <1>6
  <2>2. t[k - 1] = s[(k - 1) + 1]
    BY <1>5, <2>1
  <2>3. QED BY <2>1, <2>2
<1>7. n - 1 \in Nat
  BY <1>2
<1>8. QED BY <1>1, <1>2, <1>3, <1>4, <1>5, <1>6, <1>7

(* A function begins: of its three instructions, the second jumps over it.  *)
LEMMA StartSkipping ==
  ASSUME GenerationInv, GenerationInv', ProgramInv, CodeInv, Grows,
         quads[next].op = "funcstart", next \in DOMAIN quads,
         func_skip_stack' = <<currInstruction + 1>> \o func_skip_stack
  PROVE  Skipping'
<1>1. PICK n \in Nat, m \in Nat : n = next /\ m = Len(instructions)
  BY Addresses DEF CodeInv
<1>2. (\A i \in 0 .. n - 1 : At(i)' = At(i)) /\ At(n)' = m
  BY <1>1, GrowsFacts
<1>3. UNCHANGED <<quads, symbols>> /\ next' = n + 1
  BY <1>1 DEF Grows, program
<1>4. IsProgram(quads)
  BY DEF GenerationInv, Written
<1>5. n \in DOMAIN symbols
  BY <1>1 DEF ProgramInv, Declared
<1>6. ASSUME NEW f \in DOMAIN symbols
      PROVE  (Waiting(f)' <=> Waiting(f) \/ f = n) /\ (Waiting(f) => At(f)' = At(f))
  <2>1. f \in Nat
    BY <1>4, EndFacts
  <2>2. f < n + 1 <=> f < n \/ f = n
    BY <2>1
  <2>3. ASSUME NEW e \in DOMAIN quads, Ends(f, e)
        PROVE  (n + 1 <= e <=> n <= e) /\ f < e /\ (f = n => n + 1 <= e)
    <3>1. e # n /\ e \in Nat /\ f < e
      BY <1>1, <1>4, <2>3, EndFacts DEF Ends
    <3>2. QED BY <2>1, <3>1
  <2>4. Waiting(f)' <=> Waiting(f) \/ f = n
    BY <1>1, <1>3, <2>2, <2>3 DEF Waiting, Ends
  <2>5. Waiting(f) => f \in 0 .. n - 1
    BY <1>1, <2>1 DEF Waiting
  <2>6. QED BY <1>2, <2>4, <2>5
<1>7. PICK a \in Nat : a = m + 1
  OBVIOUS
<1>8. PICK s : s = func_skip_stack
  OBVIOUS
<1>9. PICK t : t = func_skip_stack'
  OBVIOUS
<1>10. s \in Seq(Nat) /\ \A k \in DOMAIN s : s[k] \in Nat /\ s[k] < m
  <2>1. s \in Seq(Nat) /\ \A k \in DOMAIN s : s[k] < m
    BY <1>1, <1>8 DEF GenerationInv, Generation, SkipsApart, Grows
  <2>2. QED BY <2>1
<1>11. /\ t[1] = a /\ 1 \in DOMAIN t
       /\ \A k \in DOMAIN s : k + 1 \in DOMAIN t /\ t[k + 1] = s[k]
       /\ \A k \in DOMAIN t : k = 1 \/ (k \in Nat /\ k > 1 /\ k - 1 \in DOMAIN s /\ t[k] = s[k - 1])
  <2>1. t = <<a>> \o s
    BY <1>1, <1>7, <1>8, <1>9 DEF currInstruction
  <2>2. s \in Seq(Nat) /\ a \in Nat
    BY <1>7, <1>10
  <2>3. QED BY <2>1, <2>2, InFront
<1>12. /\ \A k \in DOMAIN s : \E f \in DOMAIN symbols : Waiting(f) /\ s[k] = At(f) + 1
       /\ \A j, k \in DOMAIN s : j < k => s[j] > s[k]
       /\ \A f \in DOMAIN symbols : Waiting(f) => \E k \in DOMAIN s : s[k] = At(f) + 1
  BY <1>8 DEF CodeInv, Skipping
<1>13. ASSUME NEW k \in DOMAIN t
       PROVE  \E f \in DOMAIN symbols : Waiting(f)' /\ t[k] = At(f)' + 1
  <2>1. CASE k = 1
    BY <1>2, <1>5, <1>6, <1>7, <1>11, <2>1
  <2>2. CASE k # 1
    <3>1. k - 1 \in DOMAIN s /\ t[k] = s[k - 1]
      BY <1>11, <2>2
    <3>2. PICK f \in DOMAIN symbols : Waiting(f) /\ s[k - 1] = At(f) + 1
      BY <1>12, <3>1
    <3>3. QED BY <1>6, <3>1, <3>2
  <2>3. QED BY <2>1, <2>2
<1>14. ASSUME NEW j \in DOMAIN t, NEW k \in DOMAIN t, j < k
       PROVE  t[j] > t[k]
  <2>1. k # 1
    <3>1. j = 1 \/ (j \in Nat /\ j > 1)
      BY <1>11
    <3>2. QED BY <1>14, <3>1
  <2>2. k \in Nat /\ k > 1 /\ k - 1 \in DOMAIN s /\ t[k] = s[k - 1]
    BY <1>11, <2>1
  <2>3. CASE j = 1
    <3>1. PICK b \in Nat : b = s[k - 1] /\ b < m
      BY <1>10, <2>2
    <3>2. QED BY <1>7, <1>11, <2>2, <2>3, <3>1
  <2>4. CASE j # 1
    <3>1. j \in Nat /\ j > 1 /\ j - 1 \in DOMAIN s /\ t[j] = s[j - 1]
      BY <1>11, <2>4
    <3>2. j - 1 < k - 1
      BY <1>14, <2>2, <3>1
    <3>3. QED BY <1>12, <2>2, <3>1, <3>2
  <2>5. QED BY <2>3, <2>4
<1>15. ASSUME NEW f \in DOMAIN symbols, Waiting(f)'
       PROVE  \E k \in DOMAIN t : t[k] = At(f)' + 1
  <2>1. CASE f = n
    BY <1>2, <1>7, <1>11, <2>1
  <2>2. CASE f # n
    <3>1. Waiting(f) /\ At(f)' = At(f)
      BY <1>6, <1>15, <2>2
    <3>2. PICK k \in DOMAIN s : s[k] = At(f) + 1
      BY <1>12, <3>1
    <3>3. k + 1 \in DOMAIN t /\ t[k + 1] = s[k]
      BY <1>11
    <3>4. QED BY <3>1, <3>2, <3>3
  <2>3. QED BY <2>1, <2>2
<1>16. QED BY <1>3, <1>9, <1>13, <1>14, <1>15 DEF Skipping

(* Its name is found before those of the functions before it. *)
LEMMA StartUserfuncs ==
  ASSUME GenerationInv, GenerationInv', ProgramInv, CodeInv, Grows,
         quads[next].op = "funcstart", next \in DOMAIN quads,
         NEW n, n = next,
         userfuncs' = <<[name |-> symbols[n].name, address |-> currInstruction + 2]>> \o userfuncs
  PROVE  Userfuncs'
<1>1. PICK m \in Nat : n \in Nat /\ m = Len(instructions)
  BY Addresses DEF CodeInv
<1>2. (\A i \in 0 .. n - 1 : At(i)' = At(i)) /\ At(n)' = m
  BY <1>1, GrowsFacts
<1>3. UNCHANGED <<quads, symbols>> /\ next' = n + 1
  BY <1>1 DEF Grows, program
<1>4. IsProgram(quads)
  BY DEF GenerationInv, Written
<1>5. n \in DOMAIN symbols /\ \A f \in DOMAIN symbols : symbols[f] \in Function
  BY <1>1 DEF ProgramInv, Declared
<1>6. Len(instructions') = m + 3
  BY <1>1 DEF Grows, Size
<1>7. PICK x : x = [name |-> symbols[n].name, address |-> m + 2]
  OBVIOUS
<1>8. x \in Entry /\ x.name = symbols[n].name /\ x.address = m + 2
  BY <1>1, <1>5, <1>7 DEF Entry, Function
<1>9. PICK s, t : s = userfuncs /\ t = userfuncs'
  OBVIOUS
<1>10. s \in Seq(Entry) /\ \A k \in DOMAIN s : s[k].address \in Nat /\ s[k].address <= m
  <2>1. s \in Seq(Entry)
    BY <1>9 DEF CodeInv, Userfuncs
  <2>2. \A k \in DOMAIN s : s[k] \in Entry
    BY <2>1
  <2>3. \A k \in DOMAIN s : s[k].address \in Nat
    BY <2>2 DEF Entry
  <2>4. QED BY <1>1, <1>9, <2>1, <2>3 DEF CodeInv, Userfuncs
<1>11. /\ t \in Seq(Entry) /\ t[1] = x /\ 1 \in DOMAIN t
       /\ \A k \in DOMAIN s : k + 1 \in DOMAIN t /\ t[k + 1] = s[k]
       /\ \A k \in DOMAIN t : k = 1 \/ (k \in Nat /\ k > 1 /\ k - 1 \in DOMAIN s /\ t[k] = s[k - 1])
  <2>1. t = <<x>> \o s
    BY <1>1, <1>7, <1>9 DEF currInstruction
  <2>2. QED BY <1>8, <1>10, <2>1, InFront
<1>12. ASSUME NEW k \in DOMAIN t
       PROVE  t[k].address <= m + 3
  <2>1. CASE k = 1
    BY <1>1, <1>8, <1>11, <2>1
  <2>2. CASE k # 1
    <3>1. k - 1 \in DOMAIN s /\ t[k] = s[k - 1]
      BY <1>11, <2>2
    <3>2. PICK b \in Nat : b = s[k - 1].address /\ b <= m
      BY <1>10, <3>1
    <3>3. QED BY <3>1, <3>2
  <2>3. QED BY <2>1, <2>2
<1>13. DOMAIN s = 1 .. Len(s) /\ Len(s) \in Nat
  BY <1>10, LenProperties
<1>14. ASSUME NEW f \in DOMAIN symbols, f < n + 1
       PROVE  /\ \E k \in DOMAIN t : /\ t[k].name = symbols[f].name
                                     /\ \A j \in 1 .. k - 1 : t[j].name # symbols[f].name
              /\ \E k \in DOMAIN t :
                   /\ t[k].name = symbols[f].name
                   /\ t[k].address = At(f)' + 2
                   /\ \A j \in 1 .. k - 1 : \E g \in DOMAIN symbols :
                        f < g /\ g < n + 1 /\ t[j].name = symbols[g].name
  <2>1. f \in Nat
    BY <1>4, EndFacts
  <2>2. CASE f = n
    <3>1. t[1].name = symbols[f].name /\ t[1].address = At(f)' + 2
      BY <1>2, <1>8, <1>11, <2>2
    <3>2. 1 .. 1 - 1 = {}
      OBVIOUS
    <3>3. QED BY <1>11, <3>1, <3>2
  <2>3. CASE f # n
    <3>1. f < n /\ f \in 0 .. n - 1
      BY <1>1, <1>14, <2>1, <2>3
    <3>2. PICK k \in DOMAIN s : /\ s[k].name = symbols[f].name
                                /\ \A j \in 1 .. k - 1 : s[j].name # symbols[f].name
      BY <3>1, <1>9 DEF CodeInv, Userfuncs, FirstOf
    <3>3. PICK i \in DOMAIN s :
            /\ s[i].name = symbols[f].name
            /\ s[i].address = At(f) + 2
            /\ \A j \in 1 .. i - 1 : \E g \in DOMAIN symbols :
                 f < g /\ g < n /\ s[j].name = symbols[g].name
      BY <3>1, <1>9 DEF CodeInv, Userfuncs, Later
    <3>4. ASSUME NEW l \in DOMAIN s, NEW j \in 1 .. (l + 1) - 1, j # 1
          PROVE  j - 1 \in 1 .. l - 1 /\ t[j] = s[j - 1]
      <4>1. l \in Nat /\ l <= Len(s)
        BY <1>13
      <4>2. j - 1 \in 1 .. l - 1 /\ j - 1 \in 1 .. Len(s) /\ (j - 1) + 1 = j
        BY <1>13, <3>4, <4>1
      <4>3. t[(j - 1) + 1] = s[j - 1]
        BY <1>11, <1>13, <4>2
      <4>4. QED BY <4>2, <4>3
    <3>5. \E k1 \in DOMAIN t : /\ t[k1].name = symbols[f].name
                               /\ \A j \in 1 .. k1 - 1 : t[j].name # symbols[f].name
      <4>1. CASE symbols[n].name = symbols[f].name
        <5>1. 1 .. 1 - 1 = {}
          OBVIOUS
        <5>2. QED BY <1>8, <1>11, <4>1, <5>1
      <4>2. CASE symbols[n].name # symbols[f].name
        <5>1. k + 1 \in DOMAIN t /\ t[k + 1].name = symbols[f].name
          BY <1>11, <3>2
        <5>2. ASSUME NEW j \in 1 .. (k + 1) - 1
              PROVE  t[j].name # symbols[f].name
          <6>1. CASE j = 1
            BY <1>8, <1>11, <4>2, <6>1
          <6>2. CASE j # 1
            BY <3>2, <3>4, <6>2
          <6>3. QED BY <6>1, <6>2
        <5>3. QED BY <5>1, <5>2
      <4>3. QED BY <4>1, <4>2
    <3>6. i + 1 \in DOMAIN t /\ t[i + 1].name = symbols[f].name /\ t[i + 1].address = At(f)' + 2
      BY <1>2, <1>11, <3>1, <3>3
    <3>7. ASSUME NEW j \in 1 .. (i + 1) - 1
          PROVE  \E g \in DOMAIN symbols : f < g /\ g < n + 1 /\ t[j].name = symbols[g].name
      <4>1. CASE j = 1
        <5>1. t[j].name = symbols[n].name /\ f < n /\ n < n + 1
          BY <1>1, <1>8, <1>11, <3>1, <4>1
        <5>2. QED BY <1>5, <5>1
      <4>2. CASE j # 1
        <5>1. j - 1 \in 1 .. i - 1 /\ t[j] = s[j - 1]
          BY <3>4, <4>2
        <5>2. PICK g \in DOMAIN symbols : f < g /\ g < n /\ s[j - 1].name = symbols[g].name
          BY <3>3, <5>1
        <5>3. g \in Nat
          BY <1>4, EndFacts
        <5>4. g < n + 1
          BY <1>1, <5>2, <5>3
        <5>5. QED BY <5>1, <5>2, <5>4
      <4>3. QED BY <4>1, <4>2
    <3>8. QED BY <3>5, <3>6, <3>7
  <2>4. QED BY <2>2, <2>3
<1>15. \A k \in DOMAIN userfuncs' : userfuncs'[k].address <= Len(instructions')
  BY <1>6, <1>9, <1>12
<1>16. ASSUME NEW f \in DOMAIN symbols, f < n + 1
       PROVE  /\ \E k \in DOMAIN userfuncs' : FirstOf(symbols[f].name, k)'
              /\ \E k \in DOMAIN userfuncs' :
                   /\ userfuncs'[k].name = symbols[f].name
                   /\ userfuncs'[k].address = At(f)' + 2
                   /\ \A j \in 1 .. k - 1 : Later(f, j)'
  <2>1. \E k \in DOMAIN userfuncs' : FirstOf(symbols[f].name, k)'
    <3>1. PICK k \in DOMAIN t : /\ t[k].name = symbols[f].name
                                /\ \A j \in 1 .. k - 1 : t[j].name # symbols[f].name
      BY <1>14, <1>16
    <3>2. FirstOf(symbols[f].name, k)'
      BY <1>3, <1>9, <3>1 DEF FirstOf
    <3>3. QED BY <1>9, <3>1, <3>2
  <2>2. PICK k \in DOMAIN t :
          /\ t[k].name = symbols[f].name
          /\ t[k].address = At(f)' + 2
          /\ \A j \in 1 .. k - 1 : \E g \in DOMAIN symbols :
               f < g /\ g < n + 1 /\ t[j].name = symbols[g].name
    BY <1>14, <1>16
  <2>3. \A j \in 1 .. k - 1 : Later(f, j)'
    BY <1>3, <1>9, <2>2 DEF Later
  <2>4. QED BY <1>9, <2>1, <2>2, <2>3
<1>17. userfuncs' \in Seq(Entry)
  BY <1>9, <1>11
<1>18. QED BY <1>3, <1>15, <1>16, <1>17 DEF Userfuncs

(* The positions in a sequence of three. *)
LEMMA ThreeElements ==
  ASSUME NEW c, HasTarget(c), NEW d, HasTarget(d), NEW e, HasTarget(e), NEW s, s = <<c, d, e>>
  PROVE  /\ IsCode(s) /\ Len(s) = 3 /\ DOMAIN s = {1, 2, 3}
         /\ s[1] = c /\ s[2] = d /\ s[3] = e
<1>1. IsCode(<<c, d, e>>) /\ Len(<<c, d, e>>) = 3
  BY ThreeAreCode
<1>2. <<c, d, e>>[1] = c /\ <<c, d, e>>[2] = d /\ <<c, d, e>>[3] = e
  OBVIOUS
<1>3. DOMAIN <<c, d, e>> = {1, 2, 3}
  OBVIOUS
<1>4. QED BY <1>1, <1>2, <1>3

(* generate_FUNCSTART. *)
LEMMA FuncStartGenerated ==
  ASSUME GenerationInv, GenerationInv', ProgramInv, CodeInv, GenerateFuncStart
  PROVE  CodeInv'
<1>1. /\ Generating /\ Q.op = "funcstart"
      /\ UNCHANGED <<program, phase, ijumps>>
  BY DEF GenerateFuncStart
<1>2. PICK m \in Nat, n \in Nat : m = Len(instructions) /\ n = next /\ DOMAIN instructions = 1 .. m
  BY Addresses DEF CodeInv
<1>3. n \in DOMAIN quads /\ quads[n].op = "funcstart" /\ Q.arg2.type # "programfunc" /\ Q.arg1.value = n
  <2>1. n \in DOMAIN quads /\ quads[n].op = "funcstart" /\ Q.arg2.type # "programfunc"
    BY <1>1, <1>2, NextQuadIs DEF Generating, Q
  <2>2. Q.arg1 = ProgramFunc(n)
    BY <1>2, <2>1 DEF ProgramInv, Declared, Q
  <2>3. QED BY <2>1, <2>2 DEF ProgramFunc
<1> DEFINE entry == currInstruction + 2
           bind == Instruction("assign", Arg("userfunc_a", entry), Label(0), Global(Offset(n)))
           skip == Instruction("jne", Label(0), Label(0), Label(0))
           enter == Instruction("funcenter", Operand(Q.arg2), Label(0), Label(0))
<1>4. /\ Generate(<<bind, skip, enter>>)
      /\ userfuncs' = <<[name |-> symbols[n].name, address |-> entry]>> \o userfuncs
      /\ func_skip_stack' = <<currInstruction + 1>> \o func_skip_stack
  BY <1>3 DEF GenerateFuncStart
<1>5. HasTarget(bind) /\ HasTarget(skip) /\ HasTarget(enter)
  BY InstructionHasTarget DEF Label, Global
<1>6. /\ DOMAIN bind = {"opcode", "arg1", "arg2", "result"}
      /\ bind.opcode = "assign" /\ bind.arg1 = Arg("userfunc_a", entry) /\ bind.arg2 = Label(0)
      /\ DOMAIN skip = {"opcode", "arg1", "arg2", "result"}
      /\ skip.opcode = "jne" /\ skip.arg1 = Label(0) /\ skip.arg2 = Label(0)
      /\ DOMAIN enter = {"opcode", "arg1", "arg2", "result"}
      /\ enter.opcode = "funcenter" /\ enter.arg1 = Operand(Q.arg2) /\ enter.arg2 = Label(0)
  BY InstructionIs
<1> HIDE DEF bind, skip, enter
<1>7. PICK c, d, e, s : c = bind /\ d = skip /\ e = enter /\ s = <<c, d, e>>
  OBVIOUS
<1>8. /\ IsCode(s) /\ Len(s) = 3 /\ DOMAIN s = {1, 2, 3}
      /\ s[1] = c /\ s[2] = d /\ s[3] = e
  BY <1>5, <1>7, ThreeElements
<1>9. Size(next) = 3
  BY <1>2, <1>3 DEF Size
<1>10. /\ Grows
       /\ \A p \in DOMAIN instructions : p \in DOMAIN instructions' /\ instructions'[p] = instructions[p]
       /\ \A k \in DOMAIN s : instructions'[m + k] = s[k]
       /\ \A p \in DOMAIN instructions' \ DOMAIN instructions : \E k \in DOMAIN s : instructions'[p] = s[k]
       /\ currInstruction <= currInstruction' /\ currInstruction' <= MaxInstructions
       /\ \A x : IsOperand(x) => IsOperand(x)'
  <2>1. Generate(s)
    BY <1>4, <1>7
  <2>2. QED BY <1>1, <1>2, <1>8, <1>9, <2>1, Generates
<1>11. currInstruction = m /\ currInstruction' = m + 3
  BY <1>2, <1>9, <1>10 DEF Grows, currInstruction
<1>12. /\ IsOperand(c.arg1)' /\ IsOperand(c.arg2)' /\ IsOperand(d.arg1)' /\ IsOperand(d.arg2)'
       /\ IsOperand(e.arg1)' /\ IsOperand(e.arg2)'
  <2>1. PICK x, y, z : x = Arg("userfunc_a", m + 2) /\ y = Label(0) /\ z = Operand(Q.arg2)
    OBVIOUS
  <2>2. x.type = "userfunc_a" /\ x.value = m + 2 /\ m + 2 \in 0 .. m + 3
    BY <2>1 DEF Arg
  <2>3. IsOperand(x)'
    BY <1>11, <2>2 DEF IsOperand
  <2>4. IsOperand(y) /\ IsOperand(z)
    BY <1>3, <2>1, PlainOperands, OperandIs
  <2>5. IsOperand(y)' /\ IsOperand(z)'
    BY <1>10, <2>4
  <2>6. c.arg1 = x /\ c.arg2 = y /\ d.arg1 = y /\ d.arg2 = y /\ e.arg1 = z /\ e.arg2 = y
    BY <1>6, <1>7, <1>11, <2>1
  <2>7. QED BY <2>3, <2>5, <2>6
<1>13. Ordered' /\ Partition'
  BY <1>10, GrowsFacts
<1>14. Filled' /\ Operands'
  <2>1. UNCHANGED quads
    BY <1>1 DEF program
  <2>2. instructions'[m + 1] = c /\ instructions'[m + 2] = d /\ instructions'[m + 3] = e
    BY <1>8, <1>10
  <2>3. IsCodeOfQuad(n, m)'
    BY <1>3, <1>6, <1>7, <2>1, <2>2, PlainOperands DEF IsCodeOfQuad
  <2>4. ASSUME NEW p \in DOMAIN instructions' \ DOMAIN instructions
        PROVE  /\ {"opcode", "arg1", "arg2", "result"} \subseteq DOMAIN instructions'[p]
               /\ IsOperand(instructions[p].arg1)' /\ IsOperand(instructions[p].arg2)'
    <3>1. PICK i : i = instructions'[p] /\ i \in {c, d, e}
      BY <1>8, <1>10
    <3>2. /\ DOMAIN i = {"opcode", "arg1", "arg2", "result"}
      BY <1>6, <1>7, <3>1
    <3>3. PICK x, y : x = i.arg1 /\ y = i.arg2
      OBVIOUS
    <3>4. IsOperand(x)' /\ IsOperand(y)'
      BY <1>12, <3>1, <3>3
    <3>5. instructions'[p].arg1 = x /\ instructions'[p].arg2 = y
      BY <3>1, <3>3
    <3>6. QED BY <3>1, <3>2, <3>4, <3>5 DEF IsOperand
  <2>5. QED BY <1>2, <1>10, <2>3, <2>4, GrowsFilled
<1>15. Skipping' /\ Skipped' /\ Userfuncs'
  <2>1. Skipping'
    BY <1>2, <1>3, <1>4, <1>10, StartSkipping
  <2>2. Skipped'
    BY <1>2, <1>3, <1>10, GrowsSkipped
  <2>3. Userfuncs'
    BY <1>2, <1>3, <1>4, <1>10, StartUserfuncs
  <2>4. QED BY <2>1, <2>2, <2>3
<1>16. Named'
  <2>1. \A f : ~RefersTo(n, f)
    BY <1>3 DEF RefersTo
  <2>2. QED BY <1>2, <1>10, <2>1, GrowsNamed
<1>17. \A j \in ijumps' : j[1] < currInstruction' /\ j[2] \in 0 .. MaxQuads
  BY <1>1, <1>10, GrowsJumps
<1>18. phase' = "generate"
  BY <1>1 DEF Generating
<1>19. QED BY <1>10, <1>13, <1>14, <1>15, <1>16, <1>17, <1>18 DEF CodeInv, Generated

(* Code with one instruction more. *)
LEMMA AppendCode ==
  ASSUME NEW s, IsCode(s), NEW c, HasTarget(c), NEW t, t = Append(s, c),
         NEW n \in Nat, n = Len(s)
  PROVE  /\ IsCode(t) /\ Len(t) = n + 1 /\ t[n + 1] = c
         /\ \A p \in DOMAIN s : p \in DOMAIN t /\ t[p] = s[p]
<1> DEFINE E == Elements(s) \cup {c}
<1>1. s \in Seq(E) /\ c \in E
  BY SeqMonotonic DEF IsCode, IsSeq
<1> HIDE DEF E
<1>2. DOMAIN s = 1 .. n
  BY <1>1, LenProperties
<1>3. t \in Seq(E) /\ Len(t) = n + 1 /\ t[n + 1] = c /\ \A p \in 1 .. n : t[p] = s[p]
  BY <1>1, <1>2, AppendProperties
<1>4. DOMAIN t = 1 .. n + 1 /\ IsSeq(t)
  BY <1>3, SeqIsSeq
<1>5. \A p \in 1 .. n : p \in 1 .. n + 1
  OBVIOUS
<1>6. ASSUME NEW p \in 1 .. n + 1
      PROVE  HasTarget(t[p])
  <2>1. p \in 1 .. n \/ p = n + 1
    OBVIOUS
  <2>2. QED BY <1>2, <1>3, <2>1 DEF IsCode
<1>7. QED BY <1>2, <1>3, <1>4, <1>5, <1>6 DEF IsCode

(* patching changes one result. *)
LEMMA TargetElement ==
  ASSUME NEW s, IsCode(s), NEW a \in Nat, NEW l, a + 1 \in DOMAIN s,
         {"opcode", "arg1", "arg2", "result"} \subseteq DOMAIN s[a + 1]
  PROVE  /\ SameButResult(Target(s, a, l)[a + 1], s[a + 1])
         /\ Target(s, a, l)[a + 1].result.value = l
<1>1. Target(s, a, l)[a + 1] = [s[a + 1] EXCEPT !.result.value = l]
  BY DEF Target
<1>2. PICK x, y : x = s[a + 1] /\ y = [x EXCEPT !.result.value = l]
  OBVIOUS
<1>3. {"opcode", "arg1", "arg2", "result"} \subseteq DOMAIN x /\ "value" \in DOMAIN x.result
  BY <1>2 DEF IsCode, HasTarget
<1>4. /\ y.opcode = x.opcode /\ y.arg1 = x.arg1 /\ y.arg2 = x.arg2 /\ DOMAIN y = DOMAIN x
      /\ y.result = [x.result EXCEPT !.value = l]
  BY <1>2, <1>3
<1>5. y.result.value = l
  BY <1>3, <1>4
<1>6. QED BY <1>1, <1>2, <1>4, <1>5 DEF SameButResult

(* The function that ends at the next quad is the one that waits innermost. *)
LEMMA EndsInnermost ==
  ASSUME GenerationInv, ProgramInv, CodeInv, phase = "generate", NEW n, n = next,
         n \in DOMAIN quads, quads[n].op = "funcend"
  PROVE  \E f \in DOMAIN symbols :
           /\ Ends(f, n) /\ Waiting(f) /\ f \in 0 .. n - 1
           /\ \A g : Ends(g, n) => g = f
           /\ func_skip_stack # << >> /\ func_skip_stack[1] = At(f) + 1
<1>1. PICK f \in DOMAIN symbols : f < n /\ Ends(f, n)
  BY DEF ProgramInv, EndsAfter
<1>2. IsProgram(quads) /\ \A g \in DOMAIN symbols : g \in Nat /\ g \in DOMAIN quads
  BY EndFacts DEF GenerationInv, Written
<1>3. n \in Nat
  BY <1>2, EndFacts
<1>4. ASSUME NEW e \in DOMAIN quads, Ends(f, e)
      PROVE  n <= e
  <2>1. f <= e /\ f <= f
    BY <1>2, <1>4, EndFacts
  <2>2. QED BY <1>1, <1>4, <2>1 DEF ProgramInv, Nested
<1>5. Waiting(f) /\ f \in 0 .. n - 1
  BY <1>1, <1>2, <1>3, <1>4 DEF Waiting
<1>6. ASSUME NEW g, Ends(g, n)
      PROVE  g = f
  BY <1>1, <1>6 DEF Ends, ProgramFunc
<1>7. PICK s : s = func_skip_stack
  OBVIOUS
<1>8. s \in Seq(Nat)
  BY <1>7 DEF GenerationInv, Generation, SkipsApart
<1>9. DOMAIN s = 1 .. Len(s) /\ Len(s) \in Nat
  BY <1>8, LenProperties
<1>10. PICK k \in DOMAIN s : s[k] = At(f) + 1
  BY <1>5, <1>7 DEF CodeInv, Skipping
<1>11. 1 \in DOMAIN s /\ s # << >> /\ 1 <= k
  BY <1>9, <1>10
<1>12. PICK g \in DOMAIN symbols : Waiting(g) /\ s[1] = At(g) + 1
  BY <1>7, <1>11 DEF CodeInv, Skipping
<1>13. g = f
  <2>1. SUFFICES ASSUME g # f PROVE FALSE
    OBVIOUS
  <2>2. g \in 0 .. n - 1
    BY <1>2, <1>3, <1>12 DEF Waiting
  <2>3. ~(g < f)
    <3>1. SUFFICES ASSUME g < f PROVE FALSE
      OBVIOUS
    <3>2. At(g) + Size(g) <= At(f) /\ At(g) \in Nat /\ At(f) \in Nat
      BY <1>5, <2>2, <3>1, Addresses DEF CodeInv
    <3>3. PICK a \in Nat, b \in Nat : a = At(g) /\ b = At(f) /\ a < b
      BY <3>2, SizeIs
    <3>4. k # 1
      BY <1>10, <1>12, <3>3
    <3>5. 1 < k
      BY <1>9, <1>11, <3>4
    <3>6. s[1] > s[k]
      BY <1>7, <1>11, <3>5 DEF CodeInv, Skipping
    <3>7. QED BY <1>10, <1>12, <3>3, <3>6
  <2>4. f <= g /\ g <= n /\ g < n
    BY <1>2, <1>3, <2>2, <2>3
  <2>5. PICK d \in DOMAIN quads : Ends(g, d)
    BY DEF ProgramInv, AllEnd
  <2>6. d <= n /\ d # n
    BY <1>1, <2>1, <2>4, <2>5 DEF ProgramInv, Nested
  <2>7. n <= d
    BY <1>12, <2>5 DEF Waiting
  <2>8. d \in Nat
    BY <1>2, EndFacts
  <2>9. QED BY <1>3, <2>6, <2>7, <2>8
<1>14. QED BY <1>1, <1>5, <1>6, <1>7, <1>11, <1>12, <1>13

(* A function ends: the jump over it leads behind its end, and it waits no  *)
(* longer.                                                                  *)
LEMMA EndSkipping ==
  ASSUME GenerationInv, GenerationInv', ProgramInv, CodeInv, Grows,
         NEW n, n = next, n \in DOMAIN quads, quads[n].op = "funcend",
         NEW f \in DOMAIN symbols, Ends(f, n), Waiting(f), f \in 0 .. n - 1,
         \A g : Ends(g, n) => g = f,
         func_skip_stack # << >>, func_skip_stack[1] = At(f) + 1,
         func_skip_stack' = Tail(func_skip_stack)
  PROVE  Skipping'
<1>1. n \in Nat /\ IsProgram(quads)
  BY Addresses DEF CodeInv, GenerationInv, Written
<1>2. \A i \in 0 .. n - 1 : At(i)' = At(i)
  BY GrowsFacts
<1>3. UNCHANGED <<quads, symbols>> /\ next' = n + 1
  BY DEF Grows, program
<1>4. \A g \in DOMAIN symbols : g \in Nat /\ g \in DOMAIN quads
  BY <1>1, EndFacts
<1>5. ASSUME NEW g \in DOMAIN symbols
      PROVE  /\ Waiting(g)' <=> Waiting(g) /\ g # f
             /\ Waiting(g) => At(g)' = At(g) /\ g \in 0 .. n - 1
  <2>1. g # n
    BY <1>4 DEF ProgramInv, Declared
  <2>2. g < n + 1 <=> g < n
    BY <1>1, <1>4, <2>1
  <2>3. ASSUME NEW e \in DOMAIN quads, Ends(g, e), g # f
        PROVE  n + 1 <= e <=> n <= e
    <3>1. e # n /\ e \in Nat
      BY <1>1, <2>3, EndFacts
    <3>2. QED BY <1>1, <3>1
  <2>4. ~(n + 1 <= n)
    BY <1>1
  <2>5. Waiting(g)' <=> Waiting(g) /\ g # f
    BY <1>3, <2>2, <2>3, <2>4 DEF Waiting, Ends
  <2>6. Waiting(g) => g \in 0 .. n - 1
    BY <1>1, <1>4 DEF Waiting
  <2>7. QED BY <1>2, <2>5, <2>6
<1>6. PICK s, t : s = func_skip_stack /\ t = func_skip_stack'
  OBVIOUS
<1>7. s \in Seq(Nat)
  BY <1>6 DEF GenerationInv, Generation, SkipsApart, Grows
<1>8. /\ s[1] = At(f) + 1 /\ 1 \in DOMAIN s
      /\ \A k \in DOMAIN t : k \in Nat /\ 0 < k /\ k + 1 \in DOMAIN s /\ t[k] = s[k + 1]
      /\ \A k \in DOMAIN s : k = 1 \/ (k \in Nat /\ k > 1 /\ k - 1 \in DOMAIN t /\ t[k - 1] = s[k])
  <2>1. s # << >> /\ s[1] = At(f) + 1 /\ t = Tail(s)
    BY <1>6
  <2>2. 1 \in DOMAIN s
    BY <1>7, <2>1, Behind
  <2>3. \A k \in DOMAIN t : k \in Nat /\ 0 < k /\ k + 1 \in DOMAIN s /\ t[k] = s[k + 1]
    BY <1>7, <2>1, Behind
  <2>4. \A k \in DOMAIN s : k = 1 \/ (k \in Nat /\ k > 1 /\ k - 1 \in DOMAIN t /\ t[k - 1] = s[k])
    BY <1>7, <2>1, Behind
  <2>5. QED BY <2>1, <2>2, <2>3, <2>4
<1>9. /\ \A k \in DOMAIN s : \E g \in DOMAIN symbols : Waiting(g) /\ s[k] = At(g) + 1
      /\ \A j, k \in DOMAIN s : j < k => s[j] > s[k]
      /\ \A g \in DOMAIN symbols : Waiting(g) => \E k \in DOMAIN s : s[k] = At(g) + 1
  BY <1>6 DEF CodeInv, Skipping
<1>10. \A g \in DOMAIN symbols : Waiting(g) => At(g) \in Nat
  BY <1>5, Addresses DEF CodeInv
<1>11. ASSUME NEW k \in DOMAIN t
       PROVE  \E g \in DOMAIN symbols : Waiting(g)' /\ t[k] = At(g)' + 1
  <2>1. PICK g \in DOMAIN symbols : Waiting(g) /\ t[k] = At(g) + 1
    BY <1>8, <1>9
  <2>2. s[1] > t[k]
    <3>1. k + 1 \in DOMAIN s /\ 1 < k + 1
      BY <1>7, <1>8
    <3>2. QED BY <1>8, <1>9, <3>1
  <2>3. g # f
    BY <1>8, <1>10, <2>1, <2>2
  <2>4. QED BY <1>5, <2>1, <2>3
<1>12. ASSUME NEW j \in DOMAIN t, NEW k \in DOMAIN t, j < k
       PROVE  t[j] > t[k]
  <2>1. j + 1 < k + 1
    BY <1>8, <1>12
  <2>2. QED BY <1>8, <1>9, <2>1
<1>13. ASSUME NEW g \in DOMAIN symbols, Waiting(g)'
       PROVE  \E k \in DOMAIN t : t[k] = At(g)' + 1
  <2>1. Waiting(g) /\ g # f /\ At(g)' = At(g) /\ g \in 0 .. n - 1
    BY <1>5, <1>13
  <2>2. PICK k \in DOMAIN s : s[k] = At(g) + 1
    BY <1>9, <2>1
  <2>3. At(g) # At(f)
    <3>1. g < f \/ f < g
      BY <1>4, <2>1
    <3>2. /\ At(g) \in Nat /\ At(f) \in Nat
          /\ g < f => At(g) + Size(g) <= At(f)
          /\ f < g => At(f) + Size(f) <= At(g)
      BY <2>1, Addresses DEF CodeInv
    <3>3. QED BY <3>1, <3>2, SizeIs
  <2>4. At(g) \in Nat /\ At(f) \in Nat
    BY <1>10, <2>1
  <2>5. k # 1
    BY <1>8, <2>2, <2>3, <2>4
  <2>6. QED BY <1>8, <2>1, <2>2, <2>5
<1>14. QED BY <1>3, <1>6, <1>11, <1>12, <1>13 DEF Skipping

(* The jumps over functions that have ended lead behind them. *)
LEMMA EndSkipped ==
  ASSUME GenerationInv, GenerationInv', ProgramInv, CodeInv, Grows,
         NEW n, n = next, n \in DOMAIN quads,
         NEW f \in DOMAIN symbols, Waiting(f), f \in 0 .. n - 1,
         \A g : Ends(g, n) => g = f,
         NEW a, a = At(f), instructions'[a + 2].result.value = Len(instructions) + 1,
         \A p \in DOMAIN instructions : p # a + 2 => instructions'[p] = instructions[p]
  PROVE  Skipped'
<1>1. PICK m \in Nat :
        /\ n \in Nat /\ m = Len(instructions) /\ DOMAIN instructions = 1 .. m
        /\ \A i \in 0 .. n - 1 : At(i) \in Nat /\ At(i) + Size(i) <= m
  BY Addresses DEF CodeInv
<1>2. (\A i \in 0 .. n - 1 : At(i)' = At(i)) /\ At(n)' = m
  BY <1>1, GrowsFacts
<1>3. UNCHANGED <<quads, symbols>> /\ next' = n + 1
  BY DEF Grows, program
<1>4. IsProgram(quads)
  BY DEF GenerationInv, Written
<1>5. \A g, d : Ends(g, d)' <=> Ends(g, d)
  BY <1>3 DEF Ends
<1>6. SUFFICES ASSUME NEW g, NEW e, Ends(g, e), e < n + 1
               PROVE  instructions'[At(g)' + 2].result.value = At(e)' + 1
  BY <1>3, <1>5 DEF Skipped
<1>7. g \in DOMAIN symbols /\ g \in DOMAIN quads /\ e \in DOMAIN quads /\ g \in Nat /\ e \in Nat /\ g < e
  BY <1>4, <1>6, EndFacts
<1>8. CASE e = n
  <2>1. g = f
    BY <1>6, <1>8
  <2>2. QED BY <1>1, <1>2, <1>8, <2>1
<1>9. CASE e # n
  <2>1. e \in 0 .. n - 1 /\ g \in 0 .. n - 1 /\ e < n
    BY <1>1, <1>6, <1>7, <1>9
  <2>2. g # f
    <3>1. g = f => n <= e
      BY <1>6, <1>7 DEF Waiting
    <3>2. QED BY <1>1, <1>7, <2>1, <3>1
  <2>3. PICK b \in Nat : b = At(g) /\ At(g)' = b /\ b + 2 \in DOMAIN instructions
    <3>1. Size(g) = 3
      BY <1>7 DEF ProgramInv, Declared, Size
    <3>2. PICK b \in Nat : b = At(g) /\ b + 3 <= m
      BY <1>1, <2>1, <3>1
    <3>3. b + 2 \in 1 .. m
      BY <3>2
    <3>4. QED BY <1>1, <1>2, <2>1, <3>2, <3>3
  <2>4. a \in Nat /\ b # a
    <3>1. g < f \/ f < g
      BY <2>1, <2>2
    <3>2. /\ At(g) \in Nat /\ At(f) \in Nat
          /\ g < f => At(g) + Size(g) <= At(f)
          /\ f < g => At(f) + Size(f) <= At(g)
      BY <2>1, Addresses DEF CodeInv
    <3>3. QED BY <2>3, <3>1, <3>2, SizeIs
  <2>5. instructions'[b + 2] = instructions[b + 2]
    BY <2>3, <2>4
  <2>6. instructions[b + 2].result.value = At(e) + 1
    BY <1>6, <1>7, <2>1, <2>3 DEF CodeInv, Skipped
  <2>7. QED BY <1>2, <2>1, <2>3, <2>5, <2>6
<1>10. QED BY <1>8, <1>9

(* generate_FUNCEND. *)
LEMMA FuncEndGenerated ==
  ASSUME GenerationInv, GenerationInv', ProgramInv, CodeInv, GenerateFuncEnd
  PROVE  CodeInv'
<1>1. /\ Generating /\ Q.op = "funcend" /\ Fits(1) /\ phase = "generate"
      /\ UNCHANGED <<program, phase, ijumps, userfuncs>>
  BY DEF GenerateFuncEnd, Generating
<1>2. PICK m \in Nat, n \in Nat :
        /\ m = Len(instructions) /\ n = next /\ DOMAIN instructions = 1 .. m
        /\ \A i \in 0 .. n - 1 : At(i) \in Nat /\ At(i) + Size(i) <= m
  BY Addresses DEF CodeInv
<1>3. n \in DOMAIN quads /\ quads[n].op = "funcend"
  BY <1>1, <1>2, NextQuadIs DEF Generating, Q
<1>4. PICK f \in DOMAIN symbols :
        /\ Ends(f, n) /\ Waiting(f) /\ f \in 0 .. n - 1
        /\ \A g : Ends(g, n) => g = f
        /\ func_skip_stack # << >> /\ func_skip_stack[1] = At(f) + 1
  BY <1>1, <1>2, <1>3, EndsInnermost
<1>5. PICK a \in Nat : a = At(f) /\ a + 2 \in 1 .. m
  <2>1. Size(f) = 3
    BY EndFacts DEF GenerationInv, Written, ProgramInv, Declared, Size
  <2>2. PICK a \in Nat : a = At(f) /\ a + 3 <= m
    BY <1>2, <1>4, <2>1
  <2>3. a + 2 \in 1 .. m
    BY <2>2
  <2>4. QED BY <2>2, <2>3
<1>6. PICK exit : exit = Instruction("funcexit", Label(0), Label(0), Label(0))
  OBVIOUS
<1>7. PICK code : code = Append(instructions, exit)
  OBVIOUS
<1>8. /\ HasTarget(exit) /\ DOMAIN exit = {"opcode", "arg1", "arg2", "result"}
      /\ exit.opcode = "funcexit" /\ exit.arg1 = Label(0) /\ exit.arg2 = Label(0)
  BY <1>6, InstructionHasTarget, InstructionIs DEF Label
<1>9. /\ IsCode(code) /\ Len(code) = m + 1 /\ code[m + 1] = exit
      /\ \A p \in 1 .. m : p \in DOMAIN code /\ code[p] = instructions[p]
  <2>1. IsCode(instructions)
    BY DEF CodeInv, Ordered
  <2>2. PICK i : i = instructions
    OBVIOUS
  <2>3. IsCode(i) /\ HasTarget(exit) /\ code = Append(i, exit) /\ m = Len(i)
    BY <1>2, <1>7, <1>8, <2>1, <2>2
  <2>4. IsCode(code)
    BY <2>3, AppendCode
  <2>5. Len(code) = m + 1
    BY <2>3, AppendCode
  <2>6. code[m + 1] = exit
    BY <2>3, AppendCode
  <2>7. \A p \in DOMAIN i : p \in DOMAIN code /\ code[p] = i[p]
    BY <2>3, AppendCode
  <2>8. QED BY <1>2, <2>2, <2>4, <2>5, <2>6, <2>7
<1>10. /\ instructions' = Target(code, a + 1, m + 1)
       /\ func_skip_stack' = Tail(func_skip_stack)
       /\ taddress' = Append(taddress, currInstruction) /\ next' = next + 1
  <2>1. Head(func_skip_stack) = a + 1
    <3>1. PICK s : s = func_skip_stack
      OBVIOUS
    <3>2. s \in Seq(Nat)
      BY <1>1, <3>1 DEF GenerationInv, Generation, SkipsApart
    <3>3. Head(s) = s[1]
      BY <3>2
    <3>4. QED BY <1>4, <1>5, <3>1, <3>3
  <2>2. QED BY <1>2, <1>4, <1>6, <1>7, <2>1 DEF GenerateFuncEnd, currInstruction
<1>11. /\ Len(instructions') = m + 1 /\ IsCode(instructions')
       /\ \A p \in DOMAIN code : p # a + 2 => instructions'[p] = code[p]
       /\ SameButResult(instructions'[a + 2], instructions[a + 2])
       /\ instructions'[a + 2].result.value = m + 1
  <2>1. PICK b \in Nat : b = a + 1 /\ b + 1 = a + 2
    BY <1>5
  <2>2. b + 1 \in DOMAIN code /\ code[b + 1] = instructions[a + 2]
    BY <1>5, <1>9, <2>1
  <2>3. {"opcode", "arg1", "arg2", "result"} \subseteq DOMAIN code[b + 1]
    BY <1>2, <1>5, <2>2 DEF CodeInv, Operands
  <2>4. PICK l : l = m + 1
    OBVIOUS
  <2>5. /\ IsCode(Target(code, b, l)) /\ Len(Target(code, b, l)) = Len(code)
        /\ \A p \in DOMAIN code : p # b + 1 => Target(code, b, l)[p] = code[p]
    BY <1>9, TargetCode
  <2>6. /\ SameButResult(Target(code, b, l)[b + 1], code[b + 1])
        /\ Target(code, b, l)[b + 1].result.value = l
    BY <1>9, <2>2, <2>3, TargetElement
  <2>7. instructions' = Target(code, b, l)
    BY <1>10, <2>1, <2>4
  <2>8. QED BY <1>9, <2>1, <2>2, <2>4, <2>5, <2>6, <2>7
<1>12. /\ \A p \in DOMAIN instructions : p # a + 2 => instructions'[p] = instructions[p]
       /\ instructions'[m + 1] = exit
       /\ DOMAIN instructions' = 1 .. m + 1
  <2>1. DOMAIN instructions' = 1 .. m + 1 /\ DOMAIN code = 1 .. m + 1
    BY <1>9, <1>11, SeqIsSeq DEF IsCode, IsSeq
  <2>2. m + 1 \in 1 .. m + 1 /\ m + 1 # a + 2
    BY <1>5
  <2>3. QED BY <1>2, <1>9, <1>11, <2>1, <2>2
<1>13. Grows
  <2>1. Size(next) = 1
    BY <1>2, <1>3 DEF Size
  <2>2. \A p \in DOMAIN instructions : SameButResult(instructions'[p], instructions[p])
    BY <1>11, <1>12 DEF SameButResult
  <2>3. next < currQuad
    BY <1>1 DEF Generating
  <2>4. QED BY <1>1, <1>2, <1>10, <1>11, <2>1, <2>2, <2>3 DEF Grows
<1>14. Ordered' /\ Partition'
  BY <1>13, GrowsFacts
<1>15. Filled' /\ Operands'
  <2>1. UNCHANGED quads
    BY <1>1 DEF program
  <2>2. IsCodeOfQuad(n, m)'
    BY <1>3, <1>8, <1>12, <2>1 DEF IsCodeOfQuad
  <2>3. PICK y : y = Label(0)
    OBVIOUS
  <2>4. IsOperand(y)'
    <3>1. y.type = "label_a"
      BY <2>3, PlainOperands
    <3>2. QED BY <3>1 DEF IsOperand
  <2>5. ASSUME NEW p \in DOMAIN instructions' \ DOMAIN instructions
        PROVE  /\ {"opcode", "arg1", "arg2", "result"} \subseteq DOMAIN instructions'[p]
               /\ IsOperand(instructions[p].arg1)' /\ IsOperand(instructions[p].arg2)'
    <3>1. p = m + 1
      BY <1>2, <1>12
    <3>2. instructions'[p] = exit
      BY <1>12, <3>1
    <3>3. instructions'[p].arg1 = y /\ instructions'[p].arg2 = y
      BY <1>8, <2>3, <3>2
    <3>4. QED BY <1>8, <2>4, <3>2, <3>3 DEF IsOperand
  <2>6. QED BY <1>2, <1>13, <2>2, <2>5, GrowsFilled
<1>16. Skipping'
  BY <1>2, <1>3, <1>4, <1>10, <1>13, EndSkipping
<1>17. Skipped'
  BY <1>2, <1>3, <1>4, <1>5, <1>11, <1>12, <1>13, EndSkipped
<1>18. Userfuncs'
  BY <1>1, <1>2, <1>3, <1>13, PlainUserfuncs
<1>19. Named'
  <2>1. \A f1 : ~RefersTo(n, f1)
    BY <1>3 DEF RefersTo
  <2>2. QED BY <1>2, <1>13, <2>1, GrowsNamed
<1>20. \A j \in ijumps' : j[1] < currInstruction' /\ j[2] \in 0 .. MaxQuads
  BY <1>1, <1>13, GrowsJumps
<1>21. phase' = "generate" /\ currInstruction' <= MaxInstructions
  BY <1>1, <1>2, <1>11 DEF Fits, currInstruction
<1>22. QED BY <1>14, <1>15, <1>16, <1>17, <1>18, <1>19, <1>20, <1>21 DEF CodeInv, Generated

-----------------------------------------------------------------------------
(* The jumps in hand are patched, and everything else leaves the code as it is. *)

(* A patched jump keeps its opcode and operands. *)
LEMMA Patched ==
  ASSUME GenerationInv, CodeInv, PatchIncompleteJumps
  PROVE  /\ IsCode(instructions') /\ Len(instructions') = Len(instructions)
         /\ DOMAIN instructions' = DOMAIN instructions
         /\ \A p \in DOMAIN instructions :
              /\ SameButResult(instructions'[p], instructions[p])
              /\ \/ instructions'[p] = instructions[p]
                 \/ \E i \in 0 .. next - 1 : IsJump(i) /\ p = At(i) + 1
<1>1. PICK m \in Nat : m = Len(instructions) /\ DOMAIN instructions = 1 .. m
  BY Addresses DEF CodeInv
<1>2. instructions' =
        [p \in 1 .. m |->
           IF \E j \in ijumps : j[1] = p - 1
           THEN LET j == CHOOSE j \in ijumps : j[1] = p - 1
                IN  [instructions[p] EXCEPT !.result.value = Start(j[2])]
           ELSE instructions[p]]
  BY <1>1 DEF PatchIncompleteJumps
<1>3. DOMAIN instructions' = 1 .. m /\ IsSeq(instructions') /\ Len(instructions') = m
  <2>1. PICK c : c = instructions'
    OBVIOUS
  <2>2. DOMAIN c = 1 .. m /\ c = [p \in 1 .. m |-> c[p]]
    BY <1>2, <2>1
  <2>3. c \in [1 .. m -> Elements(c)]
    BY <2>2 DEF Elements
  <2>4. c \in Seq(Elements(c)) /\ Len(c) = m
    BY <2>2, <2>3
  <2>5. IsSeq(c)
    BY <2>4 DEF IsSeq
  <2>6. QED BY <2>1, <2>2, <2>4, <2>5
<1>4. ASSUME NEW p \in 1 .. m
      PROVE  /\ SameButResult(instructions'[p], instructions[p]) /\ HasTarget(instructions'[p])
             /\ \/ instructions'[p] = instructions[p]
                \/ \E i \in 0 .. next - 1 : IsJump(i) /\ p = At(i) + 1
  <2>1. /\ HasTarget(instructions[p])
        /\ {"opcode", "arg1", "arg2", "result"} \subseteq DOMAIN instructions[p]
    BY <1>1 DEF CodeInv, Ordered, IsCode, Operands
  <2>2. CASE \E j \in ijumps : j[1] = p - 1
    <3>1. PICK j \in ijumps : j[1] = p - 1
      BY <2>2
    <3>2. PICK i \in 0 .. next - 1 : IsJump(i) /\ j[1] = At(i)
      BY DEF GenerationInv, Generation, ListedJumps, PatchIncompleteJumps, At
    <3>3. p = At(i) + 1
      BY <3>1, <3>2
    <3>4. PICK v : v = Start((CHOOSE k \in ijumps : k[1] = p - 1)[2])
      OBVIOUS
    <3>5. PICK x, y : x = instructions[p] /\ y = [x EXCEPT !.result.value = v]
      OBVIOUS
    <3>6. instructions'[p] = y
      BY <1>2, <2>2, <3>4, <3>5
    <3>7. {"opcode", "arg1", "arg2", "result"} \subseteq DOMAIN x /\ "value" \in DOMAIN x.result
      BY <2>1, <3>5 DEF HasTarget
    <3>8. /\ y.opcode = x.opcode /\ y.arg1 = x.arg1 /\ y.arg2 = x.arg2 /\ DOMAIN y = DOMAIN x
          /\ y.result = [x.result EXCEPT !.value = v]
      BY <3>5, <3>7
    <3>9. "value" \in DOMAIN y.result
      BY <3>7, <3>8
    <3>10. QED BY <3>2, <3>3, <3>5, <3>6, <3>7, <3>8, <3>9 DEF SameButResult, HasTarget
  <2>3. CASE ~ \E j \in ijumps : j[1] = p - 1
    <3>1. instructions'[p] = instructions[p]
      BY <1>2, <2>3
    <3>2. QED BY <2>1, <3>1 DEF SameButResult
  <2>4. QED BY <2>2, <2>3
<1>5. QED BY <1>1, <1>3, <1>4 DEF IsCode

(* The table of functions does not change when no code is added. *)
LEMMA UserfuncsStay ==
  ASSUME CodeInv, UNCHANGED <<symbols, next, userfuncs>>, \A i : At(i)' = At(i),
         Len(instructions') = Len(instructions)
  PROVE  Userfuncs'
<1>1. /\ \A x, k : FirstOf(x, k)' <=> FirstOf(x, k)
      /\ \A f, j : Later(f, j)' <=> Later(f, j)
  BY DEF FirstOf, Later
<1>2. ASSUME NEW f \in DOMAIN symbols, f < next
      PROVE  /\ \E k \in DOMAIN userfuncs : FirstOf(symbols[f].name, k)'
             /\ \E k \in DOMAIN userfuncs :
                  /\ userfuncs[k].name = symbols[f].name
                  /\ userfuncs[k].address = At(f)' + 2
                  /\ \A j \in 1 .. k - 1 : Later(f, j)'
  <2>1. \E k \in DOMAIN userfuncs : FirstOf(symbols[f].name, k)
    BY <1>2 DEF CodeInv, Userfuncs
  <2>2. PICK k \in DOMAIN userfuncs :
          /\ userfuncs[k].name = symbols[f].name
          /\ userfuncs[k].address = At(f) + 2
          /\ \A j \in 1 .. k - 1 : Later(f, j)
    BY <1>2 DEF CodeInv, Userfuncs
  <2>3. \E k1 \in DOMAIN userfuncs : FirstOf(symbols[f].name, k1)'
    BY <2>1 DEF FirstOf
  <2>4. QED BY <1>1, <2>2, <2>3
<1>3. /\ userfuncs \in Seq(Entry)
      /\ \A k \in DOMAIN userfuncs : userfuncs[k].address <= Len(instructions')
  BY DEF CodeInv, Userfuncs
<1>4. QED BY <1>2, <1>3 DEF Userfuncs

(* patch_incomplete_jumps. *)
LEMMA JumpsPatched ==
  ASSUME GenerationInv, GenerationInv', ProgramInv, CodeInv, PatchIncompleteJumps
  PROVE  CodeInv'
<1>1. /\ UNCHANGED <<quads, symbols, next, taddress, ijumps, func_skip_stack, userfuncs>>
      /\ phase' = "run" /\ next >= currQuad
  BY DEF PatchIncompleteJumps, program
<1>2. PICK m \in Nat, n \in Nat :
        /\ m = Len(instructions) /\ n = next /\ DOMAIN instructions = 1 .. m
        /\ \A i \in 0 .. n - 1 : At(i) \in Nat /\ At(i) + Size(i) <= m
  BY Addresses DEF CodeInv
<1>3. /\ IsCode(instructions') /\ Len(instructions') = m /\ DOMAIN instructions' = 1 .. m
      /\ \A p \in 1 .. m :
           /\ SameButResult(instructions'[p], instructions[p])
           /\ \/ instructions'[p] = instructions[p]
              \/ \E i \in 0 .. n - 1 : IsJump(i) /\ p = At(i) + 1
  BY <1>2, Patched
<1>4. /\ \A i : At(i)' = At(i) /\ Size(i)' = Size(i)
      /\ currInstruction' = currInstruction /\ currInstruction = m
  BY <1>1, <1>2, <1>3 DEF At, Size, currInstruction
<1>5. \A l : Addr(l)' = Addr(l)
  BY <1>1, <1>2, <1>3 DEF Addr, At
<1>6. Ordered' /\ Partition'
  <2>1. Ordered'
    BY <1>1, <1>2, <1>3 DEF CodeInv, Ordered, currQuad
  <2>2. Partition'
    BY <1>1, <1>2, <1>3, <1>4, <1>5 DEF CodeInv, Partition
  <2>3. QED BY <2>1, <2>2
<1>7. Filled'
  <2>1. \A i \in 0 .. n - 1 : IsCodeOfQuad(i, At(i))'
    BY <1>1, <1>2, <1>3, <1>4, CodeStays
  <2>2. QED BY <1>1, <1>2, <2>1 DEF Filled
<1>8. Operands'
  <2>1. ASSUME NEW p \in 1 .. m
        PROVE  /\ {"opcode", "arg1", "arg2", "result"} \subseteq DOMAIN instructions'[p]
               /\ IsOperand(instructions[p].arg1)' /\ IsOperand(instructions[p].arg2)'
    <3>1. SameButResult(instructions'[p], instructions[p])
      BY <1>3
    <3>2. PICK x, y : x = instructions[p].arg1 /\ y = instructions[p].arg2
      OBVIOUS
    <3>3. IsOperand(x) /\ IsOperand(y)
      BY <1>2, <3>2 DEF CodeInv, Operands
    <3>4. IsOperand(x)' /\ IsOperand(y)'
      BY <1>4, <3>3 DEF IsOperand
    <3>5. instructions'[p].arg1 = x /\ instructions'[p].arg2 = y
      BY <3>1, <3>2 DEF SameButResult
    <3>6. QED BY <1>2, <3>1, <3>4, <3>5 DEF CodeInv, Operands, SameButResult, IsOperand
  <2>2. QED BY <1>3, <2>1 DEF Operands
<1>9. Skipping'
  BY <1>1, <1>4 DEF CodeInv, Skipping, Waiting, Ends
<1>10. Skipped'
  <2>1. ASSUME NEW f, NEW e, Ends(f, e), e < n
        PROVE  instructions'[At(f) + 2].result.value = At(e) + 1
    <3>1. IsProgram(quads)
      BY DEF GenerationInv, Written
    <3>2. /\ f \in DOMAIN symbols /\ f \in DOMAIN quads /\ e \in DOMAIN quads
          /\ f \in Nat /\ e \in Nat /\ f < e
      BY <2>1, <3>1, EndFacts
    <3>3. f \in 0 .. n - 1 /\ quads[f].op = "funcstart" /\ Size(f) = 3
      BY <1>2, <2>1, <3>2 DEF ProgramInv, Declared, Size
    <3>4. PICK a \in Nat : a = At(f) /\ a + 3 <= m
      BY <1>2, <3>3
    <3>5. a + 2 \in 1 .. m
      BY <1>2, <3>4
    <3>6. ASSUME NEW i \in 0 .. n - 1, IsJump(i), a + 2 = At(i) + 1
          PROVE  FALSE
      <4>1. i # f
        BY <3>3, <3>6 DEF IsJump, JumpOpcode
      <4>2. i < f \/ f < i
        BY <3>3, <4>1
      <4>3. /\ At(i) \in Nat
            /\ i < f => At(i) + Size(i) <= At(f)
            /\ f < i => At(f) + Size(f) <= At(i)
        BY <1>2, <3>3, Addresses DEF CodeInv
      <4>4. QED BY <3>3, <3>4, <3>6, <4>2, <4>3, SizeIs
    <3>7. instructions'[a + 2] = instructions[a + 2]
      BY <1>3, <3>5, <3>6
    <3>8. instructions[a + 2].result.value = At(e) + 1
      BY <1>2, <2>1, <3>2, <3>4 DEF CodeInv, Skipped
    <3>9. QED BY <3>4, <3>7, <3>8
  <2>2. QED BY <1>1, <1>2, <1>4, <2>1 DEF Skipped, Ends
<1>11. Userfuncs'
  BY <1>1, <1>2, <1>3, <1>4, UserfuncsStay
<1>12. Named'
  <2>1. ASSUME NEW i \in 0 .. n - 1
        PROVE  Entered(i)' = Entered(i)
    <3>1. PICK a \in Nat : a = At(i) /\ a + 1 \in 1 .. m
      <4>1. PICK a \in Nat : a = At(i) /\ a + Size(i) <= m
        BY <1>2
      <4>2. a + 1 \in 1 .. m
        BY <4>1, SizeIs
      <4>3. QED BY <4>1, <4>2
    <3>2. instructions'[a + 1].arg1 = instructions[a + 1].arg1
      BY <1>3, <3>1 DEF SameButResult
    <3>3. QED BY <1>4, <3>1, <3>2 DEF Entered, At
  <2>2. /\ \A i, f : RefersTo(i, f)' <=> RefersTo(i, f)
        /\ \A i, f : Latest(i, f)' <=> Latest(i, f)
    BY <1>1 DEF RefersTo, Latest
  <2>3. \A i \in 0 .. n - 1, f \in DOMAIN symbols :
          RefersTo(i, f) /\ Latest(i, f) => Entered(i) = Arg("userfunc_a", At(f) + 2)
    BY <1>2 DEF CodeInv, Named
  <2>4. QED BY <1>1, <1>2, <1>4, <2>1, <2>2, <2>3 DEF Named
<1>13. next' = currQuad'
  <2>1. next \in 0 .. currQuad /\ currQuad' = currQuad
    BY <1>1 DEF CodeInv, Ordered, currQuad
  <2>2. currQuad \in Nat
    BY DEF GenerationInv, Written, IsProgram, currQuad
  <2>3. QED BY <1>1, <2>1, <2>2
<1>14. QED BY <1>1, <1>4, <1>6, <1>7, <1>8, <1>9, <1>10, <1>11, <1>12, <1>13 DEF CodeInv

(* Steps that leave program and code. *)
LEMMA CodeKept ==
  ASSUME CodeInv, UNCHANGED <<program, target>>, phase' = "parse" => phase = "parse",
         Generated' => Generated
  PROVE  CodeInv'
<1>1. /\ UNCHANGED <<quads, symbols, next, instructions, taddress, ijumps, func_skip_stack>>
      /\ UNCHANGED userfuncs
  BY DEF program, target
<1>2. (\A i : At(i)' = At(i) /\ Size(i)' = Size(i)) /\ \A l : Addr(l)' = Addr(l)
  BY <1>1 DEF At, Size, Addr
<1>3. Ordered' /\ Partition' /\ Filled'
  <2>1. \A i : IsCodeOfQuad(i, At(i))' <=> IsCodeOfQuad(i, At(i))
    BY <1>1 DEF At, IsCodeOfQuad, IsJump
  <2>2. Ordered'
    BY <1>1 DEF CodeInv, Ordered, currQuad
  <2>3. Partition'
    BY <1>1, <1>2 DEF CodeInv, Partition
  <2>4. Filled'
    BY <1>1, <2>1 DEF CodeInv, Filled
  <2>5. QED BY <2>2, <2>3, <2>4
<1>4. Operands'
  BY <1>1 DEF CodeInv, Operands, IsOperand, currInstruction
<1>5. Skipping' /\ Skipped'
  BY <1>1, <1>2 DEF CodeInv, Skipping, Skipped, Waiting, Ends
<1>6. Userfuncs'
  BY <1>1, <1>2, UserfuncsStay
<1>7. Named'
  BY <1>1, <1>2 DEF CodeInv, Named, Latest, RefersTo, Entered
<1>8. QED BY <1>1, <1>3, <1>4, <1>5, <1>6, <1>7 DEF CodeInv, currInstruction, currQuad

NothingGenerated ==
  /\ phase \in {"parse", "generate"} /\ next = 0 /\ instructions = << >> /\ taddress = << >>
  /\ ijumps = {} /\ func_skip_stack = << >> /\ userfuncs = << >>

(* Before anything is generated, nothing is said of code. *)
LEMMA NothingIsRight == GenerationInv /\ ProgramInv /\ NothingGenerated => CodeInv
<1> SUFFICES ASSUME GenerationInv, ProgramInv, NothingGenerated
             PROVE  CodeInv
  OBVIOUS
<1>1. IsProgram(quads) /\ currQuad \in Nat /\ \A f \in DOMAIN symbols : f \in Nat
  BY EndFacts DEF GenerationInv, Written
<1>2. /\ next = 0 /\ Len(instructions) = 0 /\ DOMAIN instructions = {} /\ 0 .. next - 1 = {}
      /\ DOMAIN userfuncs = {} /\ DOMAIN func_skip_stack = {}
  BY DEF NothingGenerated
<1>3. \A f \in DOMAIN symbols : ~(f < next)
  BY <1>1, <1>2
<1>4. \A e \in DOMAIN quads : ~(e < next)
  BY <1>1, <1>2, EndFacts
<1>5. IsCode(instructions)
  BY <1>2 DEF NothingGenerated, IsCode, IsSeq
<1>6. Ordered
  BY <1>1, <1>2, <1>5 DEF NothingGenerated, Ordered
<1>7. Partition /\ Filled /\ Operands /\ Named
  <2>1. 0 .. Len(instructions) - 1 = {}
    BY <1>2
  <2>2. QED BY <1>2, <2>1 DEF Partition, Filled, Operands, Named
<1>8. Skipping /\ Skipped
  BY <1>2, <1>3, <1>4 DEF Skipping, Skipped, Waiting
<1>9. Userfuncs
  <2>1. userfuncs \in Seq(Entry)
    BY DEF NothingGenerated
  <2>2. QED BY <1>2, <1>3, <2>1 DEF Userfuncs
<1>10. currInstruction <= MaxInstructions
  BY <1>2, CodeGenAssumption DEF currInstruction
<1>11. QED BY <1>6, <1>7, <1>8, <1>9, <1>10 DEF CodeInv, NothingGenerated, Generated

(* The same of the next state. *)
LEMMA NothingIsRightAfter == (GenerationInv /\ ProgramInv /\ NothingGenerated => CodeInv)'
BY NothingIsRight, PTL

(* Every step keeps what is said of code. *)
LEMMA CodeInvKept ==
  ASSUME GenerationInv, ProgramInv, CodeInv, [Next]_vars
  PROVE  CodeInv'
<1>1. GenerationInv' /\ ProgramInv'
  BY GenerationInvKept, ProgramInvKept
<1>2. CASE Write
  <2>1. phase = "parse" /\ phase' \in {"parse", "generate"} /\ UNCHANGED target
    BY <1>2 DEF Write, WriteAssign, WriteIf, WriteWhile, WriteTest, WriteEnd, WriteFunction,
       WriteFunctionEnd, WriteCall, WriteReturn, WriteDone, Room
  <2>2. NothingGenerated'
    BY <2>1 DEF NothingGenerated, CodeInv, GenerationInv, Written, target
  <2>3. QED BY <1>1, <2>2, NothingIsRightAfter
<1>3. CASE GenerateTargetCode
  <2>1. CASE AssertFails \/ Overrun
    <3>1. UNCHANGED <<program, target>> /\ phase' \in {"assert_failed", "overrun"}
      BY <2>1 DEF AssertFails, Overrun
    <3>2. QED BY <3>1, CodeKept DEF Generated
  <2>2. QED BY <1>1, <1>3, <2>1, SimpleGenerated, RelationalGenerated, FuncStartGenerated,
            FuncEndGenerated, JumpsPatched DEF GenerateTargetCode
<1>4. CASE Execute
  <2>1. UNCHANGED <<program, target>> /\ phase = "run" /\ phase' # "parse"
    BY <1>4 DEF Execute, ExecuteJump, ExecuteAssign, ExecuteRecord, ExecuteCall,
       ExecuteFuncExit, ExecuteGetRet, InfiniteLoop, Halt, Running
  <2>2. QED BY <2>1, CodeKept DEF Generated
<1>5. CASE UNCHANGED vars
  <2>1. UNCHANGED <<program, target, phase>>
    BY <1>5 DEF vars
  <2>2. QED BY <2>1, CodeKept DEF Generated
<1>6. QED BY <1>2, <1>3, <1>4, <1>5 DEF Next, Compile, CodeGenNext

(* It holds at the start. *)
LEMMA CodeInvInit ==
  ASSUME Init
  PROVE  CodeInv
<1>1. NothingGenerated
  BY DEF Init, CodeGenInit, NothingGenerated
<1>2. QED BY <1>1, GenerationInvInit, ProgramInvInit, NothingIsRight

-----------------------------------------------------------------------------
CompiledInv == GenerationInv /\ ProgramInv /\ CodeInv

(* Both parts of the compiler, and the jumps that CodeGenProofs is about.  *)
LEMMA CompiledInvKept == CompiledInv /\ [Next]_vars => CompiledInv'
BY GenerationInvKept, ProgramInvKept, CodeInvKept DEF CompiledInv

(* They hold at the start. *)
LEMMA CompiledInvInit == Init => CompiledInv
BY GenerationInvInit, ProgramInvInit, CodeInvInit DEF CompiledInv

(* make_operand and lookup_userfunc_address: in every program that the      *)
(* generator accepts, the name of a function reaches that function, unless  *)
(* a later one took its name.                                               *)
THEOREM NamesReachFunctions == Spec => []NamesReachTheirFunction
<1>1. CompiledInv => NamesReachTheirFunction
  <2>1. SUFFICES ASSUME CompiledInv, Generated, NEW i \in DOMAIN quads, NEW f \in DOMAIN symbols,
                        RefersTo(i, f), Latest(i, f)
                 PROVE  Entered(i) = Arg("userfunc_a", Start(f) + 2)
    BY DEF NamesReachTheirFunction, Latest
  <2>2. IsProgram(quads) /\ next = currQuad /\ ProgramInv
    BY <2>1 DEF CompiledInv, GenerationInv, Written, CodeInv
  <2>3. i \in 0 .. next - 1 /\ f \in 0 .. next - 1 /\ ~(f >= currQuad)
    BY <2>2, EndFacts DEF IsProgram, currQuad
  <2>4. Entered(i) = Arg("userfunc_a", At(f) + 2)
    BY <2>1, <2>3 DEF CompiledInv, CodeInv, Named
  <2>5. QED BY <2>3, <2>4 DEF Start, At
<1>2. QED BY <1>1, CompiledInvInit, CompiledInvKept, PTL DEF Spec

-----------------------------------------------------------------------------
(* Where the code of a function is. *)

(* Start is the address of a quad, or the end of the code. *)
LEMMA Starts ==
  ASSUME CompiledInv, Generated
  PROVE  /\ IsProgram(quads) /\ ProgramInv /\ currQuad \in Nat /\ DOMAIN quads = 0 .. currQuad - 1
         /\ currInstruction \in Nat /\ DOMAIN instructions = 1 .. currInstruction
         /\ Start(currQuad) = currInstruction
         /\ \A i \in DOMAIN quads :
              /\ Start(i) = At(i) /\ Start(i) \in Nat
              /\ Start(i) + Size(i) <= currInstruction
              /\ Start(i) + Size(i) = Start(i + 1)
         /\ \A i, j \in DOMAIN quads : i < j => Start(i) + Size(i) <= Start(j)
         /\ \A p \in 0 .. currInstruction - 1 : \E i \in DOMAIN quads :
              Start(i) <= p /\ p < Start(i) + Size(i)
<1>1. IsProgram(quads) /\ ProgramInv /\ CodeInv /\ next = currQuad
  BY DEF CompiledInv, GenerationInv, Written, CodeInv
<1>2. PICK n \in Nat : n = currQuad /\ n = next /\ DOMAIN quads = 0 .. n - 1
  BY <1>1 DEF IsProgram, currQuad
<1>3. PICK m \in Nat : m = currInstruction /\ m = Len(instructions) /\ DOMAIN instructions = 1 .. m
  BY <1>1, Addresses DEF CodeInv, currInstruction
<1>4. Start(n) = m /\ \A i \in 0 .. n - 1 : Start(i) = At(i)
  BY <1>2, <1>3 DEF Start, At
<1>5. /\ \A i \in 0 .. n - 1 : At(i) \in Nat /\ At(i) + Size(i) <= m
      /\ \A i, j \in 0 .. n - 1 : i < j => At(i) + Size(i) <= At(j)
  BY <1>1, <1>2, <1>3, Addresses DEF CodeInv
<1>6. ASSUME NEW i \in 0 .. n - 1
      PROVE  At(i) + Size(i) = Start(i + 1)
  <2>1. At(i) + Size(i) = Addr(i + 1)
    BY <1>1, <1>2 DEF CodeInv, Partition
  <2>2. Addr(i + 1) = Start(i + 1)
    BY <1>2, <1>3 DEF Addr, At, Start
  <2>3. QED BY <2>1, <2>2
<1>7. \A p \in 0 .. m - 1 : \E i \in 0 .. n - 1 : At(i) <= p /\ p < At(i) + Size(i)
  BY <1>1, <1>2, <1>3 DEF CodeInv, Partition
<1>8. \A i, j \in 0 .. n - 1 : i < j => Start(i) + Size(i) <= Start(j)
  BY <1>4, <1>5
<1>9. \A p \in 0 .. m - 1 : \E i \in 0 .. n - 1 : Start(i) <= p /\ p < Start(i) + Size(i)
  BY <1>4, <1>7
<1>10. QED BY <1>1, <1>2, <1>3, <1>4, <1>5, <1>6, <1>8, <1>9

(* The functions, in the numbers of their quads. *)
LEMMA Functions ==
  ASSUME CompiledInv, Generated, NEW f \in DOMAIN symbols
  PROVE  /\ f \in DOMAIN quads /\ f \in Nat /\ Size(f) = 3 /\ quads[f].op = "funcstart"
         /\ \E e \in DOMAIN quads : Ends(f, e)
         /\ \A e : Ends(f, e) => /\ e \in DOMAIN quads /\ e \in Nat /\ f < e /\ Size(e) = 1
                                 /\ quads[e].op = "funcend"
         /\ \A d, e : Ends(f, d) /\ Ends(f, e) => d = e
<1>1. IsProgram(quads) /\ ProgramInv
  BY Starts
<1>2. f \in DOMAIN quads /\ f \in Nat /\ quads[f].op = "funcstart"
  BY <1>1, EndFacts DEF ProgramInv, Declared
<1>3. \E e \in DOMAIN quads : Ends(f, e)
  BY <1>1 DEF ProgramInv, AllEnd, Generated, CompiledInv
<1>4. \A e : Ends(f, e) => e \in DOMAIN quads /\ e \in Nat /\ f < e /\ quads[e].op = "funcend"
  BY <1>1, EndFacts DEF Ends
<1>5. ASSUME NEW d, NEW e, Ends(f, d), Ends(f, e)
      PROVE  d = e
  <2>1. f <= f /\ f <= d /\ f <= e /\ d \in Nat /\ e \in Nat /\ d \in DOMAIN quads /\ e \in DOMAIN quads
    BY <1>2, <1>4, <1>5
  <2>2. d <= e /\ e <= d
    BY <1>1, <1>5, <2>1 DEF ProgramInv, Nested
  <2>3. QED BY <2>1, <2>2
<1>6. QED BY <1>2, <1>3, <1>4, <1>5 DEF Size

(* Code of a function, by addresses and by quads. *)
LEMMA InIsInCode ==
  ASSUME CompiledInv, Generated, NEW l \in 0 .. currQuad
  PROVE  In(Start(l)) <=> InCode(l)
<1>1. /\ currQuad \in Nat /\ DOMAIN quads = 0 .. currQuad - 1 /\ ProgramInv
      /\ currInstruction \in Nat /\ Start(currQuad) = currInstruction
      /\ \A i \in DOMAIN quads : Start(i) \in Nat /\ Start(i) + Size(i) <= currInstruction
      /\ \A i, j \in DOMAIN quads : i < j => Start(i) + Size(i) <= Start(j)
  BY Starts
<1>2. PICK s \in Nat : s = Start(l)
  <2>1. l \in DOMAIN quads \/ l = currQuad
    BY <1>1
  <2>2. QED BY <1>1, <2>1
<1>3. ASSUME NEW i \in DOMAIN quads
      PROVE  /\ i < l => Start(i) + Size(i) <= s
             /\ l <= i => s <= Start(i)
  <2>1. CASE l = currQuad
    BY <1>1, <1>2, <2>1
  <2>2. CASE l \in DOMAIN quads
    <3>1. i < l => Start(i) + Size(i) <= s
      BY <1>1, <1>2, <2>2
    <3>2. l < i => s + Size(l) <= Start(i)
      BY <1>1, <1>2, <2>2
    <3>3. Start(i) \in Nat /\ Size(l) \in Nat
      BY <1>1, SizeIs
    <3>4. l < i => s <= Start(i)
      BY <3>2, <3>3
    <3>5. i \in Nat /\ l \in Nat
      BY <1>1, <2>2
    <3>6. l <= i => l < i \/ l = i
      BY <3>5
    <3>7. l = i => s <= Start(i)
      BY <1>2
    <3>8. QED BY <3>1, <3>4, <3>6, <3>7
  <2>3. l = currQuad \/ l \in DOMAIN quads
    BY <1>1
  <2>4. QED BY <2>1, <2>2, <2>3
<1>4. ASSUME NEW f \in DOMAIN symbols, Within(f, s)
      PROVE  InFunction(f, l)
  <2>1. PICK e \in DOMAIN quads : Ends(f, e) /\ Start(f) + 2 <= s /\ s <= Start(e)
    BY <1>4 DEF Within
  <2>2. /\ f \in DOMAIN quads /\ f \in Nat /\ e \in Nat /\ Size(e) = 1
        /\ \A d : Ends(f, d) => d = e
    BY <2>1, Functions
  <2>3. Start(f) \in Nat /\ Start(e) \in Nat
    BY <1>1, <2>2
  <2>4. ~(l <= f)
    <3>1. l <= f => s <= Start(f)
      BY <1>3, <2>2
    <3>2. QED BY <2>1, <2>3, <3>1
  <2>5. ~(e < l)
    <3>1. e < l => Start(e) + 1 <= s
      BY <1>3, <2>2
    <3>2. QED BY <2>1, <2>3, <3>1
  <2>6. f < l /\ l <= e
    BY <2>2, <2>4, <2>5
  <2>7. QED BY <2>2, <2>6 DEF InFunction
<1>5. ASSUME NEW f \in DOMAIN symbols, InFunction(f, l)
      PROVE  Within(f, s)
  <2>1. /\ f \in DOMAIN quads /\ Size(f) = 3
        /\ \E e \in DOMAIN quads : Ends(f, e)
    BY Functions
  <2>2. PICK e \in DOMAIN quads : Ends(f, e) /\ f < l /\ l <= e
    BY <1>5, <2>1 DEF InFunction
  <2>3. Start(f) + 3 <= s /\ s <= Start(e) /\ Start(f) \in Nat
    BY <1>1, <1>3, <2>1, <2>2
  <2>4. Start(f) + 2 <= s
    BY <2>3
  <2>5. QED BY <2>2, <2>3, <2>4 DEF Within
<1>6. QED BY <1>2, <1>4, <1>5 DEF In, InCode

(* Code is entered at FUNCENTER only, and the jump before it leads over it. *)
LEMMA StepIntoCode ==
  ASSUME CompiledInv, Generated, NEW p \in Nat, In(p + 1)
  PROVE  In(p) \/ \E f \in DOMAIN symbols : p = Start(f) + 1
<1>1. PICK f \in DOMAIN symbols, e \in DOMAIN quads :
        Ends(f, e) /\ Start(f) + 2 <= p + 1 /\ p + 1 <= Start(e)
  BY DEF In, Within
<1>2. f \in DOMAIN quads
  BY Functions
<1>3. PICK a \in Nat, b \in Nat : a = Start(f) /\ b = Start(e)
  BY <1>1, <1>2, Starts
<1>4. CASE a + 2 <= p
  <2>1. p <= b
    BY <1>1, <1>3
  <2>2. QED BY <1>1, <1>3, <1>4, <2>1 DEF In, Within
<1>5. CASE ~(a + 2 <= p)
  <2>1. p = a + 1
    BY <1>1, <1>3, <1>5
  <2>2. QED BY <1>3, <2>1
<1>6. QED BY <1>4, <1>5

(* What is behind a function is in the code of the one around it, if any. *)
LEMMA SkipOverCode ==
  ASSUME CompiledInv, Generated, NEW f \in DOMAIN symbols, NEW e, Ends(f, e), In(Start(e) + 1)
  PROVE  In(Start(f) + 1)
<1>1. /\ f \in DOMAIN quads /\ e \in DOMAIN quads /\ f \in Nat /\ e \in Nat /\ f < e
      /\ Size(f) = 3 /\ Size(e) = 1 /\ quads[e].op = "funcend"
  BY Functions
<1>2. /\ ProgramInv
      /\ \A i \in DOMAIN quads : Start(i) \in Nat
      /\ \A i, j \in DOMAIN quads : i < j => Start(i) + Size(i) <= Start(j)
  BY Starts
<1>3. PICK g \in DOMAIN symbols, d \in DOMAIN quads :
        Ends(g, d) /\ Start(g) + 2 <= Start(e) + 1 /\ Start(e) + 1 <= Start(d)
  BY DEF In, Within
<1>4. /\ g \in DOMAIN quads /\ d \in DOMAIN quads /\ g \in Nat /\ d \in Nat /\ g < d
      /\ Size(g) = 3 /\ Size(d) = 1 /\ quads[g].op = "funcstart"
  BY <1>3, Functions
<1>5. PICK sf \in Nat, se \in Nat, sg \in Nat, sd \in Nat :
        /\ sf = Start(f) /\ se = Start(e) /\ sg = Start(g) /\ sd = Start(d)
        /\ sg + 2 <= se + 1 /\ se + 1 <= sd
        /\ f < e => sf + 3 <= se
        /\ d < e => sd + 1 <= se
        /\ e < g => se + 1 <= sg
        /\ g < f => sg + 3 <= sf
  BY <1>1, <1>2, <1>3, <1>4
<1>6. e < d
  <2>1. ~(d < e)
    BY <1>5
  <2>2. d # e
    BY <1>5
  <2>3. QED BY <1>1, <1>4, <2>1, <2>2
<1>7. g < e
  <2>1. ~(e < g)
    BY <1>5
  <2>2. g # e
    BY <1>1, <1>4
  <2>3. QED BY <1>1, <1>4, <2>1, <2>2
<1>8. g < f
  <2>1. SUFFICES ASSUME ~(g < f) PROVE FALSE
    OBVIOUS
  <2>2. f <= g /\ g <= e
    BY <1>1, <1>4, <1>7, <2>1
  <2>3. d <= e
    BY <1>1, <1>2, <1>3, <1>4, <2>2 DEF ProgramInv, Nested
  <2>4. QED BY <1>1, <1>4, <1>6, <2>3
<1>9. sg + 2 <= sf + 1 /\ sf + 1 <= sd
  BY <1>1, <1>5, <1>8
<1>10. QED BY <1>3, <1>5, <1>9 DEF In, Within

JumpCodes == {"jeq", "jne", "jlt", "jle", "jgt", "jge"}

(* What the machine fetches: the jump over a function, or the first         *)
(* instruction of a quad, or one that binds or enters a function.           *)
LEMMA Fetched ==
  ASSUME CompiledInv, Generated, NEW p \in 0 .. currInstruction - 1, NEW c, c = instructions[p + 1]
  PROVE  \/ \E f \in DOMAIN symbols :
              /\ p = Start(f) + 1
              /\ c.opcode = "jne" /\ c.arg1.type = "label_a" /\ c.arg2.type = "label_a"
         \/ \E i \in DOMAIN quads :
              /\ p = Start(i) /\ quads[i].op # "funcstart"
              /\ c.opcode = "funcexit" => quads[i].op = "funcend"
              /\ c.opcode \in JumpCodes => IsJump(i)
         \/ c.opcode \in {"assign", "funcenter"}
<1>1. /\ currInstruction \in Nat /\ CodeInv /\ next = currQuad
      /\ currQuad \in Nat /\ DOMAIN quads = 0 .. currQuad - 1
      /\ \A i \in DOMAIN quads : Start(i) = At(i) /\ Start(i) \in Nat
  BY Starts DEF CompiledInv, CodeInv
<1>2. PICK i \in DOMAIN quads : Start(i) <= p /\ p < Start(i) + Size(i)
  BY Starts
<1>3. PICK a \in Nat : a = Start(i)
  BY <1>1
<1>4. IsCodeOfQuad(i, a)
  BY <1>1, <1>3 DEF CodeInv, Filled
<1>5. CASE quads[i].op = "funcstart"
  <2>1. Size(i) = 3 /\ i \in DOMAIN symbols
    BY <1>1, <1>5 DEF Size, CompiledInv, ProgramInv, Declared
  <2>2. p = a \/ p = a + 1 \/ p = a + 2
    BY <1>2, <1>3, <2>1
  <2>3. CASE p = a
    BY <1>4, <1>5, <2>3 DEF IsCodeOfQuad
  <2>4. CASE p = a + 1
    <3>1. c = instructions[a + 2]
      BY <2>4
    <3>2. QED BY <1>3, <1>4, <1>5, <2>1, <2>4, <3>1 DEF IsCodeOfQuad
  <2>5. CASE p = a + 2
    <3>1. c = instructions[a + 3]
      BY <2>5
    <3>2. QED BY <1>4, <1>5, <3>1 DEF IsCodeOfQuad
  <2>6. QED BY <2>2, <2>3, <2>4, <2>5
<1>6. CASE quads[i].op # "funcstart"
  <2>1. Size(i) = 1
    BY <1>6 DEF Size
  <2>2. p = a
    BY <1>2, <1>3, <2>1
  <2>3. QED BY <1>3, <1>4, <1>6, <2>2 DEF IsCodeOfQuad, JumpCodes
<1>7. QED BY <1>5, <1>6

(* FUNCEXIT is code of its function. *)
LEMMA ExitIsInside ==
  ASSUME CompiledInv, Generated, NEW p \in 0 .. currInstruction - 1,
         instructions[p + 1].opcode = "funcexit"
  PROVE  In(p)
<1>1. PICK e \in DOMAIN quads : p = Start(e) /\ quads[e].op = "funcend"
  <2>1. PICK c : c = instructions[p + 1]
    OBVIOUS
  <2>2. QED BY <2>1, Fetched
<1>2. PICK f \in DOMAIN symbols : Ends(f, e)
  BY <1>1 DEF CompiledInv, ProgramInv, EndsAfter
<1>3. f < e /\ f \in DOMAIN quads /\ Size(f) = 3
  BY <1>2, Functions
<1>4. PICK a \in Nat : a = Start(f) /\ a + 3 <= p
  BY <1>1, <1>3, Starts
<1>5. a + 2 <= p
  BY <1>4
<1>6. QED BY <1>1, <1>2, <1>4, <1>5 DEF In, Within

(* Where a jump leads. *)
LEMMA JumpLands ==
  ASSUME CompiledInv, Generated, NEW p \in 0 .. currInstruction - 1,
         NEW c, c = instructions[p + 1], c.opcode \in JumpCodes
  PROVE  /\ c.result.value \in 0 .. currInstruction
         /\ In(c.result.value) => In(p)
<1>1. /\ currInstruction \in Nat /\ currQuad \in Nat /\ DOMAIN quads = 0 .. currQuad - 1
      /\ IsProgram(quads) /\ ProgramInv /\ Start(currQuad) = currInstruction
      /\ \A i \in DOMAIN quads : /\ Start(i) = At(i) /\ Start(i) \in Nat
                                 /\ Start(i) + Size(i) <= currInstruction
  BY Starts
<1>2. CASE \E f \in DOMAIN symbols : p = Start(f) + 1
  <2>1. PICK f \in DOMAIN symbols : p = Start(f) + 1
    BY <1>2
  <2>2. f \in DOMAIN quads
    BY <2>1, Functions
  <2>3. PICK e \in DOMAIN quads : Ends(f, e) /\ Size(e) = 1 /\ e < next
    <3>1. next = currQuad
      BY DEF CompiledInv, CodeInv
    <3>2. PICK e \in DOMAIN quads : Ends(f, e)
      BY Functions
    <3>3. Size(e) = 1 /\ e < currQuad
      BY <1>1, <3>2, Functions
    <3>4. QED BY <3>1, <3>2, <3>3
  <2>4. PICK a \in Nat, b \in Nat : a = Start(f) /\ a = At(f) /\ b = Start(e) /\ b = At(e)
    BY <1>1, <2>2
  <2>5. p + 1 = a + 2
    BY <2>1, <2>4
  <2>6. c.result.value = b + 1
    BY <2>3, <2>4, <2>5 DEF CompiledInv, CodeInv, Skipped
  <2>7. b + 1 <= currInstruction
    BY <1>1, <2>3, <2>4
  <2>8. b + 1 \in 0 .. currInstruction
    BY <1>1, <2>7
  <2>9. In(b + 1) => In(p)
    BY <2>1, <2>3, <2>4, SkipOverCode
  <2>10. QED BY <2>6, <2>8, <2>9
<1>3. CASE \E i \in DOMAIN quads : p = Start(i) /\ IsJump(i)
  <2>1. PICK i \in DOMAIN quads : p = Start(i) /\ IsJump(i)
    BY <1>3
  <2>2. PICK l \in Nat : l = quads[i].label /\ l <= currQuad /\ (InCode(l) => InCode(i))
    <3>1. PICK l : l = quads[i].label
      OBVIOUS
    <3>2. QED BY <1>1, <2>1, <3>1, OldJump
  <2>3. c.result.value = Start(l)
    <3>1. i \in 0 .. currQuad - 1 /\ quads[i].op \in DOMAIN JumpOpcode
      BY <1>1, <2>1 DEF IsJump
    <3>2. instructions[taddress[i + 1] + 1].result.value = Start(l)
      BY <2>2, <3>1 DEF CompiledInv, GenerationInv, JumpsResolved
    <3>3. taddress[i + 1] = p
      BY <1>1, <2>1 DEF At
    <3>4. QED BY <3>2, <3>3
  <2>4. l \in 0 .. currQuad /\ i \in 0 .. currQuad
    BY <1>1, <2>2
  <2>5. Start(l) \in 0 .. currInstruction
    <3>1. l \in DOMAIN quads \/ l = currQuad
      BY <1>1, <2>4
    <3>2. CASE l \in DOMAIN quads
      <4>1. PICK s \in Nat : s = Start(l) /\ s + Size(l) <= currInstruction
        BY <1>1, <3>2
      <4>2. s \in 0 .. currInstruction
        BY <1>1, <4>1, SizeIs
      <4>3. QED BY <4>1, <4>2
    <3>3. QED BY <1>1, <3>1, <3>2
  <2>6. In(Start(l)) => In(Start(i))
    BY <2>2, <2>4, InIsInCode
  <2>7. QED BY <2>1, <2>3, <2>5, <2>6
<1>4. (\E f \in DOMAIN symbols : p = Start(f) + 1) \/ (\E i \in DOMAIN quads : p = Start(i) /\ IsJump(i))
  BY Fetched DEF JumpCodes
<1>5. QED BY <1>2, <1>3, <1>4

(* No instruction but the jump over a function is followed by code from     *)
(* without.                                                                 *)
LEMMA Passes ==
  ASSUME CompiledInv, Generated, NEW p \in 0 .. currInstruction - 1,
         NEW c, c = instructions[p + 1],
         ~(c.opcode = "jne" /\ c.arg1.type = "label_a" /\ c.arg2.type = "label_a"),
         In(p + 1)
  PROVE  In(p)
<1>1. \A f \in DOMAIN symbols : p # Start(f) + 1
  <2>1. SUFFICES ASSUME NEW f \in DOMAIN symbols, p = Start(f) + 1 PROVE FALSE
    OBVIOUS
  <2>2. f \in DOMAIN quads /\ quads[f].op = "funcstart"
    BY Functions
  <2>3. PICK a \in Nat : a = Start(f) /\ a = At(f)
    BY <2>2, Starts
  <2>4. IsCodeOfQuad(f, a)
    BY <2>2, <2>3, Starts DEF CompiledInv, CodeInv, Filled
  <2>5. p + 1 = a + 2
    BY <2>1, <2>3
  <2>6. QED BY <2>2, <2>4, <2>5 DEF IsCodeOfQuad
<1>2. p \in Nat
  BY Starts
<1>3. QED BY <1>1, <1>2, StepIntoCode

-----------------------------------------------------------------------------
(* The machine. *)

(* avm_translate_operand: values that name functions are addresses. *)
LEMMA TranslatesToCell ==
  ASSUME MachineInv, NEW a, IsOperand(a)
  PROVE  IsCell(Translate(a))
<1>1. CASE a.type \in {"number_a", "label_a"}
  BY <1>1 DEF Translate, Number, IsCell
<1>2. CASE a.type = "userfunc_a"
  BY <1>2 DEF Translate, UserFunc, IsCell, IsOperand
<1>3. CASE a.type = "global_a"
  BY <1>3 DEF Translate, IsOperand, MachineInv
<1>4. CASE a.type = "retval_a"
  BY <1>4 DEF Translate, MachineInv
<1>5. QED BY <1>1, <1>2, <1>3, <1>4 DEF IsOperand

(* Before code runs the machine is as it starts. *)
Idle ==
  /\ pc = 0 /\ returns = << >> /\ steps \in 0 .. MAX_EXEC_STEPS
  /\ stack = [i \in 0 .. MaxQuads |-> Undef] /\ retval_reg = Undef
  /\ phase \in {"parse", "generate", "assert_failed", "overrun", "run"}

(* The idle machine is as MachineInv says. *)
LEMMA IdleIsRight == CompiledInv /\ Idle => MachineInv
<1> SUFFICES ASSUME CompiledInv, Idle
             PROVE  MachineInv
  OBVIOUS
<1>1. currInstruction \in Nat
  BY Addresses DEF CompiledInv, CodeInv, currInstruction
<1>2. pc \in 0 .. currInstruction /\ returns \in Seq(0 .. currInstruction) /\ DOMAIN returns = {}
  BY <1>1 DEF Idle
<1>3. DOMAIN stack = 0 .. MaxQuads /\ stack[0] = Undef
  <2>1. 0 \in 0 .. MaxQuads
    BY CodeGenAssumption
  <2>2. QED BY <2>1 DEF Idle
<1>4. IsCell(Undef)
  BY DEF IsCell, Undef
<1>5. Generated => ~In(pc)
  <2>1. SUFFICES ASSUME Generated, In(0) PROVE FALSE
    BY DEF Idle
  <2>2. PICK f \in DOMAIN symbols : Start(f) + 2 <= 0
    BY <2>1 DEF In, Within
  <2>3. Start(f) \in Nat
    BY <2>1, Functions, Starts
  <2>4. QED BY <2>2, <2>3
<1>6. phase \in {"parse", "generate", "run"} \cup Ended /\ phase # "wild"
  BY DEF Idle, Ended
<1>7. QED BY <1>2, <1>3, <1>4, <1>5, <1>6 DEF MachineInv, Idle

(* The same of the next state. *)
LEMMA IdleIsRightAfter == (CompiledInv /\ Idle => MachineInv)'
BY IdleIsRight, PTL

(* A step of the machine changes no code. *)
LEMMA Steps ==
  ASSUME CompiledInv, MachineInv, UNCHANGED <<program, target>>, phase = "run",
         phase' \in {"run", "halted", "infinite_loop", "error"},
         NEW p \in 0 .. currInstruction, p = pc', In(p) => returns' # << >>,
         steps' \in 0 .. MAX_EXEC_STEPS,
         NEW s, s = stack', DOMAIN s = 0 .. MaxQuads, IsCell(s[0]),
         NEW r, r = retval_reg', IsCell(r),
         NEW t \in Seq(0 .. currInstruction), t = returns',
         \A k \in DOMAIN t : In(t[k]) => k < Len(t)
  PROVE  MachineInv'
<1>1. /\ UNCHANGED <<quads, symbols, instructions, taddress>>
  BY DEF program, target
<1>2. currInstruction' = currInstruction
  BY <1>1 DEF currInstruction
<1>3. \A x : In(x)' <=> In(x)
  BY <1>1 DEF In, Within, Ends, Start, currQuad, currInstruction
<1>4. In(pc)' <=> In(p)
  <2>1. In(pc)' <=> In(p)'
    BY DEF In, Within
  <2>2. QED BY <1>3, <2>1
<1>5. \A k \in DOMAIN t : In(returns[k])' => k < Len(returns')
  <2>1. SUFFICES ASSUME NEW k \in DOMAIN t, In(returns[k])' PROVE k < Len(returns')
    OBVIOUS
  <2>2. PICK x : x = t[k]
    OBVIOUS
  <2>3. In(x)'
    BY <2>1, <2>2 DEF In, Within
  <2>4. QED BY <1>3, <2>2, <2>3
<1>6. IsCell(stack[0])' /\ IsCell(retval_reg)'
  BY <1>2 DEF IsCell
<1>7. Generated'
  BY DEF Generated
<1>8. phase' \in {"parse", "generate", "run"} \cup Ended /\ phase' # "wild"
  BY DEF Ended
<1>9. QED BY <1>2, <1>4, <1>5, <1>6, <1>7, <1>8 DEF MachineInv

(* Steps that leave program, code and machine. *)
LEMMA MachineKept ==
  ASSUME CompiledInv, MachineInv, UNCHANGED <<program, target, machine, phase>>
  PROVE  MachineInv'
<1>1. /\ UNCHANGED <<quads, symbols, instructions, taddress, pc, steps, stack, retval_reg, returns>>
  BY DEF program, target, machine
<1>2. currInstruction' = currInstruction /\ (Generated' <=> Generated)
  BY <1>1 DEF currInstruction, Generated
<1>3. /\ In(pc)' <=> In(pc)
      /\ \A k : In(returns[k])' <=> In(returns[k])
  BY <1>1 DEF In, Within, Ends, Start, currQuad, currInstruction
<1>4. (IsCell(stack[0])' <=> IsCell(stack[0])) /\ (IsCell(retval_reg)' <=> IsCell(retval_reg))
  BY <1>1 DEF IsCell, currInstruction
<1>5. QED BY <1>1, <1>2, <1>3, <1>4 DEF MachineInv

(* What holds of an instruction that runs. *)
LEMMA RunningFacts ==
  ASSUME CompiledInv, MachineInv, Running
  PROVE  /\ Generated /\ phase = "run" /\ currInstruction \in Nat
         /\ pc \in 0 .. currInstruction - 1 /\ pc + 1 \in 0 .. currInstruction
         /\ steps + 1 \in 0 .. MAX_EXEC_STEPS
         /\ returns \in Seq(0 .. currInstruction)
         /\ DOMAIN stack = 0 .. MaxQuads /\ IsCell(stack[0]) /\ IsCell(retval_reg)
         /\ IsOperand(I.arg1) /\ IsOperand(I.arg2)
         /\ In(pc) => returns # << >>
         /\ \A k \in DOMAIN returns : In(returns[k]) => k < Len(returns)
<1>1. Generated /\ phase = "run"
  BY DEF Running, Generated
<1>2. PICK m \in Nat : m = currInstruction /\ DOMAIN instructions = 1 .. m
  BY <1>1, Starts
<1>3. PICK p \in 0 .. m : p = pc /\ p < m
  BY <1>2 DEF MachineInv, Running
<1>4. p \in 0 .. m - 1 /\ p + 1 \in 0 .. m /\ p + 1 \in 1 .. m
  BY <1>3
<1>5. IsOperand(I.arg1) /\ IsOperand(I.arg2)
  BY <1>2, <1>3, <1>4 DEF CompiledInv, CodeInv, Operands, I
<1>6. steps + 1 \in 0 .. MAX_EXEC_STEPS
  BY AvmRunAssumption DEF MachineInv, Running
<1>7. QED BY <1>1, <1>2, <1>3, <1>4, <1>5, <1>6 DEF MachineInv

(* A jump runs. *)
LEMMA JumpRuns ==
  ASSUME CompiledInv, MachineInv, ExecuteJump
  PROVE  MachineInv'
<1>1. /\ Running /\ I.opcode \in JumpCodes
      /\ pc' = IF Taken(Translate(I.arg1), Translate(I.arg2)) THEN I.result.value ELSE pc + 1
      /\ steps' = steps + 1
      /\ UNCHANGED <<program, phase, target, stack, retval_reg, returns>>
  BY DEF ExecuteJump, JumpCodes, Count
<1>2. PICK p \in 0 .. currInstruction - 1, c \in {I} : p = pc /\ c = I /\ c = instructions[p + 1]
  BY <1>1, RunningFacts DEF I
<1>3. PICK q : q = pc'
  OBVIOUS
<1>4. q \in 0 .. currInstruction /\ (In(q) => In(p))
  <2>1. CASE q = c.result.value
    BY <1>1, <1>2, <2>1, RunningFacts, JumpLands
  <2>2. CASE ~Taken(Translate(I.arg1), Translate(I.arg2))
    <3>1. q = p + 1 /\ ~(c.opcode = "jne" /\ Unconditional)
      BY <1>1, <1>2, <1>3, <2>2 DEF Taken
    <3>2. ~(c.opcode = "jne" /\ c.arg1.type = "label_a" /\ c.arg2.type = "label_a")
      BY <1>2, <3>1 DEF Unconditional
    <3>3. In(p + 1) => In(p)
      BY <1>1, <1>2, <3>2, RunningFacts, Passes
    <3>4. QED BY <1>1, <1>2, <3>1, <3>3, RunningFacts
  <2>3. QED BY <1>1, <1>2, <1>3, <2>1, <2>2
<1>5. PICK s, r, t : s = stack' /\ r = retval_reg' /\ t = returns'
  OBVIOUS
<1>6. /\ phase = "run" /\ phase' = "run" /\ (In(q) => returns' # << >>) /\ steps' \in 0 .. MAX_EXEC_STEPS
      /\ DOMAIN s = 0 .. MaxQuads /\ IsCell(s[0]) /\ IsCell(r)
      /\ t \in Seq(0 .. currInstruction)
      /\ \A k \in DOMAIN t : In(t[k]) => k < Len(t)
  BY <1>1, <1>2, <1>4, <1>5, RunningFacts
<1>7. UNCHANGED <<program, target>>
  BY <1>1
<1>8. QED BY <1>3, <1>4, <1>5, <1>6, <1>7, Steps

(* The elements of a sequence are of its set. *)
LEMMA ElementIn ==
  ASSUME NEW S, NEW t \in Seq(S), NEW k \in DOMAIN t
  PROVE  t[k] \in S
OBVIOUS

(* Steps to the next instruction: its values are cells. *)
LEMMA NextRuns ==
  ASSUME CompiledInv, MachineInv, Running, I.opcode # "jne", UNCHANGED <<program, phase, target, returns>>,
         pc' = pc + 1, steps' = steps + 1, DOMAIN stack' = DOMAIN stack,
         NEW s, s = stack', IsCell(s[0]), NEW r, r = retval_reg', IsCell(r)
  PROVE  MachineInv'
<1>1. PICK p \in 0 .. currInstruction - 1, c \in {I} : p = pc /\ c = I /\ c = instructions[p + 1]
  BY RunningFacts DEF I
<1>2. PICK q : q = p + 1
  OBVIOUS
<1>3. q = pc' /\ q \in 0 .. currInstruction /\ (In(q) => In(p))
  <2>1. Generated /\ c.opcode # "jne"
    BY <1>1, RunningFacts
  <2>2. In(p + 1) => In(p)
    BY <1>1, <2>1, Passes
  <2>3. QED BY <1>1, <1>2, <2>2, RunningFacts
<1>4. PICK t : t = returns'
  OBVIOUS
<1>5. /\ phase = "run" /\ phase' = "run" /\ (In(q) => returns' # << >>)
      /\ steps' \in 0 .. MAX_EXEC_STEPS /\ DOMAIN s = 0 .. MaxQuads
      /\ t \in Seq(0 .. currInstruction)
      /\ \A k \in DOMAIN t : In(t[k]) => k < Len(t)
  BY <1>1, <1>3, <1>4, RunningFacts
<1>6. UNCHANGED <<program, target>>
  OBVIOUS
<1>7. QED BY <1>3, <1>4, <1>5, <1>6, Steps

(* A cell is written, the variable's or another function's. *)
LEMMA Stored ==
  ASSUME MachineInv, NEW v, IsCell(v), NEW a, NEW s, s = [stack EXCEPT ![a] = v]
  PROVE  DOMAIN s = DOMAIN stack /\ IsCell(s[0])
<1>1. DOMAIN stack = 0 .. MaxQuads /\ 0 \in 0 .. MaxQuads /\ IsCell(stack[0])
  BY CodeGenAssumption DEF MachineInv
<1>2. DOMAIN s = DOMAIN stack
  OBVIOUS
<1>3. s[0] = v \/ s[0] = stack[0]
  BY <1>1
<1>4. QED BY <1>1, <1>2, <1>3

(* An assignment runs. *)
LEMMA AssignRuns ==
  ASSUME CompiledInv, MachineInv, ExecuteAssign
  PROVE  MachineInv'
<1>1. /\ Running /\ I.opcode = "assign" /\ pc' = pc + 1 /\ steps' = steps + 1
      /\ UNCHANGED <<program, phase, target, returns>>
  BY DEF ExecuteAssign, Count
<1>2. PICK v : v = Translate(I.arg1) /\ IsCell(v)
  BY <1>1, RunningFacts, TranslatesToCell
<1>3. PICK s, r : s = stack' /\ r = retval_reg'
  OBVIOUS
<1>4. IsCell(stack[0]) /\ IsCell(retval_reg)
  BY <1>1, RunningFacts
<1>5. DOMAIN s = DOMAIN stack /\ IsCell(s[0]) /\ IsCell(r)
  <2>1. CASE I.result.type = "retval_a"
    BY <1>2, <1>3, <1>4, <2>1 DEF ExecuteAssign
  <2>2. CASE I.result.type # "retval_a"
    <3>1. s = [stack EXCEPT ![I.result.value] = v] /\ r = retval_reg
      BY <1>2, <1>3, <2>2 DEF ExecuteAssign, Assigned
    <3>2. QED BY <1>2, <1>4, <3>1, Stored
  <2>3. QED BY <2>1, <2>2
<1>6. I.opcode # "jne" /\ DOMAIN stack' = DOMAIN stack
  BY <1>1, <1>3, <1>5
<1>7. QED BY <1>1, <1>3, <1>5, <1>6, NextRuns

(* PUSHARG and FUNCENTER run. *)
LEMMA RecordRuns ==
  ASSUME CompiledInv, MachineInv, ExecuteRecord
  PROVE  MachineInv'
<1>1. /\ Running /\ I.opcode # "jne" /\ pc' = pc + 1 /\ steps' = steps + 1
      /\ UNCHANGED <<program, phase, target, returns>> /\ UNCHANGED <<stack, retval_reg>>
  BY DEF ExecuteRecord, Count
<1>2. PICK s, r : s = stack' /\ r = retval_reg' /\ IsCell(s[0]) /\ IsCell(r)
  BY <1>1, RunningFacts
<1>3. QED BY <1>1, <1>2, NextRuns

(* GETRETVAL runs. *)
LEMMA GetRetRuns ==
  ASSUME CompiledInv, MachineInv, ExecuteGetRet
  PROVE  MachineInv'
<1>1. /\ Running /\ I.opcode # "jne" /\ pc' = pc + 1 /\ steps' = steps + 1
      /\ UNCHANGED <<program, phase, target, returns>> /\ UNCHANGED retval_reg
  BY DEF ExecuteGetRet, Count
<1>2. PICK s, r : s = stack' /\ r = retval_reg'
  OBVIOUS
<1>3. IsCell(r) /\ s = [stack EXCEPT ![I.result.value] = r]
  BY <1>1, <1>2, RunningFacts DEF ExecuteGetRet, Assigned
<1>4. DOMAIN s = DOMAIN stack /\ IsCell(s[0])
  BY <1>3, Stored
<1>5. DOMAIN stack' = DOMAIN stack
  BY <1>2, <1>4
<1>6. QED BY <1>1, <1>2, <1>3, <1>4, <1>5, NextRuns

(* A call remembers where to return to, which is code of a function only    *)
(* where the call is.                                                       *)
LEMMA CallRuns ==
  ASSUME CompiledInv, MachineInv, ExecuteCall
  PROVE  MachineInv'
<1>1. Running /\ I.opcode # "jne" /\ UNCHANGED <<program, target, stack, retval_reg>>
  BY DEF ExecuteCall
<1>2. PICK p \in 0 .. currInstruction - 1, c \in {I} : p = pc /\ c = I /\ c = instructions[p + 1]
  BY <1>1, RunningFacts DEF I
<1>3. PICK m \in Nat : m = currInstruction
  BY <1>1, RunningFacts
<1>4. PICK func : func = Translate(I.arg1) /\ IsCell(func)
  BY <1>1, RunningFacts, TranslatesToCell
<1>5. PICK s, r, t, q, o : s = stack' /\ r = retval_reg' /\ t = returns' /\ q = pc' /\ o = returns
  OBVIOUS
<1>6. /\ UNCHANGED <<program, target>> /\ phase = "run"
      /\ DOMAIN s = 0 .. MaxQuads /\ IsCell(s[0]) /\ IsCell(r)
      /\ o \in Seq(0 .. m)
      /\ \A k \in DOMAIN o : In(o[k]) => k < Len(o)
      /\ In(p) => o # << >>
  BY <1>1, <1>2, <1>3, <1>5, RunningFacts
<1>7. CASE func.type = "userfunc"
  <2>1. /\ t = <<p + 1>> \o o /\ q = func.value /\ steps' = steps + 1 /\ phase' = "run"
    BY <1>2, <1>4, <1>5, <1>6, <1>7 DEF ExecuteCall, Count
  <2>2. q \in 0 .. m
    BY <1>3, <1>4, <1>7, <2>1 DEF IsCell
  <2>3. PICK b \in 0 .. m : b = p + 1
    BY <1>2, <1>3
  <2>4. /\ t \in Seq(0 .. m) /\ t[1] = b /\ 1 \in DOMAIN t
        /\ \A k \in DOMAIN t : k = 1 \/ (k \in Nat /\ k > 1 /\ k - 1 \in DOMAIN o /\ t[k] = o[k - 1])
    BY <1>6, <2>1, <2>3, InFront
  <2>5. Len(o) \in Nat /\ Len(t) = Len(o) + 1
    <3>1. <<b>> \in Seq(0 .. m) /\ Len(<<b>>) = 1
      OBVIOUS
    <3>2. QED BY <1>6, <2>1, <2>3, <3>1, ConcatProperties, LenProperties
  <2>6. ASSUME NEW k \in DOMAIN t, In(t[k])
        PROVE  k < Len(t)
    <3>1. CASE k = 1
      <4>1. In(p + 1)
        BY <2>3, <2>4, <2>6, <3>1
      <4>2. In(p)
        BY <1>1, <1>2, <4>1, RunningFacts, Passes
      <4>3. Len(o) # 0
        BY <1>6, <4>2
      <4>4. QED BY <2>5, <3>1, <4>3
    <3>2. CASE k # 1
      <4>1. k \in Nat /\ k - 1 \in DOMAIN o /\ In(o[k - 1])
        BY <2>4, <2>6, <3>2
      <4>2. k - 1 < Len(o)
        BY <1>6, <4>1
      <4>3. QED BY <2>5, <4>1, <4>2
    <3>3. QED BY <3>1, <3>2
  <2>7. t # << >>
    BY <2>4
  <2>8. /\ q \in 0 .. currInstruction /\ t \in Seq(0 .. currInstruction)
        /\ steps' \in 0 .. MAX_EXEC_STEPS /\ (In(q) => returns' # << >>)
    BY <1>1, <1>3, <1>5, <2>1, <2>2, <2>4, <2>7, RunningFacts
  <2>9. QED BY <1>5, <1>6, <2>1, <2>6, <2>8, Steps
<1>8. CASE func.type # "userfunc"
  <2>1. phase' = "error" /\ UNCHANGED <<returns, pc, steps>>
    BY <1>4, <1>8 DEF ExecuteCall
  <2>2. q = p /\ t = o /\ steps' = steps
    BY <1>2, <1>5, <2>1
  <2>3. q \in 0 .. currInstruction
    <3>1. p \in 0 .. m - 1
      BY <1>2, <1>3
    <3>2. q \in 0 .. m
      BY <2>2, <3>1, <1>3
    <3>3. QED BY <1>3, <3>2
  <2>4. t \in Seq(0 .. currInstruction) /\ \A k \in DOMAIN t : In(t[k]) => k < Len(t)
    BY <1>3, <1>6, <2>2
  <2>5. In(q) => returns' # << >>
    BY <1>5, <1>6, <2>2
  <2>6. steps' \in 0 .. MAX_EXEC_STEPS
    BY <2>2 DEF MachineInv
  <2>7. QED BY <1>5, <1>6, <2>1, <2>3, <2>4, <2>5, <2>6, Steps
<1>9. QED BY <1>7, <1>8

(* FUNCEXIT runs, inside of a call, and takes the machine back to it. *)
LEMMA FuncExitRuns ==
  ASSUME CompiledInv, MachineInv, ExecuteFuncExit
  PROVE  MachineInv'
<1>1. /\ Running /\ I.opcode = "funcexit" /\ steps' = steps + 1
      /\ UNCHANGED <<program, target, stack, retval_reg>>
  BY DEF ExecuteFuncExit, Count
<1>2. PICK p \in 0 .. currInstruction - 1 : p = pc /\ instructions[p + 1].opcode = "funcexit"
  BY <1>1, RunningFacts DEF I
<1>3. returns # << >>
  BY <1>1, <1>2, RunningFacts, ExitIsInside
<1>4. PICK s, r, t, q, o : s = stack' /\ r = retval_reg' /\ t = returns' /\ q = pc' /\ o = returns
  OBVIOUS
<1>5. phase = "run" /\ q = Head(o) /\ t = Tail(o) /\ phase' = "run"
  BY <1>1, <1>3, <1>4, RunningFacts DEF ExecuteFuncExit
<1>6. /\ UNCHANGED <<program, target>> /\ steps' \in 0 .. MAX_EXEC_STEPS
      /\ DOMAIN s = 0 .. MaxQuads /\ IsCell(s[0]) /\ IsCell(r)
      /\ o \in Seq(0 .. currInstruction) /\ o # << >>
      /\ \A k \in DOMAIN o : In(o[k]) => k < Len(o)
  BY <1>1, <1>3, <1>4, RunningFacts
<1>7. /\ t \in Seq(0 .. currInstruction) /\ Head(o) = o[1] /\ 1 \in DOMAIN o
      /\ Len(o) \in Nat /\ Len(t) \in Nat /\ Len(t) = Len(o) - 1
      /\ \A k \in DOMAIN t : k \in Nat /\ 0 < k /\ k + 1 \in DOMAIN o /\ t[k] = o[k + 1]
  BY <1>5, <1>6, Behind
<1>8. q \in 0 .. currInstruction
  <2>1. o[1] \in 0 .. currInstruction
    BY <1>6, <1>7, ElementIn
  <2>2. QED BY <1>5, <1>7, <2>1
<1>9. In(q) => returns' # << >>
  <2>1. SUFFICES ASSUME In(q) PROVE t # << >>
    BY <1>4
  <2>2. 1 < Len(o)
    BY <1>5, <1>6, <1>7, <2>1
  <2>3. Len(t) # 0
    BY <1>7, <2>2
  <2>4. QED BY <2>3
<1>10. ASSUME NEW k \in DOMAIN t, In(t[k])
       PROVE  k < Len(t)
  <2>1. k + 1 < Len(o) /\ k \in Nat
    BY <1>6, <1>7, <1>10
  <2>2. QED BY <1>7, <2>1
<1>11. QED BY <1>4, <1>5, <1>6, <1>7, <1>8, <1>9, <1>10, Steps

(* The machine stops. *)
LEMMA EndRuns ==
  ASSUME CompiledInv, MachineInv, InfiniteLoop \/ Halt
  PROVE  MachineInv'
<1>1. /\ phase = "run" /\ phase' \in {"infinite_loop", "halted"} /\ UNCHANGED <<program, target>>
      /\ UNCHANGED <<pc, steps, stack, retval_reg, returns>> /\ Generated
  BY DEF InfiniteLoop, Halt, machine, Generated
<1>2. PICK s, r, t, q : s = stack' /\ r = retval_reg' /\ t = returns' /\ q = pc'
  OBVIOUS
<1>3. /\ q \in 0 .. currInstruction /\ t \in Seq(0 .. currInstruction)
      /\ steps' \in 0 .. MAX_EXEC_STEPS /\ (In(q) => returns' # << >>)
      /\ DOMAIN s = 0 .. MaxQuads /\ IsCell(s[0]) /\ IsCell(r)
      /\ \A k \in DOMAIN t : In(t[k]) => k < Len(t)
  BY <1>1, <1>2 DEF MachineInv
<1>4. QED BY <1>1, <1>2, <1>3, Steps

(* Every step keeps what is said of the machine. *)
LEMMA MachineInvKept ==
  ASSUME CompiledInv, MachineInv, [Next]_vars
  PROVE  MachineInv'
<1>1. CASE Compile
  <2>1. /\ UNCHANGED machine /\ ~Generated
        /\ phase' \in {"parse", "generate", "assert_failed", "overrun", "run"}
    BY <1>1 DEF Compile, CodeGenNext, Write, WriteAssign, WriteIf, WriteWhile, WriteTest, WriteEnd,
       WriteFunction, WriteFunctionEnd, WriteCall, WriteReturn, WriteDone, Room,
       GenerateTargetCode, GenerateSimple, GenerateRelational, GenerateFuncStart,
       GenerateFuncEnd, AssertFails, Overrun, PatchIncompleteJumps, Generating, Generated
  <2>2. Idle'
    BY <2>1 DEF Idle, MachineInv, machine
  <2>3. CompiledInv'
    BY CompiledInvKept
  <2>4. QED BY <2>2, <2>3, IdleIsRightAfter
<1>2. CASE Execute
  BY <1>2, JumpRuns, AssignRuns, RecordRuns, CallRuns, FuncExitRuns, GetRetRuns, EndRuns
     DEF Execute
<1>3. CASE UNCHANGED vars
  <2>1. UNCHANGED <<program, target, machine, phase>>
    BY <1>3 DEF vars
  <2>2. QED BY <2>1, MachineKept
<1>4. QED BY <1>1, <1>2, <1>3 DEF Next

(* It holds at the start. *)
LEMMA MachineInvInit ==
  ASSUME Init
  PROVE  MachineInv
<1>1. Idle
  BY AvmRunAssumption DEF Init, CodeGenInit, Idle
<1>2. QED BY <1>1, CompiledInvInit, IdleIsRight

RunInv == CompiledInv /\ MachineInv

(* The inductive invariant: of the compiler and the machine. *)
LEMMA RunInvKept == RunInv /\ [Next]_vars => RunInv'
BY CompiledInvKept, MachineInvKept DEF RunInv

(* It holds at the start. *)
LEMMA RunInvInit == Init => RunInv
BY CompiledInvInit, MachineInvInit DEF RunInv

(* generate_FUNCSTART, generate_FUNCEND and the jumps: in every program     *)
(* that the generator accepts, code is entered by calls only, and no        *)
(* FUNCEXIT runs outside of one.                                            *)
THEOREM CodeIsEnteredByCalls == Spec => []EnteredByCallsOnly
<1>1. RunInv => EnteredByCallsOnly
  BY DEF RunInv, MachineInv, EnteredByCallsOnly
<1>2. QED BY <1>1, RunInvInit, RunInvKept, PTL DEF Spec

(* vm_run: program counters and addresses stay within the code, and only    *)
(* the known ends are reached.                                              *)
THEOREM RunTypeCorrect == Spec => []TypeOK
<1>1. RunInv => TypeOK
  <2>1. SUFFICES ASSUME RunInv PROVE TypeOK
    OBVIOUS
  <2>2. /\ next \in 0 .. currQuad /\ Len(taddress) = next /\ currInstruction <= MaxInstructions
        /\ \A j \in ijumps : j[1] < currInstruction /\ j[2] \in 0 .. MaxQuads
    BY <2>1 DEF RunInv, CompiledInv, CodeInv, Ordered
  <2>3. phase \in {"parse", "generate", "run"} \cup Ended
    BY <2>1 DEF RunInv, MachineInv
  <2>4. pc \in 0 .. currInstruction /\ steps \in 0 .. MAX_EXEC_STEPS
    BY <2>1 DEF RunInv, MachineInv
  <2>5. ASSUME NEW k \in DOMAIN returns PROVE returns[k] \in 0 .. currInstruction
    <3>1. PICK t, m : t = returns /\ m = currInstruction /\ t \in Seq(0 .. m)
      BY <2>1 DEF RunInv, MachineInv
    <3>2. k \in DOMAIN t
      BY <2>5, <3>1
    <3>3. t[k] \in 0 .. m
      BY <3>1, <3>2, ElementIn
    <3>4. QED BY <3>1, <3>3
  <2>6. QED BY <2>2, <2>3, <2>4, <2>5 DEF TypeOK
<1>2. QED BY <1>1, RunInvInit, RunInvKept, PTL DEF Spec

-----------------------------------------------------------------------------
(* What the code means. *)

(* The quads the parser leaves: what is assigned, returned and called is a  *)
(* value, a test compares the variable with a number.                       *)
Tests == DOMAIN JumpOpcode \ {"jump"}
Shaped(q) ==
  /\ q.op \in DOMAIN OpcodeOf \cup DOMAIN JumpOpcode \cup {"funcstart", "funcend"}
  /\ q.op \in {"assign", "ret", "call"} => q.arg1.type \in {"constnum", "var", "programfunc"}
  /\ q.op \in {"assign", "getretval"} => q.result = Var
  /\ q.op \in Tests => q.arg1 = Var /\ q.arg2.type = "constnum"
  /\ q.op = "jump" => q.arg1 = NoExpr /\ q.arg2 = NoExpr
WellFormed(q) ==
  /\ IsProgram(q)
  /\ \A i \in DOMAIN q : IsQuad(q[i]) /\ "result" \in DOMAIN q[i] /\ Shaped(q[i])
ShapeInv == WellFormed(quads) /\ (phase # "parse" => quads # << >>)

(* Operand a of the code of quad i stands for e; a name stands for its      *)
(* function, or one that has taken the name since.                          *)
Reaches(i, e, a) ==
  /\ e.type = "constnum" => a = Arg("number_a", e.value)
  /\ e.type = "var" => a = Global(0)
  /\ e.type = "none" => a = Label(0)
  /\ e.type = "programfunc" =>
       \E g \in DOMAIN symbols : /\ e.value <= g /\ g < i
                                 /\ symbols[g].name = symbols[e.value].name
                                 /\ a = Arg("userfunc_a", At(g) + 2)

(* The names that are known are those of functions, the last ones first.    *)
EntriesInv ==
  /\ \A k \in DOMAIN userfuncs : \E g \in DOMAIN symbols :
       g < next /\ userfuncs[k].name = symbols[g].name /\ userfuncs[k].address = At(g) + 2
  /\ \A j, k \in DOMAIN userfuncs : j < k => userfuncs[j].address > userfuncs[k].address

(* Instruction c, the first of quad i, does what the quad says. *)
Does(i, c) ==
  /\ quads[i].op \in DOMAIN OpcodeOf => c.opcode = OpcodeOf[quads[i].op]
  /\ quads[i].op \in DOMAIN JumpOpcode =>
       /\ c.opcode = JumpOpcode[quads[i].op]
       /\ Reaches(i, quads[i].arg1, c.arg1) /\ Reaches(i, quads[i].arg2, c.arg2)
  /\ quads[i].op \in {"assign", "ret", "call"} => Reaches(i, quads[i].arg1, c.arg1)
  /\ quads[i].op \in {"assign", "getretval"} => c.result = Global(0)
  /\ quads[i].op = "ret" => c.result = RetVal
  /\ quads[i].op = "funcstart" => c.result = Global(Offset(i))
DoesInv == \A i \in 0 .. next - 1 : Does(i, instructions[At(i) + 1])

(* The machine's values are numbers and functions, it returns to quads, and *)
(* what a call has returned is in the register.                             *)
IsValue(c) ==
  \/ c = Undef \/ c = Number(c.value)
  \/ \E f \in DOMAIN symbols : c = UserFunc(Start(f) + 2)
IsPlace(p) == \E i \in 0 .. currQuad : p = Start(i)
ValuesInv ==
  /\ ~Generated => result = None
  /\ Generated => /\ IsValue(stack[0]) /\ IsValue(retval_reg)
                  /\ result \in {None, retval_reg}
                  /\ \A k \in DOMAIN returns : IsPlace(returns[k])
-----------------------------------------------------------------------------
(* The quads that the parser leaves. *)

(* emit appends a quad of the right shape. *)
LEMMA EmitWellFormed ==
  ASSUME NEW q, WellFormed(q), NEW x, IsQuad(x), "result" \in DOMAIN x, Shaped(x), x.label \in Nat
  PROVE  WellFormed(Emit(q, x)) /\ NextQuad(Emit(q, x)) = NextQuad(q) + 1 /\ NextQuad(q) \in Nat
<1>1. IsProgram(q) /\ \A i \in DOMAIN q : IsQuad(q[i])
  BY DEF WellFormed
<1>2. PICK e : e = Emit(q, x)
  OBVIOUS
<1>3. IsProgram(e) /\ NextQuad(e) = NextQuad(q) + 1
  BY <1>1, <1>2, EmitProgram DEF IsQuad
<1>4. /\ \A i \in DOMAIN q : e[i] = q[i]
      /\ \A i \in DOMAIN e : IsQuad(e[i])
      /\ \A i \in DOMAIN e : i \in DOMAIN q \/ e[i] = x
  BY <1>1, <1>2, EmitFacts
<1>5. \A i \in DOMAIN e : "result" \in DOMAIN e[i] /\ Shaped(e[i])
  BY <1>4 DEF WellFormed
<1>6. NextQuad(q) \in Nat
  BY <1>1 DEF IsProgram
<1>7. QED BY <1>2, <1>3, <1>4, <1>5, <1>6 DEF WellFormed

(* patchlabel changes labels only. *)
LEMMA LabelledWellFormed ==
  ASSUME NEW q, WellFormed(q), NEW S, NEW l \in Nat
  PROVE  WellFormed(Labelled(q, S, l)) /\ NextQuad(Labelled(q, S, l)) = NextQuad(q)
<1>1. PICK e : e = Labelled(q, S, l)
  OBVIOUS
<1>2. IsProgram(e) /\ NextQuad(e) = NextQuad(q)
  BY <1>1, LabelledProgram DEF WellFormed
<1>3. DOMAIN e = DOMAIN q /\ \A i \in DOMAIN q : IsQuad(e[i]) /\ SameButLabel(e[i], q[i])
  BY <1>1, LabelledFacts DEF WellFormed
<1>4. ASSUME NEW i \in DOMAIN q
      PROVE  "result" \in DOMAIN e[i] /\ e[i].result = q[i].result
  <2>1. PICK x, y : x = q[i] /\ y = [x EXCEPT !.label = l]
    OBVIOUS
  <2>2. e[i] = IF i \in S THEN y ELSE x
    BY <1>1, <2>1 DEF Labelled
  <2>3. "result" \in DOMAIN x
    BY <2>1 DEF WellFormed
  <2>4. "result" \in DOMAIN y /\ y.result = x.result
    BY <2>1, <2>3
  <2>5. QED BY <2>1, <2>2, <2>3, <2>4
<1>5. ASSUME NEW i \in DOMAIN q
      PROVE  Shaped(e[i])
  <2>1. PICK x, y : x = q[i] /\ y = e[i]
    OBVIOUS
  <2>2. y.op = x.op /\ y.arg1 = x.arg1 /\ y.arg2 = x.arg2 /\ y.result = x.result
    BY <1>3, <1>4, <2>1 DEF SameButLabel
  <2>3. Shaped(x)
    BY <2>1 DEF WellFormed
  <2>4. QED BY <2>1, <2>2, <2>3 DEF Shaped
<1>6. QED BY <1>1, <1>2, <1>3, <1>4, <1>5 DEF WellFormed

(* The opcodes that quads have. *)
LEMMA Opcodes ==
  /\ DOMAIN OpcodeOf = {"assign", "param", "call", "getretval", "ret"}
  /\ Tests = {"if_eq", "if_noteq", "if_greater", "if_greatereq", "if_less", "if_lesseq"}
  /\ DOMAIN JumpOpcode = Tests \cup {"jump"} /\ Relops \subseteq Tests
BY CodeGenAssumption DEF OpcodeOf, JumpOpcode, Tests

(* What is written has the shape. *)
LEMMA QuadShaped ==
  ASSUME NEW op, NEW a, NEW b, NEW r, NEW l \in Nat,
         op \in DOMAIN OpcodeOf \cup DOMAIN JumpOpcode \cup {"funcstart", "funcend"},
         op \in {"assign", "ret", "call"} => a.type \in {"constnum", "var", "programfunc"},
         op \in {"assign", "getretval"} => r = Var,
         op \in Tests => a = Var /\ b.type = "constnum",
         op = "jump" => a = NoExpr /\ b = NoExpr
  PROVE  LET x == Quad(op, a, b, r, l) IN
         IsQuad(x) /\ "result" \in DOMAIN x /\ Shaped(x) /\ x.label \in Nat
<1>1. PICK x : x = Quad(op, a, b, r, l)
  OBVIOUS
<1>2. /\ DOMAIN x = {"op", "arg1", "arg2", "result", "label"}
      /\ x.op = op /\ x.arg1 = a /\ x.arg2 = b /\ x.result = r /\ x.label = l
  BY <1>1 DEF Quad
<1>3. IsQuad(x) /\ "result" \in DOMAIN x /\ x.label \in Nat
  BY <1>2 DEF IsQuad
<1>4. Shaped(x)
  BY <1>2 DEF Shaped
<1>5. QED BY <1>1, <1>3, <1>4

(* Three kinds of quads, and a jump behind the first of them. *)
LEMMA OnlyShaped ==
  ASSUME NEW op \in {"param", "call", "ret", "funcend"}, NEW a,
         op \in {"ret", "call"} => a.type \in {"constnum", "var", "programfunc"}
  PROVE  LET x == Only(op, a) IN
         IsQuad(x) /\ "result" \in DOMAIN x /\ Shaped(x) /\ x.label \in Nat
<1>1. /\ op \in DOMAIN OpcodeOf \cup DOMAIN JumpOpcode \cup {"funcstart", "funcend"}
      /\ op \notin Tests /\ op \notin {"assign", "getretval", "jump"}
  BY Opcodes
<1>2. QED BY <1>1, QuadShaped DEF Only

(* A jump that waits for its place has the shape of its operator. *)
LEMMA JumpShaped ==
  ASSUME NEW l \in Nat
  PROVE  LET x == Jump(l) IN
         IsQuad(x) /\ "result" \in DOMAIN x /\ Shaped(x) /\ x.label \in Nat
<1>1. "jump" \in DOMAIN JumpOpcode /\ "jump" \notin Tests
  BY Opcodes
<1>2. QED BY <1>1, QuadShaped DEF Jump

(* Values that are written. *)
LEMMA SourceTypes ==
  /\ \A e \in Sources : e.type \in {"constnum", "var", "programfunc"}
  /\ \A f : ProgramFunc(f).type = "programfunc"
  /\ \A n : ConstNum(n).type = "constnum"
  /\ Var.type = "var" /\ NoExpr.type = "none"
BY DEF Sources, ConstNum, ProgramFunc, Var, NoExpr

(* Every program that is written keeps the shape. *)
LEMMA ShapeWritten ==
  ASSUME GenerationInv, ShapeInv, Write
  PROVE  ShapeInv'
<1>1. WellFormed(quads) /\ currQuad \in Nat /\ phase = "parse"
  BY DEF ShapeInv, WellFormed, IsProgram, currQuad, Write, WriteAssign, WriteIf, WriteWhile, WriteTest,
     WriteEnd, WriteFunction, WriteFunctionEnd, WriteCall, WriteReturn, WriteDone, Room
<1>2. SUFFICES WellFormed(quads') /\ (phase' # "parse" => quads' # << >>)
  BY DEF ShapeInv
<1>3. CASE WriteAssign
  <2>1. PICK e \in Sources : quads' = Emit(quads, Quad("assign", e, NoExpr, Var, 0)) /\ phase' = phase
    BY <1>3 DEF WriteAssign
  <2>2. "assign" \in DOMAIN OpcodeOf /\ "assign" \notin Tests
    BY Opcodes
  <2>3. PICK x : /\ x = Quad("assign", e, NoExpr, Var, 0)
                 /\ IsQuad(x) /\ "result" \in DOMAIN x /\ Shaped(x) /\ x.label \in Nat
    BY <2>2, SourceTypes, QuadShaped
  <2>4. QED BY <1>1, <2>1, <2>3, EmitWellFormed
<1>4. CASE WriteIf \/ WriteWhile
  <2>1. PICK op \in Relops :
          /\ quads' = Emit(Emit(quads, Quad(op, Var, ConstNum(1), NoExpr, currQuad + 2)), Jump(0))
          /\ phase' = phase
    BY <1>4 DEF WriteIf, WriteWhile, WriteTest
  <2>2. op \in DOMAIN JumpOpcode /\ op \in Tests /\ op \notin {"assign", "ret", "call", "getretval", "jump"}
    BY Opcodes
  <2>3. PICK x : /\ x = Quad(op, Var, ConstNum(1), NoExpr, currQuad + 2)
                 /\ IsQuad(x) /\ "result" \in DOMAIN x /\ Shaped(x) /\ x.label \in Nat
    <3>1. currQuad + 2 \in Nat
      BY <1>1
    <3>2. QED BY <2>2, <3>1, SourceTypes, QuadShaped
  <2>4. PICK y : y = Jump(0) /\ IsQuad(y) /\ "result" \in DOMAIN y /\ Shaped(y) /\ y.label \in Nat
    BY JumpShaped
  <2>5. WellFormed(Emit(quads, x))
    BY <1>1, <2>3, EmitWellFormed
  <2>6. WellFormed(Emit(Emit(quads, x), y))
    BY <2>4, <2>5, EmitWellFormed
  <2>7. QED BY <1>1, <2>1, <2>3, <2>4, <2>6
<1>5. CASE WriteEnd
  <2>1. Depth \in DOMAIN open /\ Top.start \in Nat
    <3>1. open \in Seq(Construct) /\ Depth > 0
      BY <1>5 DEF GenerationInv, Written, WriteEnd
    <3>2. Depth \in DOMAIN open
      BY <3>1 DEF Depth
    <3>3. open[Depth] \in Construct
      BY <3>1, <3>2, ElementIn
    <3>4. QED BY <3>2, <3>3 DEF Top, Construct
  <2>2. PICK q : /\ q = (IF Top.kind = "if" THEN quads ELSE Emit(quads, Jump(Top.start)))
                 /\ quads' = PatchLabel(q, Top.start + 1, NextQuad(q)) /\ phase' = phase
    BY <1>5 DEF WriteEnd
  <2>3. PICK y : y = Jump(Top.start) /\ IsQuad(y) /\ "result" \in DOMAIN y /\ Shaped(y) /\ y.label \in Nat
    BY <2>1, JumpShaped
  <2>4. WellFormed(Emit(quads, y))
    BY <1>1, <2>3, EmitWellFormed
  <2>5. WellFormed(q)
    BY <1>1, <2>2, <2>3, <2>4
  <2>6. NextQuad(q) \in Nat
    BY <2>5 DEF WellFormed, IsProgram
  <2>7. QED BY <1>1, <2>2, <2>5, <2>6, LabelledWellFormed DEF PatchLabel
<1>6. CASE WriteFunction
  <2>1. /\ quads' = Emit(quads, Quad("funcstart", ProgramFunc(currQuad), ConstNum(0), NoExpr, 0))
        /\ phase' = phase
    BY <1>6 DEF WriteFunction
  <2>2. "funcstart" \notin Tests
    BY Opcodes
  <2>3. PICK x : /\ x = Quad("funcstart", ProgramFunc(currQuad), ConstNum(0), NoExpr, 0)
                 /\ IsQuad(x) /\ "result" \in DOMAIN x /\ Shaped(x) /\ x.label \in Nat
    BY <2>2, QuadShaped
  <2>4. QED BY <1>1, <2>1, <2>3, EmitWellFormed
<1>7. CASE WriteFunctionEnd
  <2>1. /\ quads' = Labelled(Emit(quads, Only("funcend", ProgramFunc(Top.start))), returnlist, currQuad)
        /\ phase' = phase
    BY <1>7 DEF WriteFunctionEnd
  <2>2. PICK x : /\ x = Only("funcend", ProgramFunc(Top.start))
                 /\ IsQuad(x) /\ "result" \in DOMAIN x /\ Shaped(x) /\ x.label \in Nat
    BY OnlyShaped
  <2>3. WellFormed(Emit(quads, x))
    BY <1>1, <2>2, EmitWellFormed
  <2>4. QED BY <1>1, <2>1, <2>2, <2>3, LabelledWellFormed
<1>8. CASE WriteCall
  <2>1. PICK e \in {ProgramFunc(f) : f \in Callable} \cup {Var} :
          /\ quads' = Emit(Emit(Emit(quads, Only("param", ConstNum(0))), Only("call", e)),
                           Quad("getretval", NoExpr, NoExpr, Var, 0))
          /\ phase' = phase
    BY <1>8 DEF WriteCall
  <2>2. e.type \in {"constnum", "var", "programfunc"}
    BY SourceTypes
  <2>3. PICK x : x = Only("param", ConstNum(0)) /\ IsQuad(x) /\ "result" \in DOMAIN x /\ Shaped(x) /\ x.label \in Nat
    BY OnlyShaped
  <2>4. PICK y : y = Only("call", e) /\ IsQuad(y) /\ "result" \in DOMAIN y /\ Shaped(y) /\ y.label \in Nat
    BY <2>2, OnlyShaped
  <2>5. "getretval" \in DOMAIN OpcodeOf /\ "getretval" \notin Tests
    BY Opcodes
  <2>6. PICK z : /\ z = Quad("getretval", NoExpr, NoExpr, Var, 0)
                 /\ IsQuad(z) /\ "result" \in DOMAIN z /\ Shaped(z) /\ z.label \in Nat
    BY <2>5, QuadShaped
  <2>7. WellFormed(Emit(quads, x))
    BY <1>1, <2>3, EmitWellFormed
  <2>8. WellFormed(Emit(Emit(quads, x), y))
    BY <2>4, <2>7, EmitWellFormed
  <2>9. WellFormed(Emit(Emit(Emit(quads, x), y), z))
    BY <2>6, <2>8, EmitWellFormed
  <2>10. QED BY <1>1, <2>1, <2>3, <2>4, <2>6, <2>9
<1>9. CASE WriteReturn
  <2>1. PICK e \in Sources : quads' = Emit(Emit(quads, Only("ret", e)), Jump(0)) /\ phase' = phase
    BY <1>9 DEF WriteReturn
  <2>2. PICK x : x = Only("ret", e) /\ IsQuad(x) /\ "result" \in DOMAIN x /\ Shaped(x) /\ x.label \in Nat
    BY SourceTypes, OnlyShaped
  <2>3. PICK y : y = Jump(0) /\ IsQuad(y) /\ "result" \in DOMAIN y /\ Shaped(y) /\ y.label \in Nat
    BY JumpShaped
  <2>4. WellFormed(Emit(quads, x))
    BY <1>1, <2>2, EmitWellFormed
  <2>5. WellFormed(Emit(Emit(quads, x), y))
    BY <2>3, <2>4, EmitWellFormed
  <2>6. QED BY <1>1, <2>1, <2>2, <2>3, <2>5
<1>10. CASE WriteDone
  BY <1>1, <1>10 DEF WriteDone, program
<1>11. QED
  BY <1>3, <1>4, <1>5, <1>6, <1>7, <1>8, <1>9, <1>10 DEF Write

(* Afterwards it is not written any more. *)
LEMMA ShapeInvKept ==
  ASSUME GenerationInv, ShapeInv, [Next]_vars
  PROVE  ShapeInv'
<1>1. CASE Write
  BY <1>1, ShapeWritten
<1>2. CASE GenerateTargetCode \/ Execute
  <2>1. UNCHANGED quads /\ phase # "parse"
    BY <1>2 DEF program, GenerateTargetCode, GenerateSimple, GenerateRelational, GenerateFuncStart,
       GenerateFuncEnd, AssertFails, Overrun, PatchIncompleteJumps, Generating,
       Execute, ExecuteJump, ExecuteAssign, ExecuteRecord, ExecuteCall,
       ExecuteFuncExit, ExecuteGetRet, InfiniteLoop, Halt, Running
  <2>2. QED BY <2>1 DEF ShapeInv
<1>3. CASE UNCHANGED vars
  BY <1>3 DEF vars, program, ShapeInv
<1>4. QED BY <1>1, <1>2, <1>3 DEF Next, Compile, CodeGenNext

(* No quads, no shapes. *)
LEMMA ShapeInvInit == Init => ShapeInv
<1> SUFFICES ASSUME Init PROVE ShapeInv
  OBVIOUS
<1>1. quads = << >> /\ phase = "parse" /\ GenerationInv
  BY GenerationInvInit DEF Init, CodeGenInit
<1>2. IsProgram(quads) /\ DOMAIN quads = {}
  BY <1>1 DEF GenerationInv, Written
<1>3. QED BY <1>1, <1>2 DEF ShapeInv, WellFormed

-----------------------------------------------------------------------------
(* What the generator writes. *)

(* One more instruction, and those before it as they were. *)
LEMMA OneWritten ==
  ASSUME CodeInv, Generating, UNCHANGED <<program, phase>>,
         NEW c, HasTarget(c), Generate(<<c>>), Q.op # "funcstart"
  PROVE  /\ Grows
         /\ \A p \in DOMAIN instructions : instructions'[p] = instructions[p]
         /\ instructions'[Len(instructions) + 1] = c
<1>1. PICK s : s = <<c>>
  OBVIOUS
<1>2. IsCode(s) /\ Len(s) = 1 /\ DOMAIN s = {1} /\ s[1] = c
  BY <1>1, OneIsCode
<1>3. Size(next) = 1
  BY DEF Size, Q
<1>4. Generate(s)
  BY <1>1
<1>5. /\ Grows
      /\ \A p \in DOMAIN instructions : p \in DOMAIN instructions' /\ instructions'[p] = instructions[p]
      /\ \A k \in DOMAIN s : instructions'[Len(instructions) + k] = s[k]
  BY <1>2, <1>3, <1>4, Generates
<1>6. QED BY <1>2, <1>5

(* What stands for an operand, or for a quad, goes on doing so. *)
LEMMA DoesStays ==
  ASSUME UNCHANGED <<quads, symbols>>, NEW i, \A g \in DOMAIN symbols : g < i => At(g)' = At(g),
         NEW c, NEW d, Does(i, c), d.opcode = c.opcode, d.arg1 = c.arg1, d.arg2 = c.arg2,
         d.result = c.result \/ IsJump(i)
  PROVE  Does(i, d)'
<1>1. \A e, a : Reaches(i, e, a) => Reaches(i, e, a)'
  <2>1. SUFFICES ASSUME NEW e, NEW a, Reaches(i, e, a) PROVE Reaches(i, e, a)'
    OBVIOUS
  <2>2. CASE e.type = "programfunc"
    <3>1. PICK g \in DOMAIN symbols : /\ e.value <= g /\ g < i
                                      /\ symbols[g].name = symbols[e.value].name
                                      /\ a = Arg("userfunc_a", At(g) + 2)
      BY <2>1, <2>2 DEF Reaches
    <3>2. QED BY <2>1, <2>2, <3>1 DEF Reaches
  <2>3. CASE e.type # "programfunc"
    BY <2>1, <2>3 DEF Reaches
  <2>4. QED BY <2>2, <2>3
<1>2. IsJump(i) => quads[i].op \notin {"assign", "getretval", "ret", "funcstart"}
  BY DEF IsJump, JumpOpcode
<1>3. QED BY <1>1, <1>2 DEF Does

(* A quad is generated. *)
LEMMA GrowsDoes ==
  ASSUME GenerationInv', ProgramInv, IsProgram(quads), CodeInv, DoesInv, Grows,
         NEW n, n = next, NEW c, c = instructions'[Len(instructions) + 1], Does(n, c),
         \A i \in 0 .. n - 1 : instructions'[At(i) + 1].result = instructions[At(i) + 1].result
  PROVE  DoesInv'
<1>1. /\ n \in Nat /\ DOMAIN instructions = 1 .. Len(instructions)
      /\ \A i \in 0 .. n - 1 : At(i) \in Nat /\ At(i) + Size(i) <= Len(instructions)
  BY Addresses DEF CodeInv
<1>2. /\ \A i \in 0 .. n - 1 : At(i)' = At(i)
      /\ At(n)' = Len(instructions)
  BY GrowsFacts
<1>3. UNCHANGED <<quads, symbols>> /\ next' = n + 1
  BY DEF Grows, program
<1>4. \A i \in 0 .. n : \A g \in DOMAIN symbols : g < i => At(g)' = At(g)
  <2>1. SUFFICES ASSUME NEW i \in 0 .. n, NEW g \in DOMAIN symbols, g < i
                 PROVE  At(g)' = At(g)
    OBVIOUS
  <2>2. g \in Nat
    BY EndFacts
  <2>3. g \in 0 .. n - 1
    BY <1>1, <2>1, <2>2
  <2>4. QED BY <1>2, <2>3
<1>5. ASSUME NEW i \in 0 .. n
      PROVE  Does(i, instructions[At(i) + 1])'
  <2>1. PICK d : d = instructions'[At(i)' + 1]
    OBVIOUS
  <2>2. CASE i = n
    <3>1. d = c
      BY <1>2, <2>1, <2>2
    <3>2. Does(i, d)'
      BY <1>3, <1>4, <2>2, <3>1, DoesStays
    <3>3. QED BY <2>1, <3>2 DEF Does
  <2>3. CASE i \in 0 .. n - 1
    <3>1. PICK b : b = instructions[At(i) + 1] /\ Does(i, b)
      BY <2>3 DEF DoesInv
    <3>2. At(i) + 1 \in DOMAIN instructions
      <4>1. PICK a \in Nat : a = At(i) /\ a + Size(i) <= Len(instructions)
        BY <1>1, <2>3
      <4>2. Len(instructions) \in Nat
        BY Addresses DEF CodeInv
      <4>3. a + 1 \in 1 .. Len(instructions)
        BY <4>1, <4>2, SizeIs
      <4>4. QED BY <1>1, <4>1, <4>3
    <3>3. d = instructions'[At(i) + 1]
      BY <1>2, <2>1, <2>3
    <3>4. d.opcode = b.opcode /\ d.arg1 = b.arg1 /\ d.arg2 = b.arg2 /\ d.result = b.result
      BY <2>3, <3>1, <3>2, <3>3 DEF Grows, SameButResult
    <3>5. Does(i, d)'
      BY <1>3, <1>4, <3>1, <3>4, DoesStays
    <3>6. QED BY <2>1, <3>5 DEF Does
  <2>4. QED BY <1>1, <2>2, <2>3
<1>6. next' - 1 = n
  BY <1>1, <1>3
<1>7. QED BY <1>5, <1>6 DEF DoesInv

(* The first instruction of a quad before the next one. *)
LEMMA FirstInstruction ==
  ASSUME CodeInv, NEW i \in 0 .. next - 1
  PROVE  At(i) \in Nat /\ At(i) + 1 \in DOMAIN instructions
<1>1. Len(instructions) \in Nat /\ DOMAIN instructions = 1 .. Len(instructions)
  BY Addresses DEF CodeInv
<1>2. PICK a \in Nat : a = At(i) /\ a + Size(i) <= Len(instructions)
  BY Addresses DEF CodeInv
<1>3. a + 1 \in 1 .. Len(instructions)
  BY <1>1, <1>2, SizeIs
<1>4. QED BY <1>1, <1>2, <1>3

(* make_operand: the name of a function reaches it, or one that has the     *)
(* name and was generated later.                                            *)
LEMMA OperandReaches ==
  ASSUME CodeInv, EntriesInv, IsProgram(quads), ProgramInv, NEW e,
         e.type \in {"constnum", "var", "none", "programfunc"},
         e.type = "programfunc" => e.value \in DOMAIN symbols /\ e.value < next
  PROVE  Reaches(next, e, Operand(e))
<1>1. CASE e.type = "programfunc"
  <2>1. PICK f \in DOMAIN symbols : f = e.value /\ f < next /\ f \in Nat
    BY <1>1, EndFacts
  <2>2. PICK k \in DOMAIN userfuncs : FirstOf(symbols[f].name, k)
    BY <2>1 DEF CodeInv, Userfuncs
  <2>3. PICK l \in DOMAIN userfuncs : userfuncs[l].name = symbols[f].name /\ userfuncs[l].address = At(f) + 2
    BY <2>1 DEF CodeInv, Userfuncs
  <2>4. PICK g \in DOMAIN symbols :
          g < next /\ userfuncs[k].name = symbols[g].name /\ userfuncs[k].address = At(g) + 2
    BY <2>2 DEF EntriesInv
  <2>5. /\ next \in Nat /\ g \in Nat /\ f \in 0 .. next - 1 /\ g \in 0 .. next - 1
        /\ \A i \in 0 .. next - 1 : At(i) \in Nat
        /\ \A i, j \in 0 .. next - 1 : i < j => At(i) + Size(i) <= At(j)
    <3>1. next \in Nat /\ g \in Nat
      BY <2>4, EndFacts, Addresses DEF CodeInv
    <3>2. f \in 0 .. next - 1 /\ g \in 0 .. next - 1
      BY <2>1, <2>4, <3>1
    <3>3. QED BY <3>1, <3>2, Addresses DEF CodeInv
  <2>6. f <= g
    <3>1. k \in Nat /\ l \in Nat /\ DOMAIN userfuncs = 1 .. Len(userfuncs)
      BY <2>2, <2>3, LenProperties DEF CodeInv, Userfuncs
    <3>2. ~(l < k)
      <4>1. l < k => l \in 1 .. k - 1
        BY <2>3, <3>1
      <4>2. QED BY <2>2, <2>3, <4>1 DEF FirstOf
    <3>3. CASE k = l
      <4>1. At(g) = At(f)
        BY <2>3, <2>4, <2>5, <3>3
      <4>2. PICK a \in Nat, b \in Nat : a = At(f) /\ b = At(g)
        BY <2>5
      <4>3. ~(g < f)
        BY <2>5, <4>1, <4>2, SizeIs
      <4>4. QED BY <2>1, <2>5, <4>3
    <3>4. CASE k < l
      <4>1. userfuncs[k].address > userfuncs[l].address
        BY <2>2, <2>3, <3>4 DEF EntriesInv
      <4>2. PICK a \in Nat, b \in Nat : a = At(f) /\ b = At(g) /\ b > a
        BY <2>3, <2>4, <2>5, <4>1
      <4>3. ~(g < f)
        BY <2>5, <4>2, SizeIs
      <4>4. QED BY <2>1, <2>5, <4>3
    <3>5. QED BY <3>1, <3>2, <3>3, <3>4
  <2>7. Operand(e) = Arg("userfunc_a", At(g) + 2)
    BY <1>1, <2>1, <2>2, <2>4, AddressIs DEF Operand
  <2>8. symbols[g].name = symbols[e.value].name
    BY <2>1, <2>2, <2>4 DEF FirstOf
  <2>9. QED BY <1>1, <2>1, <2>4, <2>6, <2>7, <2>8 DEF Reaches
<1>2. CASE e.type # "programfunc"
  BY <1>2 DEF Reaches, Operand
<1>3. QED BY <1>1, <1>2

(* generate_ASSIGN and the other quads of one instruction. *)
LEMMA SimpleDoes ==
  ASSUME GenerationInv, GenerationInv', ProgramInv, CodeInv, ShapeInv, EntriesInv, DoesInv, GenerateSimple
  PROVE  DoesInv' /\ Grows
<1> DEFINE source == IF Q.op = "getretval" THEN RetVal ELSE Operand(Q.arg1)
           goal == IF Q.op = "ret" THEN RetVal ELSE Operand(Q.result)
<1>1. PICK c : c = Instruction(OpcodeOf[Q.op], source, Label(0), goal)
  OBVIOUS
<1>2. /\ Generating /\ Q.op \in DOMAIN OpcodeOf /\ UNCHANGED <<program, phase>> /\ Generate(<<c>>)
  BY <1>1 DEF GenerateSimple
<1>3. PICK t, v : goal = Arg(t, v)
  BY DEF Operand, RetVal, Label, Global
<1>4. HasTarget(c) /\ c.opcode = OpcodeOf[Q.op] /\ c.arg1 = source /\ c.result = goal
  <2> HIDE DEF goal, source
  <2>1. HasTarget(c)
    BY <1>1, <1>3, InstructionHasTarget
  <2>2. QED BY <1>1, <2>1, InstructionIs
<1>5. Q.op \notin {"funcstart", "funcend"} /\ Q.op \notin DOMAIN JumpOpcode
  BY <1>2, Opcodes
<1>6. /\ Grows
      /\ \A p \in DOMAIN instructions : instructions'[p] = instructions[p]
      /\ instructions'[Len(instructions) + 1] = c
  BY <1>2, <1>4, <1>5, OneWritten
<1>7. /\ next \in DOMAIN quads /\ IsProgram(quads)
      /\ Q.arg1.type = "programfunc" => Q.arg1.value \in DOMAIN symbols /\ Q.arg1.value < next
  BY <1>2, <1>5, NextQuadIs DEF Generating, GenerationInv, Written
<1>8. Shaped(Q)
  BY <1>7 DEF ShapeInv, WellFormed, Q
<1>9. Q.op \in {"assign", "ret", "call"} => Reaches(next, Q.arg1, c.arg1)
  <2>1. SUFFICES ASSUME Q.op \in {"assign", "ret", "call"} PROVE Reaches(next, Q.arg1, c.arg1)
    OBVIOUS
  <2>2. Q.arg1.type \in {"constnum", "var", "programfunc"} /\ c.arg1 = Operand(Q.arg1)
    BY <1>4, <1>8, <2>1 DEF Shaped
  <2>3. QED BY <1>7, <2>2, OperandReaches
<1>10. /\ Q.op \in {"assign", "getretval"} => c.result = Global(0)
       /\ Q.op = "ret" => c.result = RetVal
  BY <1>4, <1>8 DEF Shaped, Operand, Var
<1>11. Does(next, c)
  BY <1>4, <1>5, <1>9, <1>10 DEF Does, Q
<1>12. \A i \in 0 .. next - 1 : instructions'[At(i) + 1].result = instructions[At(i) + 1].result
  BY <1>6, FirstInstruction
<1>13. QED BY <1>6, <1>7, <1>11, <1>12, GrowsDoes

(* generate_JUMP and the tests. *)
LEMMA RelationalDoes ==
  ASSUME GenerationInv, GenerationInv', ProgramInv, CodeInv, ShapeInv, EntriesInv, DoesInv, GenerateRelational
  PROVE  DoesInv' /\ Grows
<1>1. PICK value : Generate(<<Instruction(JumpOpcode[Q.op], Operand(Q.arg1), Operand(Q.arg2), Label(value))>>)
  BY DEF GenerateRelational
<1>2. PICK c : c = Instruction(JumpOpcode[Q.op], Operand(Q.arg1), Operand(Q.arg2), Label(value))
  OBVIOUS
<1>3. /\ Generating /\ Q.op \in DOMAIN JumpOpcode /\ UNCHANGED <<program, phase>> /\ Generate(<<c>>)
  BY <1>1, <1>2 DEF GenerateRelational
<1>4. /\ HasTarget(c) /\ c.opcode = JumpOpcode[Q.op]
      /\ c.arg1 = Operand(Q.arg1) /\ c.arg2 = Operand(Q.arg2)
  BY <1>2, InstructionHasTarget, InstructionIs DEF Label
<1>5. Q.op \notin {"funcstart", "funcend", "assign", "ret", "call", "getretval"} /\ Q.op \notin DOMAIN OpcodeOf
  BY <1>3, Opcodes
<1>6. /\ Grows
      /\ \A p \in DOMAIN instructions : instructions'[p] = instructions[p]
      /\ instructions'[Len(instructions) + 1] = c
  BY <1>3, <1>4, <1>5, OneWritten
<1>7. next \in DOMAIN quads /\ IsProgram(quads)
  BY <1>3, NextQuadIs DEF Generating, GenerationInv, Written
<1>8. Shaped(Q)
  BY <1>7 DEF ShapeInv, WellFormed, Q
<1>9. Q.arg1.type \in {"var", "none"} /\ Q.arg2.type \in {"constnum", "none"}
  BY <1>3, <1>8, Opcodes, SourceTypes DEF Shaped
<1>10. Reaches(next, Q.arg1, c.arg1) /\ Reaches(next, Q.arg2, c.arg2)
  BY <1>4, <1>7, <1>9, OperandReaches
<1>11. Does(next, c)
  BY <1>4, <1>5, <1>10 DEF Does, Q
<1>12. \A i \in 0 .. next - 1 : instructions'[At(i) + 1].result = instructions[At(i) + 1].result
  BY <1>6, FirstInstruction
<1>13. QED BY <1>6, <1>7, <1>11, <1>12, GrowsDoes

(* Steps that leave the table of functions. *)
LEMMA EntriesStay ==
  ASSUME GenerationInv', ProgramInv, IsProgram(quads), CodeInv, EntriesInv, Grows, UNCHANGED userfuncs
  PROVE  EntriesInv'
<1>1. next \in Nat /\ UNCHANGED symbols /\ next' = next + 1 /\ \A i \in 0 .. next - 1 : At(i)' = At(i)
  BY GrowsFacts, Addresses DEF Grows, program, CodeInv
<1>2. ASSUME NEW k \in DOMAIN userfuncs
      PROVE  \E g \in DOMAIN symbols :
               g < next + 1 /\ userfuncs[k].name = symbols[g].name /\ userfuncs[k].address = At(g)' + 2
  <2>1. PICK g \in DOMAIN symbols :
          g < next /\ userfuncs[k].name = symbols[g].name /\ userfuncs[k].address = At(g) + 2
    BY DEF EntriesInv
  <2>2. g \in Nat
    BY EndFacts
  <2>3. g \in 0 .. next - 1 /\ g < next + 1
    BY <1>1, <2>1, <2>2
  <2>4. QED BY <1>1, <2>1, <2>3
<1>3. QED BY <1>1, <1>2 DEF EntriesInv

(* generate_FUNCSTART. *)
LEMMA FuncStartDoes ==
  ASSUME GenerationInv, GenerationInv', ProgramInv, CodeInv, ShapeInv, EntriesInv, DoesInv, GenerateFuncStart
  PROVE  DoesInv' /\ EntriesInv'
<1>1. Generating /\ Q.op = "funcstart" /\ UNCHANGED <<program, phase>>
  BY DEF GenerateFuncStart
<1>2. PICK m \in Nat, n \in Nat : m = Len(instructions) /\ n = next /\ DOMAIN instructions = 1 .. m
  BY Addresses DEF CodeInv
<1>3. n \in DOMAIN quads /\ n \in DOMAIN symbols /\ quads[n].op = "funcstart" /\ Q.arg1.value = n /\ IsProgram(quads)
  <2>1. n \in DOMAIN quads /\ quads[n].op = "funcstart" /\ IsProgram(quads)
    BY <1>1, <1>2, NextQuadIs DEF Generating, Q, GenerationInv, Written
  <2>2. Q.arg1 = ProgramFunc(n) /\ n \in DOMAIN symbols
    BY <1>2, <2>1 DEF ProgramInv, Declared, Q
  <2>3. QED BY <2>1, <2>2 DEF ProgramFunc
<1>4. PICK c, d, e :
        /\ c = Instruction("assign", Arg("userfunc_a", m + 2), Label(0), Global(Offset(n)))
        /\ d = Instruction("jne", Label(0), Label(0), Label(0))
        /\ e = Instruction("funcenter", Operand(Q.arg2), Label(0), Label(0))
  OBVIOUS
<1>5. /\ Generate(<<c, d, e>>)
      /\ userfuncs' = <<[name |-> symbols[n].name, address |-> m + 2]>> \o userfuncs
  BY <1>2, <1>3, <1>4 DEF GenerateFuncStart, currInstruction
<1>6. HasTarget(c) /\ HasTarget(d) /\ HasTarget(e) /\ c.opcode = "assign" /\ c.result = Global(Offset(n))
  BY <1>4, InstructionHasTarget, InstructionIs DEF Label, Global
<1>7. PICK s : s = <<c, d, e>>
  OBVIOUS
<1>8. IsCode(s) /\ Len(s) = 3 /\ DOMAIN s = {1, 2, 3} /\ s[1] = c
  BY <1>6, <1>7, ThreeElements
<1>9. Size(next) = 3 /\ Generate(s)
  BY <1>2, <1>3, <1>5, <1>7 DEF Size
<1>10. /\ Grows
       /\ \A p \in DOMAIN instructions : p \in DOMAIN instructions' /\ instructions'[p] = instructions[p]
       /\ \A k \in DOMAIN s : instructions'[Len(instructions) + k] = s[k]
  BY <1>1, <1>8, <1>9, Generates
<1>11. instructions'[Len(instructions) + 1] = c
  BY <1>8, <1>10
<1>12. "funcstart" \notin DOMAIN OpcodeOf /\ "funcstart" \notin DOMAIN JumpOpcode
  BY Opcodes
<1>13. Does(n, c)
  BY <1>3, <1>6, <1>12 DEF Does
<1>14. \A i \in 0 .. n - 1 : instructions'[At(i) + 1].result = instructions[At(i) + 1].result
  BY <1>2, <1>10, FirstInstruction
<1>15. DoesInv'
  BY <1>2, <1>3, <1>10, <1>11, <1>13, <1>14, GrowsDoes
<1>16. /\ UNCHANGED symbols /\ next' = n + 1 /\ \A i \in 0 .. n - 1 : At(i)' = At(i)
       /\ At(n)' = m
  BY <1>2, <1>10, GrowsFacts DEF Grows, program
<1>17. PICK u, x, w : u = userfuncs /\ x = [name |-> symbols[n].name, address |-> m + 2] /\ w = userfuncs'
  OBVIOUS
<1>18. u \in Seq(Entry) /\ x \in Entry /\ w = <<x>> \o u
  <2>1. symbols[n].name \in Names
    BY <1>3 DEF ProgramInv, Declared, Function
  <2>2. m + 2 \in Nat
    OBVIOUS
  <2>3. QED BY <1>5, <1>17, <2>1, <2>2 DEF CodeInv, Userfuncs, Entry
<1>19. /\ w[1] = x /\ 1 \in DOMAIN w
       /\ \A k \in DOMAIN w : k = 1 \/ (k \in Nat /\ k > 1 /\ k - 1 \in DOMAIN u /\ w[k] = u[k - 1])
  BY <1>18, InFront
<1>20. \A k \in DOMAIN u : u[k].address \in Nat /\ u[k].address <= m
  <2>1. \A k \in DOMAIN u : u[k] \in Entry
    BY <1>18
  <2>2. QED BY <1>2, <1>17, <2>1 DEF CodeInv, Userfuncs, Entry
<1>21. ASSUME NEW k \in DOMAIN w
       PROVE  \E g \in DOMAIN symbols :
                g < n + 1 /\ w[k].name = symbols[g].name /\ w[k].address = At(g)' + 2
  <2>1. CASE k = 1
    <3>1. n < n + 1 /\ w[k].name = symbols[n].name /\ w[k].address = At(n)' + 2
      BY <1>16, <1>17, <1>19, <2>1
    <3>2. QED BY <1>3, <3>1
  <2>2. CASE k # 1
    <3>1. k - 1 \in DOMAIN u /\ w[k] = u[k - 1]
      BY <1>19, <2>2
    <3>2. PICK g \in DOMAIN symbols :
            g < n /\ w[k].name = symbols[g].name /\ w[k].address = At(g) + 2
      BY <1>2, <1>17, <3>1 DEF EntriesInv
    <3>3. g \in Nat
      BY <1>3, EndFacts
    <3>4. g \in 0 .. n - 1 /\ g < n + 1
      BY <3>2, <3>3
    <3>5. QED BY <1>16, <3>2, <3>4
  <2>3. QED BY <2>1, <2>2
<1>22. ASSUME NEW j \in DOMAIN w, NEW k \in DOMAIN w, j < k
       PROVE  w[j].address > w[k].address
  <2>1. k # 1 /\ k - 1 \in DOMAIN u /\ w[k] = u[k - 1] /\ k \in Nat
    <3>1. j = 1 \/ (j \in Nat /\ j > 1)
      BY <1>19
    <3>2. k # 1
      BY <1>22, <3>1
    <3>3. QED BY <1>19, <3>2
  <2>2. CASE j = 1
    <3>1. w[j].address = m + 2
      BY <1>17, <1>19, <2>2
    <3>2. PICK a \in Nat : a = w[k].address /\ a <= m
      BY <1>20, <2>1
    <3>3. QED BY <3>1, <3>2
  <2>3. CASE j # 1
    <3>1. j - 1 \in DOMAIN u /\ w[j] = u[j - 1] /\ j \in Nat
      BY <1>19, <2>3
    <3>2. j - 1 < k - 1
      BY <1>22, <2>1, <3>1
    <3>3. QED BY <1>17, <2>1, <3>1, <3>2 DEF EntriesInv
  <2>4. QED BY <2>2, <2>3
<1>23. EntriesInv'
  BY <1>16, <1>17, <1>21, <1>22 DEF EntriesInv
<1>24. QED BY <1>15, <1>23

(* generate_FUNCEND: the instruction it patches is the first one of no quad. *)
LEMMA FuncEndDoes ==
  ASSUME GenerationInv, GenerationInv', ProgramInv, CodeInv, EntriesInv, DoesInv, GenerateFuncEnd
  PROVE  DoesInv' /\ EntriesInv'
<1>1. /\ Generating /\ Q.op = "funcend" /\ phase = "generate"
      /\ UNCHANGED <<program, phase, userfuncs>> /\ next' = next + 1
      /\ taddress' = Append(taddress, currInstruction)
  BY DEF GenerateFuncEnd, Generating
<1>2. PICK m \in Nat, n \in Nat :
        /\ m = Len(instructions) /\ n = next /\ DOMAIN instructions = 1 .. m
        /\ \A i \in 0 .. n - 1 : At(i) \in Nat /\ At(i) + Size(i) <= m
        /\ \A i, j \in 0 .. n - 1 : i < j => At(i) + Size(i) <= At(j)
  BY Addresses DEF CodeInv
<1>3. n \in DOMAIN quads /\ quads[n].op = "funcend" /\ IsProgram(quads)
  BY <1>1, <1>2, NextQuadIs DEF Generating, Q, GenerationInv, Written
<1>4. PICK f \in DOMAIN symbols :
        f \in 0 .. n - 1 /\ func_skip_stack # << >> /\ func_skip_stack[1] = At(f) + 1
  BY <1>1, <1>2, <1>3, EndsInnermost
<1>5. Size(f) = 3
  BY EndFacts DEF GenerationInv, Written, ProgramInv, Declared, Size
<1>6. PICK a \in Nat : a = At(f) /\ a + 3 <= m /\ a + 2 \in 1 .. m
  <2>1. PICK a \in Nat : a = At(f) /\ a + 3 <= m
    BY <1>2, <1>4, <1>5
  <2>2. a + 2 \in 1 .. m
    BY <2>1
  <2>3. QED BY <2>1, <2>2
<1>7. PICK exit, b, i : /\ exit = Instruction("funcexit", Label(0), Label(0), Label(0))
                        /\ b = Append(i, exit) /\ i = instructions
  OBVIOUS
<1>8. HasTarget(exit)
  BY <1>7, InstructionHasTarget DEF Label
<1>9. IsCode(b) /\ Len(b) = m + 1 /\ \A p \in 1 .. m : p \in DOMAIN b /\ b[p] = instructions[p]
  <2>1. IsCode(i) /\ m = Len(i) /\ DOMAIN i = 1 .. m
    BY <1>2, <1>7 DEF CodeInv, Ordered
  <2>2. IsCode(i) /\ HasTarget(exit) /\ b = Append(i, exit) /\ m = Len(i)
    BY <1>7, <1>8, <2>1
  <2>3. IsCode(b)
    BY <2>2, AppendCode
  <2>4. Len(b) = m + 1
    BY <2>2, AppendCode
  <2>5. \A p \in DOMAIN i : p \in DOMAIN b /\ b[p] = i[p]
    BY <2>2, AppendCode
  <2>6. QED BY <1>7, <2>1, <2>3, <2>4, <2>5
<1>10. instructions' = Target(b, a + 1, m + 1)
  <2>1. Head(func_skip_stack) = a + 1
    <3>1. PICK s : s = func_skip_stack
      OBVIOUS
    <3>2. s \in Seq(Nat)
      BY <1>1, <3>1 DEF GenerationInv, Generation, SkipsApart
    <3>3. Head(s) = s[1]
      BY <3>2
    <3>4. QED BY <1>4, <1>6, <3>1, <3>3
  <2>2. QED BY <1>2, <1>4, <1>7, <2>1 DEF GenerateFuncEnd, currInstruction
<1>11. /\ Len(instructions') = m + 1
       /\ \A p \in 1 .. m : p # a + 2 => instructions'[p] = instructions[p]
       /\ SameButResult(instructions'[a + 2], instructions[a + 2])
  <2>1. PICK x \in Nat, l \in Nat : x = a + 1 /\ x + 1 = a + 2 /\ l = m + 1
    BY <1>6
  <2>2. x + 1 \in DOMAIN b /\ b[x + 1] = instructions[a + 2]
    BY <1>6, <1>9, <2>1
  <2>3. {"opcode", "arg1", "arg2", "result"} \subseteq DOMAIN b[x + 1]
    BY <1>2, <1>6, <2>2 DEF CodeInv, Operands
  <2>4. /\ Len(Target(b, x, l)) = Len(b)
        /\ \A p \in DOMAIN b : p # x + 1 => Target(b, x, l)[p] = b[p]
        /\ SameButResult(Target(b, x, l)[x + 1], b[x + 1])
    <3>1. IsCode(b)
      BY <1>9
    <3>2. /\ Len(Target(b, x, l)) = Len(b)
          /\ \A p \in DOMAIN b : p # x + 1 => Target(b, x, l)[p] = b[p]
      BY <3>1, TargetCode
    <3>3. SameButResult(Target(b, x, l)[x + 1], b[x + 1])
      BY <2>2, <2>3, <3>1, TargetElement
    <3>4. QED BY <3>2, <3>3
  <2>5. QED BY <1>9, <1>10, <2>1, <2>2, <2>4
<1>12. Grows
  <2>1. Size(next) = 1
    BY <1>2, <1>3 DEF Size
  <2>2. \A p \in DOMAIN instructions : SameButResult(instructions'[p], instructions[p])
    BY <1>2, <1>11 DEF SameButResult
  <2>3. QED BY <1>1, <1>2, <1>11, <2>1, <2>2 DEF Grows, Generating
<1>13. ASSUME NEW j \in 0 .. n - 1
       PROVE  instructions'[At(j) + 1].result = instructions[At(j) + 1].result
  <2>1. PICK c \in Nat : c = At(j) /\ c + 1 \in 1 .. m
    BY <1>2, FirstInstruction
  <2>2. c # a + 1
    <3>1. /\ j < f => c + Size(j) <= a
          /\ f < j => a + 3 <= c
          /\ j = f => c = a
      BY <1>2, <1>4, <1>5, <1>6, <2>1
    <3>2. j < f \/ f < j \/ j = f
      BY <1>4
    <3>3. QED BY <3>1, <3>2, SizeIs
  <2>3. c + 1 # a + 2
    BY <2>2
  <2>4. QED BY <1>11, <2>1, <2>3
<1>14. "funcend" \notin DOMAIN OpcodeOf /\ "funcend" \notin DOMAIN JumpOpcode
  BY Opcodes
<1>15. PICK c : c = instructions'[Len(instructions) + 1]
  OBVIOUS
<1>16. Does(n, c)
  BY <1>3, <1>14 DEF Does
<1>17. DoesInv'
  BY <1>2, <1>3, <1>12, <1>13, <1>15, <1>16, GrowsDoes
<1>18. EntriesInv'
  BY <1>1, <1>3, <1>12, EntriesStay
<1>19. QED BY <1>17, <1>18

(* Steps that leave the program, and of the code all but targets of jumps.  *)
LEMMA DoesKept ==
  ASSUME CodeInv, IsProgram(quads), ProgramInv, EntriesInv, DoesInv,
         UNCHANGED <<quads, symbols, next, taddress, userfuncs>>,
         \A p \in DOMAIN instructions :
           /\ SameButResult(instructions'[p], instructions[p])
           /\ \/ instructions'[p] = instructions[p]
              \/ \E i \in 0 .. next - 1 : IsJump(i) /\ p = At(i) + 1
  PROVE  EntriesInv' /\ DoesInv'
<1>1. \A i : At(i)' = At(i)
  BY DEF At
<1>2. EntriesInv'
  BY <1>1 DEF EntriesInv
<1>3. ASSUME NEW i \in 0 .. next - 1
      PROVE  Does(i, instructions[At(i) + 1])'
  <2>1. PICK c, d, a : c = instructions[At(i) + 1] /\ d = instructions'[At(i) + 1] /\ a = At(i) + 1
    OBVIOUS
  <2>2. a \in DOMAIN instructions
    BY <2>1, FirstInstruction
  <2>3. d.opcode = c.opcode /\ d.arg1 = c.arg1 /\ d.arg2 = c.arg2
    BY <2>1, <2>2 DEF SameButResult
  <2>4. d.result = c.result \/ IsJump(i)
    <3>1. CASE instructions'[a] = instructions[a]
      BY <2>1, <3>1
    <3>2. CASE \E j \in 0 .. next - 1 : IsJump(j) /\ a = At(j) + 1
      <4>1. PICK j \in 0 .. next - 1 : IsJump(j) /\ a = At(j) + 1
        BY <3>2
      <4>2. /\ next \in Nat
            /\ At(i) \in Nat /\ At(j) \in Nat
            /\ i < j => At(i) + Size(i) <= At(j)
            /\ j < i => At(j) + Size(j) <= At(i)
        BY Addresses DEF CodeInv
      <4>3. At(i) = At(j)
        BY <2>1, <4>1, <4>2
      <4>4. ~(i < j) /\ ~(j < i)
        BY <4>2, <4>3, SizeIs
      <4>5. i = j
        BY <4>2, <4>4
      <4>6. QED BY <4>1, <4>5
    <3>3. QED BY <2>2, <3>1, <3>2
  <2>5. Does(i, c)
    BY <2>1 DEF DoesInv
  <2>6. Does(i, d)'
    BY <1>1, <2>3, <2>4, <2>5, DoesStays
  <2>7. d = instructions'[At(i)' + 1]
    BY <1>1, <2>1
  <2>8. QED BY <2>6, <2>7 DEF Does
<1>4. DoesInv'
  BY <1>3 DEF DoesInv
<1>5. QED BY <1>2, <1>4

(* Every step keeps what the code does. *)
LEMMA DoesInvKept ==
  ASSUME CompiledInv, ShapeInv, EntriesInv, DoesInv, [Next]_vars
  PROVE  EntriesInv' /\ DoesInv'
<1>1. CompiledInv'
  BY CompiledInvKept
<1>2. GenerationInv /\ GenerationInv' /\ ProgramInv /\ CodeInv /\ CodeInv' /\ IsProgram(quads)
  BY <1>1 DEF CompiledInv, GenerationInv, Written
<1>3. CASE Write
  <2>1. phase = "parse" /\ UNCHANGED target
    BY <1>3 DEF Write, WriteAssign, WriteIf, WriteWhile, WriteTest, WriteEnd, WriteFunction,
       WriteFunctionEnd, WriteCall, WriteReturn, WriteDone, Room
  <2>2. next' = 0 /\ userfuncs' = << >>
    BY <1>2, <2>1 DEF CodeInv, GenerationInv, Written, target
  <2>3. DOMAIN userfuncs' = {} /\ 0 .. next' - 1 = {}
    BY <2>2
  <2>4. QED BY <2>3 DEF EntriesInv, DoesInv
<1>4. CASE GenerateSimple
  <2>1. DoesInv' /\ Grows
    BY <1>2, <1>4, SimpleDoes
  <2>2. UNCHANGED userfuncs
    BY <1>4 DEF GenerateSimple
  <2>3. QED BY <1>2, <2>1, <2>2, EntriesStay
<1>5. CASE GenerateRelational
  <2>1. DoesInv' /\ Grows
    BY <1>2, <1>5, RelationalDoes
  <2>2. UNCHANGED userfuncs
    BY <1>5 DEF GenerateRelational
  <2>3. QED BY <1>2, <2>1, <2>2, EntriesStay
<1>6. CASE GenerateFuncStart
  BY <1>2, <1>6, FuncStartDoes
<1>7. CASE GenerateFuncEnd
  BY <1>2, <1>7, FuncEndDoes
<1>8. CASE PatchIncompleteJumps
  <2>1. UNCHANGED <<quads, symbols, next, taddress, userfuncs>>
    BY <1>8 DEF PatchIncompleteJumps, program
  <2>2. \A p \in DOMAIN instructions :
          /\ SameButResult(instructions'[p], instructions[p])
          /\ \/ instructions'[p] = instructions[p]
             \/ \E i \in 0 .. next - 1 : IsJump(i) /\ p = At(i) + 1
    BY <1>2, <1>8, Patched
  <2>3. QED BY <1>2, <2>1, <2>2, DoesKept
<1>9. CASE AssertFails \/ Overrun \/ Execute \/ UNCHANGED vars
  <2>1. UNCHANGED <<program, target>>
    BY <1>9 DEF AssertFails, Overrun, vars,
       Execute, ExecuteJump, ExecuteAssign, ExecuteRecord, ExecuteCall,
       ExecuteFuncExit, ExecuteGetRet, InfiniteLoop, Halt
  <2>2. UNCHANGED <<quads, symbols, next, taddress, userfuncs, instructions>>
    BY <2>1 DEF program, target
  <2>3. \A p \in DOMAIN instructions : SameButResult(instructions'[p], instructions[p])
    BY <2>2 DEF SameButResult
  <2>4. QED BY <1>2, <2>2, <2>3, DoesKept
<1>10. QED
  BY <1>3, <1>4, <1>5, <1>6, <1>7, <1>8, <1>9 DEF Next, Compile, CodeGenNext, GenerateTargetCode

(* No quads, no entries and no code. *)
LEMMA DoesInvInit == Init => EntriesInv /\ DoesInv
<1> SUFFICES ASSUME Init PROVE EntriesInv /\ DoesInv
  OBVIOUS
<1>1. next = 0 /\ DOMAIN userfuncs = {} /\ 0 .. next - 1 = {}
  BY DEF Init, CodeGenInit
<1>2. QED BY <1>1 DEF EntriesInv, DoesInv

-----------------------------------------------------------------------------
(* The machine at a quad. *)

(* The instruction at p is the first one of a quad and does what the quad   *)
(* says, or is the jump over a function, or its FUNCENTER.                  *)
LEMMA FetchedQuad ==
  ASSUME CompiledInv, ShapeInv, DoesInv, Generated, NEW p \in 0 .. currInstruction - 1,
         NEW c, c = instructions[p + 1]
  PROVE  \/ \E i \in DOMAIN quads :
              /\ p = Start(i) /\ Does(i, c) /\ Shaped(quads[i])
              /\ quads[i].op = "funcstart" => i \in DOMAIN symbols /\ c.opcode = "assign"
              /\ quads[i].op = "funcend" => c.opcode = "funcexit"
         \/ \E f \in DOMAIN symbols, e \in DOMAIN quads :
              /\ p = Start(f) + 1 /\ Ends(f, e)
              /\ c.opcode = "jne" /\ c.arg1.type = "label_a" /\ c.arg2.type = "label_a"
              /\ c.result.value = Start(e + 1)
         \/ \E f \in DOMAIN symbols : p = Start(f) + 2 /\ c.opcode = "funcenter"
<1>1. /\ currInstruction \in Nat /\ CodeInv /\ next = currQuad /\ ProgramInv
      /\ currQuad \in Nat /\ DOMAIN quads = 0 .. currQuad - 1
      /\ \A i \in DOMAIN quads : /\ Start(i) = At(i) /\ Start(i) \in Nat
                                 /\ Start(i) + Size(i) = Start(i + 1)
  BY Starts DEF CompiledInv, CodeInv
<1>2. PICK i \in DOMAIN quads : Start(i) <= p /\ p < Start(i) + Size(i)
  BY Starts
<1>3. PICK a \in Nat : a = Start(i) /\ a = At(i)
  BY <1>1
<1>4. IsCodeOfQuad(i, a) /\ Does(i, instructions[a + 1]) /\ Shaped(quads[i])
  BY <1>1, <1>3 DEF CodeInv, Filled, DoesInv, ShapeInv, WellFormed
<1>5. CASE quads[i].op = "funcstart"
  <2>1. Size(i) = 3 /\ i \in DOMAIN symbols
    BY <1>1, <1>5 DEF Size, ProgramInv, Declared
  <2>2. p = a \/ p = a + 1 \/ p = a + 2
    BY <1>2, <1>3, <2>1
  <2>3. CASE p = a
    BY <1>3, <1>4, <1>5, <2>1, <2>3 DEF IsCodeOfQuad
  <2>4. CASE p = a + 1
    <3>1. c = instructions[a + 2]
      BY <2>4
    <3>2. PICK e \in DOMAIN quads : Ends(i, e)
      BY <2>1, Functions
    <3>3. e < currQuad /\ Size(e) = 1
      BY <1>1, <2>1, <3>2, Functions
    <3>4. instructions[At(i) + 2].result.value = At(e) + 1
      BY <1>1, <2>1, <3>2, <3>3 DEF CodeInv, Skipped
    <3>5. c.result.value = Start(e + 1)
      BY <1>1, <1>3, <3>1, <3>2, <3>3, <3>4
    <3>6. QED BY <1>3, <1>4, <1>5, <2>1, <2>4, <3>1, <3>2, <3>5 DEF IsCodeOfQuad
  <2>5. CASE p = a + 2
    <3>1. c = instructions[a + 3]
      BY <2>5
    <3>2. QED BY <1>3, <1>4, <1>5, <2>1, <2>5, <3>1 DEF IsCodeOfQuad
  <2>6. QED BY <2>2, <2>3, <2>4, <2>5
<1>6. CASE quads[i].op # "funcstart"
  <2>1. Size(i) = 1
    BY <1>6 DEF Size
  <2>2. p = a
    BY <1>2, <1>3, <2>1
  <2>3. QED BY <1>3, <1>4, <1>6, <2>2 DEF IsCodeOfQuad
<1>7. QED BY <1>5, <1>6

(* Which quads have an instruction. *)
LEMMA OpcodeTells ==
  ASSUME NEW i, NEW c, Does(i, c), Shaped(quads[i]),
         quads[i].op = "funcstart" => c.opcode = "assign",
         quads[i].op = "funcend" => c.opcode = "funcexit"
  PROVE  /\ c.opcode \in JumpCodes <=> quads[i].op \in DOMAIN JumpOpcode
         /\ c.opcode = "assign" <=> quads[i].op \in {"assign", "ret", "funcstart"}
         /\ c.opcode = "pusharg" <=> quads[i].op = "param"
         /\ c.opcode = "callfunc" <=> quads[i].op = "call"
         /\ c.opcode = "funcexit" <=> quads[i].op = "funcend"
         /\ c.opcode = "getretval" <=> quads[i].op = "getretval"
         /\ c.opcode # "funcenter"
<1>1. PICK o : o = quads[i].op
  OBVIOUS
<1>2. CASE o \in DOMAIN OpcodeOf
  BY <1>1, <1>2 DEF Does, OpcodeOf, JumpOpcode, JumpCodes
<1>3. CASE o \in DOMAIN JumpOpcode
  <2>1. c.opcode = JumpOpcode[o] /\ JumpOpcode[o] \in JumpCodes
    BY <1>1, <1>3 DEF Does, JumpOpcode, JumpCodes
  <2>2. QED BY <1>1, <1>3, <2>1 DEF OpcodeOf, JumpOpcode, JumpCodes
<1>4. CASE o \in {"funcstart", "funcend"}
  BY <1>1, <1>4 DEF OpcodeOf, JumpOpcode, JumpCodes
<1>5. QED BY <1>1, <1>2, <1>3, <1>4 DEF Shaped

(* avm_translate_operand: what stands for a value is one. *)
LEMMA OperandIsValue ==
  ASSUME CompiledInv, Generated, ValuesInv, NEW i \in DOMAIN quads, NEW e, NEW a, Reaches(i, e, a),
         e.type \in {"constnum", "var", "none", "programfunc"}
  PROVE  IsValue(Translate(a))
<1>1. CASE e.type \in {"constnum", "none"}
  <2>1. PICK v : Translate(a) = Number(v)
    BY <1>1 DEF Reaches, Translate, Arg, Label
  <2>2. Number(v) = Number(Number(v).value)
    BY DEF Number
  <2>3. QED BY <2>1, <2>2 DEF IsValue
<1>2. CASE e.type = "var"
  <2>1. Translate(a) = stack[0]
    BY <1>2 DEF Reaches, Translate, Arg, Global
  <2>2. QED BY <2>1 DEF ValuesInv
<1>3. CASE e.type = "programfunc"
  <2>1. PICK g \in DOMAIN symbols : a = Arg("userfunc_a", At(g) + 2)
    BY <1>3 DEF Reaches
  <2>2. Start(g) = At(g)
    BY Functions, Starts
  <2>3. Translate(a) = UserFunc(Start(g) + 2)
    BY <2>1, <2>2 DEF Translate, Arg
  <2>4. QED BY <2>3 DEF IsValue
<1>4. QED BY <1>1, <1>2, <1>3

(* A step of the machine changes no code. *)
LEMMA ValuesStep ==
  ASSUME UNCHANGED <<program, target>>, Generated',
         NEW s, s = stack', IsValue(s[0]), NEW r, r = retval_reg', IsValue(r),
         NEW l \in {None, r}, l = result', NEW t, t = returns', \A k \in DOMAIN t : IsPlace(t[k])
  PROVE  ValuesInv'
<1>1. UNCHANGED <<quads, symbols, instructions, taddress>>
  BY DEF program, target
<1>2. \A x : Start(x)' = Start(x)
  BY <1>1 DEF Start, currQuad, currInstruction
<1>3. PICK x : x = s[0]
  OBVIOUS
<1>4. IsValue(x)' /\ IsValue(r)'
  BY <1>1, <1>2, <1>3 DEF IsValue
<1>5. \A k \in DOMAIN t : IsPlace(t[k])'
  BY <1>1, <1>2 DEF IsPlace, currQuad
<1>6. IsValue(stack[0])' /\ IsValue(retval_reg)'
  BY <1>3, <1>4 DEF IsValue
<1>7. \A k \in DOMAIN returns' : IsPlace(returns[k])'
  BY <1>5 DEF IsPlace
<1>8. QED BY <1>6, <1>7 DEF ValuesInv

(* A cell is written. *)
LEMMA ZeroStored ==
  ASSUME MachineInv, NEW v, NEW a, NEW s, s = [stack EXCEPT ![a] = v]
  PROVE  s[0] = IF a = 0 THEN v ELSE stack[0]
<1>1. DOMAIN stack = 0 .. MaxQuads /\ 0 \in 0 .. MaxQuads
  BY CodeGenAssumption DEF MachineInv
<1>2. QED BY <1>1

Means == RunInv /\ ShapeInv /\ EntriesInv /\ DoesInv /\ ValuesInv

(* The quad that runs. *)
LEMMA AtQuad ==
  ASSUME Means, Running, I.opcode # "funcenter", ~(I.opcode = "jne" /\ Unconditional)
  PROVE  /\ Generated /\ CompiledInv /\ MachineInv
         /\ \E i \in DOMAIN quads :
              /\ pc = Start(i) /\ Does(i, I) /\ Shaped(quads[i])
              /\ quads[i].op = "funcstart" => i \in DOMAIN symbols /\ I.opcode = "assign"
              /\ quads[i].op = "funcend" => I.opcode = "funcexit"
<1>1. Generated /\ CompiledInv /\ MachineInv /\ pc \in 0 .. currInstruction - 1
  BY RunningFacts DEF Means, RunInv
<1>2. PICK p, c : p = pc /\ c = instructions[p + 1] /\ c = I
  BY DEF I
<1>3. QED BY <1>1, <1>2, FetchedQuad DEF Means, Unconditional

-----------------------------------------------------------------------------
(* The machine's values stay values. *)

(* Steps that write no value. *)
LEMMA ValuesStay ==
  ASSUME ValuesInv, Generated, Generated',
         UNCHANGED <<program, target>>, UNCHANGED <<stack, retval_reg, returns, result>>
  PROVE  ValuesInv'
<1>1. PICK s, r, l, t : s = stack' /\ r = retval_reg' /\ l = result' /\ t = returns'
  OBVIOUS
<1>2. /\ IsValue(s[0]) /\ IsValue(r) /\ l \in {None, r} /\ \A k \in DOMAIN t : IsPlace(t[k])
  BY <1>1 DEF ValuesInv
<1>3. QED BY <1>1, <1>2, ValuesStep

(* What an assignment does, by its quad. *)
LEMMA AssignIs ==
  ASSUME Means, ExecuteAssign, NEW s, s = stack', NEW v, v = Translate(I.arg1)
  PROVE  \E i \in DOMAIN quads :
           /\ pc = Start(i) /\ Does(i, I) /\ Shaped(quads[i]) /\ quads[i].op \in {"assign", "ret", "funcstart"}
           /\ quads[i].op = "assign" => s[0] = v /\ UNCHANGED <<retval_reg, result>>
           /\ quads[i].op = "ret" => s[0] = stack[0] /\ retval_reg' = v /\ result' = v
           /\ quads[i].op = "funcstart" =>
                i \in DOMAIN symbols /\ s[0] = stack[0] /\ UNCHANGED <<retval_reg, result>>
<1>1. Running /\ I.opcode = "assign"
  BY DEF ExecuteAssign
<1>2. Generated /\ CompiledInv /\ MachineInv
  BY <1>1, AtQuad
<1>3. PICK i \in DOMAIN quads : /\ pc = Start(i) /\ Does(i, I) /\ Shaped(quads[i])
                                /\ quads[i].op = "funcstart" => i \in DOMAIN symbols /\ I.opcode = "assign"
                                /\ quads[i].op = "funcend" => I.opcode = "funcexit"
  BY <1>1, AtQuad
<1>4. quads[i].op \in {"assign", "ret", "funcstart"}
  BY <1>1, <1>3, OpcodeTells
<1>5. CASE quads[i].op = "ret"
  <2>1. I.result.type = "retval_a"
    BY <1>3, <1>5 DEF Does, RetVal, Arg
  <2>2. retval_reg' = v /\ result' = v /\ s = stack
    BY <2>1 DEF ExecuteAssign
  <2>3. QED BY <1>3, <1>4, <1>5, <2>2
<1>6. CASE quads[i].op \in {"assign", "funcstart"}
  <2>1. PICK a \in Nat : /\ I.result = Global(a)
                         /\ quads[i].op = "assign" => a = 0
                         /\ quads[i].op = "funcstart" => a # 0
    <3>1. CASE quads[i].op = "assign"
      BY <1>3, <3>1 DEF Does
    <3>2. CASE quads[i].op = "funcstart"
      <4>1. i \in Nat
        BY <1>2, Starts
      <4>2. Offset(i) \in Nat /\ Offset(i) # 0
        BY <4>1 DEF Offset
      <4>3. I.result = Global(Offset(i))
        BY <1>3, <3>2 DEF Does
      <4>4. QED BY <3>2, <4>2, <4>3
    <3>3. QED BY <1>6, <3>1, <3>2
  <2>2. I.result.type # "retval_a" /\ I.result.value = a
    BY <2>1 DEF Global, Arg
  <2>3. s = [stack EXCEPT ![a] = v] /\ UNCHANGED <<retval_reg, result>>
    BY <2>2 DEF ExecuteAssign, Assigned
  <2>4. s[0] = IF a = 0 THEN v ELSE stack[0]
    BY <1>2, <2>3, ZeroStored
  <2>5. QED BY <1>3, <1>4, <1>6, <2>1, <2>3, <2>4
<1>7. QED BY <1>4, <1>5, <1>6

(* An assignment stores what it has read. *)
LEMMA AssignValues ==
  ASSUME Means, ExecuteAssign
  PROVE  ValuesInv'
<1>1. /\ Running /\ I.opcode = "assign" /\ UNCHANGED <<program, target>> /\ UNCHANGED <<phase, returns>>
  BY DEF ExecuteAssign
<1>2. Generated /\ Generated' /\ CompiledInv /\ ValuesInv
  BY <1>1, AtQuad DEF Generated, Means
<1>3. PICK s, r, l, t, v : /\ s = stack' /\ r = retval_reg' /\ l = result' /\ t = returns'
                           /\ v = Translate(I.arg1)
  OBVIOUS
<1>4. PICK i \in DOMAIN quads :
        /\ Does(i, I) /\ Shaped(quads[i]) /\ quads[i].op \in {"assign", "ret", "funcstart"}
        /\ quads[i].op = "assign" => s[0] = v /\ UNCHANGED <<retval_reg, result>>
        /\ quads[i].op = "ret" => s[0] = stack[0] /\ retval_reg' = v /\ result' = v
        /\ quads[i].op = "funcstart" => s[0] = stack[0] /\ UNCHANGED <<retval_reg, result>>
  BY <1>3, AssignIs
<1>5. IsValue(stack[0]) /\ IsValue(retval_reg) /\ result \in {None, retval_reg} /\ \A k \in DOMAIN t : IsPlace(t[k])
  BY <1>1, <1>2, <1>3 DEF ValuesInv
<1>6. quads[i].op \in {"assign", "ret"} => IsValue(v)
  <2>1. SUFFICES ASSUME quads[i].op \in {"assign", "ret"} PROVE IsValue(v)
    OBVIOUS
  <2>2. PICK e, a : e = quads[i].arg1 /\ a = I.arg1
    OBVIOUS
  <2>3. Reaches(i, e, a) /\ e.type \in {"constnum", "var", "programfunc"}
    BY <1>4, <2>1, <2>2 DEF Does, Shaped
  <2>4. QED BY <1>2, <1>3, <2>2, <2>3, OperandIsValue
<1>7. IsValue(s[0]) /\ IsValue(r) /\ l \in {None, r}
  BY <1>3, <1>4, <1>5, <1>6
<1>8. QED BY <1>1, <1>2, <1>3, <1>5, <1>7, ValuesStep

(* What GETRETVAL stores is in the register. *)
LEMMA GetRetValues ==
  ASSUME Means, ExecuteGetRet
  PROVE  ValuesInv'
<1>1. /\ Running /\ I.opcode = "getretval" /\ UNCHANGED <<program, target>> /\ UNCHANGED <<phase, returns, retval_reg>>
  BY DEF ExecuteGetRet
<1>2. Generated /\ Generated' /\ CompiledInv /\ MachineInv /\ ValuesInv
  BY <1>1, AtQuad DEF Generated, Means
<1>3. PICK s, r, t : s = stack' /\ r = retval_reg' /\ t = returns'
  OBVIOUS
<1>4. IsValue(stack[0]) /\ IsValue(r) /\ \A k \in DOMAIN t : IsPlace(t[k])
  BY <1>1, <1>2, <1>3 DEF ValuesInv
<1>5. PICK a : s = [stack EXCEPT ![a] = r]
  BY <1>1, <1>3 DEF ExecuteGetRet, Assigned
<1>6. IsValue(s[0])
  BY <1>2, <1>4, <1>5, ZeroStored
<1>7. PICK l : l \in {None, r} /\ l = result'
  BY DEF ExecuteGetRet
<1>8. QED BY <1>1, <1>2, <1>3, <1>4, <1>6, <1>7, ValuesStep

(* A call returns to the quad behind it. *)
LEMMA CallValues ==
  ASSUME Means, ExecuteCall
  PROVE  ValuesInv'
<1>1. /\ Running /\ I.opcode = "callfunc" /\ UNCHANGED <<program, target>> /\ UNCHANGED <<stack, retval_reg>>
      /\ phase' = phase \/ phase' = "error"
  BY DEF ExecuteCall
<1>2. Generated /\ Generated' /\ CompiledInv /\ MachineInv /\ ValuesInv
  BY <1>1, AtQuad DEF Generated, Means
<1>3. CASE UNCHANGED <<returns, result>>
  BY <1>1, <1>2, <1>3, ValuesStay
<1>4. CASE returns' = <<pc + 1>> \o returns /\ result' = None
  <2>1. PICK i \in DOMAIN quads : /\ pc = Start(i) /\ Does(i, I) /\ Shaped(quads[i])
                                  /\ quads[i].op = "funcstart" => i \in DOMAIN symbols /\ I.opcode = "assign"
                                  /\ quads[i].op = "funcend" => I.opcode = "funcexit"
    BY <1>1, AtQuad
  <2>2. quads[i].op = "call" /\ Size(i) = 1
    BY <1>1, <2>1, OpcodeTells DEF Size
  <2>3. i + 1 \in 0 .. currQuad /\ pc + 1 = Start(i + 1)
    BY <1>2, <2>1, <2>2, Starts
  <2>4. PICK b : b = pc + 1 /\ b \in 0 .. currInstruction /\ IsPlace(b)
    BY <1>1, <1>2, <2>3, RunningFacts DEF IsPlace
  <2>5. PICK o, t, s, r, l :
          /\ o = returns /\ t = returns' /\ s = stack' /\ r = retval_reg' /\ l = result' /\ l \in {None, r}
    BY <1>4
  <2>6. /\ IsValue(s[0]) /\ IsValue(r) /\ \A k \in DOMAIN o : IsPlace(o[k])
    BY <1>1, <1>2, <2>5 DEF ValuesInv
  <2>7. o \in Seq(0 .. currInstruction) /\ t = <<b>> \o o
    BY <1>4, <2>4, <2>5, <1>2 DEF MachineInv
  <2>8. \A k \in DOMAIN t : k = 1 \/ (k - 1 \in DOMAIN o /\ t[k] = o[k - 1])
    BY <2>4, <2>7, InFront
  <2>9. t[1] = b
    BY <2>4, <2>7, InFront
  <2>10. \A k \in DOMAIN t : IsPlace(t[k])
    BY <2>4, <2>6, <2>8, <2>9
  <2>11. QED BY <1>1, <1>2, <2>5, <2>6, <2>10, ValuesStep
<1>5. QED BY <1>3, <1>4 DEF ExecuteCall

(* FUNCEXIT drops a place. *)
LEMMA ExitValues ==
  ASSUME Means, ExecuteFuncExit
  PROVE  ValuesInv'
<1>1. /\ Running /\ I.opcode = "funcexit" /\ UNCHANGED <<program, target>>
      /\ UNCHANGED <<stack, retval_reg, result>>
      /\ phase' = phase \/ phase' = "wild"
  BY DEF ExecuteFuncExit
<1>2. Generated /\ Generated' /\ CompiledInv /\ MachineInv /\ ValuesInv
  BY <1>1, AtQuad DEF Generated, Means
<1>3. CASE UNCHANGED returns
  BY <1>1, <1>2, <1>3, ValuesStay
<1>4. CASE returns # << >> /\ returns' = Tail(returns)
  <2>1. PICK o, t, s, r, l :
          /\ o = returns /\ t = returns' /\ s = stack' /\ r = retval_reg' /\ l = result'
    OBVIOUS
  <2>2. /\ IsValue(s[0]) /\ IsValue(r) /\ l \in {None, r} /\ \A k \in DOMAIN o : IsPlace(o[k])
    BY <1>1, <1>2, <2>1 DEF ValuesInv
  <2>3. o \in Seq(0 .. currInstruction) /\ o # << >> /\ t = Tail(o)
    BY <1>2, <1>4, <2>1 DEF MachineInv
  <2>4. \A k \in DOMAIN t : k + 1 \in DOMAIN o /\ t[k] = o[k + 1]
    BY <2>3, Behind
  <2>5. QED BY <1>1, <1>2, <2>1, <2>2, <2>4, ValuesStep
<1>5. QED BY <1>3, <1>4 DEF ExecuteFuncExit

(* What the machine holds before it runs. *)
UnusedMachine ==
  /\ stack = [i \in 0 .. MaxQuads |-> Undef] /\ retval_reg = Undef
  /\ returns = << >> /\ result = None

(* It holds no values and no places. *)
LEMMA UnusedIsRight == UnusedMachine => ValuesInv
<1> SUFFICES ASSUME UnusedMachine PROVE ValuesInv
  OBVIOUS
<1>1. stack[0] = Undef
  BY CodeGenAssumption DEF UnusedMachine
<1>2. IsValue(Undef) /\ DOMAIN returns = {}
  BY DEF IsValue, UnusedMachine
<1>3. QED BY <1>1, <1>2 DEF ValuesInv, UnusedMachine

(* The same of the next state. *)
LEMMA UnusedIsRightAfter == (UnusedMachine => ValuesInv)'
BY UnusedIsRight, PTL

(* Every step keeps what is said of values. *)
LEMMA ValuesKept ==
  ASSUME Means, [Next]_vars
  PROVE  ValuesInv'
<1>1. CASE Compile
  <2>1. UNCHANGED machine /\ ~Generated
    BY <1>1 DEF Compile, CodeGenNext, Write, WriteAssign, WriteIf, WriteWhile, WriteTest, WriteEnd,
       WriteFunction, WriteFunctionEnd, WriteCall, WriteReturn, WriteDone, Room,
       GenerateTargetCode, GenerateSimple, GenerateRelational, GenerateFuncStart,
       GenerateFuncEnd, AssertFails, Overrun, PatchIncompleteJumps, Generating, Generated
  <2>2. UnusedMachine'
    BY <2>1 DEF UnusedMachine, Means, RunInv, MachineInv, ValuesInv, machine
  <2>3. QED BY <2>2, UnusedIsRightAfter
<1>2. CASE ExecuteJump \/ ExecuteRecord \/ InfiniteLoop \/ Halt
  <2>1. /\ UNCHANGED <<program, target>> /\ UNCHANGED <<stack, retval_reg, returns, result>>
        /\ phase = "run" /\ phase' \in {"run", "halted", "infinite_loop"}
    BY <1>2 DEF ExecuteJump, ExecuteRecord, InfiniteLoop, Halt, machine, Running
  <2>2. QED BY <2>1, ValuesStay DEF Generated, Means
<1>3. CASE UNCHANGED vars
  <2>1. UNCHANGED <<program, target>> /\ UNCHANGED <<stack, retval_reg, returns, result, phase>>
    BY <1>3 DEF vars, machine
  <2>2. CASE Generated
    BY <2>1, <2>2, ValuesStay DEF Generated, Means
  <2>3. CASE ~Generated
    BY <2>1, <2>3 DEF Generated, Means, ValuesInv
  <2>4. QED BY <2>2, <2>3
<1>4. QED BY <1>1, <1>2, <1>3, AssignValues, GetRetValues, CallValues, ExitValues DEF Next, Execute

(* Every step keeps the meaning of the code. *)
LEMMA MeansKept == Means /\ [Next]_vars => Means'
<1> SUFFICES ASSUME Means, [Next]_vars PROVE Means'
  OBVIOUS
<1>1. RunInv'
  BY RunInvKept DEF Means
<1>2. ShapeInv'
  BY ShapeInvKept DEF Means, RunInv, CompiledInv
<1>3. EntriesInv' /\ DoesInv'
  BY DoesInvKept DEF Means, RunInv
<1>4. QED BY <1>1, <1>2, <1>3, ValuesKept DEF Means

(* It holds at the start. *)
LEMMA MeansInit == Init => Means
<1> SUFFICES ASSUME Init PROVE Means
  OBVIOUS
<1>1. UnusedMachine
  BY DEF Init, UnusedMachine
<1>2. QED BY <1>1, RunInvInit, ShapeInvInit, DoesInvInit, UnusedIsRight DEF Means

-----------------------------------------------------------------------------
(* The end of a function, as the quads count it. *)

(* The functions that begin, and that end, between quads f and d. *)
Begun(f, d) == {i \in f .. d : quads[i].op = "funcstart"}
Finished(f, d) == {i \in f .. d : quads[i].op = "funcend"}

(* What ends within a function has begun in it. *)
LEMMA FinishedHasBegun ==
  ASSUME CompiledInv, Generated, NEW f \in DOMAIN symbols, NEW e, Ends(f, e), NEW d \in f .. e
  PROVE  \E h \in Injection(Finished(f, d), Begun(f, d)) :
           \A i \in Finished(f, d) : Ends(h[i], i)
<1>1. /\ f \in DOMAIN quads /\ f \in Nat /\ e \in DOMAIN quads /\ e \in Nat /\ f < e
      /\ currQuad \in Nat /\ DOMAIN quads = 0 .. currQuad - 1 /\ ProgramInv /\ IsProgram(quads)
  BY Functions, Starts
<1>2. \A i \in f .. d : i \in DOMAIN quads /\ f <= i /\ i <= d /\ i <= e
  BY <1>1
<1>3. ASSUME NEW i \in Finished(f, d)
      PROVE  quads[i].arg1.value \in Begun(f, d) /\ Ends(quads[i].arg1.value, i)
  <2>1. i \in f .. d /\ quads[i].op = "funcend"
    BY DEF Finished
  <2>2. PICK g \in DOMAIN symbols : g < i /\ Ends(g, i)
    BY <1>1, <1>2, <2>1 DEF ProgramInv, EndsAfter
  <2>3. quads[i].arg1.value = g
    BY <2>2 DEF Ends, ProgramFunc
  <2>4. g \in Nat /\ quads[g].op = "funcstart"
    BY <2>2, Functions
  <2>5. f <= g
    <3>1. SUFFICES ASSUME g < f PROVE FALSE
      BY <1>1, <2>4
    <3>2. g <= f /\ f <= i /\ g # f /\ i <= e
      BY <1>1, <1>2, <2>1, <2>4, <3>1
    <3>3. e <= i /\ e # i
      BY <1>1, <1>2, <2>1, <2>2, <3>2 DEF ProgramInv, Nested
    <3>4. i \in Nat
      BY <1>1, <2>1
    <3>5. QED BY <1>1, <3>2, <3>3, <3>4
  <2>6. g \in f .. d
    BY <1>1, <2>1, <2>2, <2>4, <2>5
  <2>7. QED BY <2>2, <2>3, <2>4, <2>6 DEF Begun
<1>4. PICK h : h = [i \in Finished(f, d) |-> quads[i].arg1.value]
  OBVIOUS
<1>5. h \in [Finished(f, d) -> Begun(f, d)] /\ \A i \in Finished(f, d) : Ends(h[i], i)
  BY <1>3, <1>4
<1>6. \A i, j \in Finished(f, d) : h[i] = h[j] => i = j
  <2>1. \A i \in Finished(f, d) : h[i] \in DOMAIN symbols
    BY <1>1, <1>5, EndFacts
  <2>2. QED BY <1>5, <2>1, Functions
<1>7. h \in Injection(Finished(f, d), Begun(f, d))
  BY <1>5, <1>6 DEF Injection, IsInjective
<1>8. QED BY <1>5, <1>7

(* Only at its end as many functions have ended as have begun. *)
LEMMA BalancedAtEnd ==
  ASSUME CompiledInv, Generated, NEW f \in DOMAIN symbols, NEW e, Ends(f, e), NEW d \in f .. e
  PROVE  Cardinality(Begun(f, d)) = Cardinality(Finished(f, d)) <=> d = e
<1>1. /\ f \in DOMAIN quads /\ f \in Nat /\ e \in DOMAIN quads /\ e \in Nat /\ f < e
      /\ currQuad \in Nat /\ DOMAIN quads = 0 .. currQuad - 1 /\ ProgramInv /\ IsProgram(quads)
  BY Functions, Starts
<1>2. \A i \in f .. d : i \in DOMAIN quads /\ f <= i /\ i <= d /\ i <= e /\ i \in Nat
  BY <1>1
<1>3. PICK h \in Injection(Finished(f, d), Begun(f, d)) : \A i \in Finished(f, d) : Ends(h[i], i)
  BY FinishedHasBegun
<1>4. IsFiniteSet(Begun(f, d))
  <2>1. IsFiniteSet(f .. d) /\ Begun(f, d) \in SUBSET (f .. d)
    BY <1>1, FS_Interval DEF Begun
  <2>2. QED BY <2>1, FS_Subset
<1>5. Cardinality(Finished(f, d)) = Cardinality(Begun(f, d)) <=> h \in Surjection(Finished(f, d), Begun(f, d))
  BY <1>3, <1>4, FS_Injection
<1>6. h \in [Finished(f, d) -> Begun(f, d)]
  BY <1>3 DEF Injection, IsInjective
<1>7. CASE d = e
  <2>1. ASSUME NEW g \in Begun(f, d)
        PROVE  \E i \in Finished(f, d) : h[i] = g
    <3>1. g \in f .. d /\ quads[g].op = "funcstart" /\ g \in DOMAIN quads
      BY <1>2 DEF Begun
    <3>2. g \in DOMAIN symbols
      BY <1>1, <3>1 DEF ProgramInv, Declared
    <3>3. PICK i \in DOMAIN quads : Ends(g, i) /\ g < i /\ quads[i].op = "funcend"
      BY <3>2, Functions
    <3>4. i <= e
      BY <1>1, <1>2, <3>1, <3>2, <3>3 DEF ProgramInv, Nested
    <3>5. i \in f .. d
      BY <1>1, <1>7, <3>1, <3>3, <3>4
    <3>6. i \in Finished(f, d) /\ Ends(h[i], i)
      BY <1>3, <3>3, <3>5 DEF Finished
    <3>7. h[i] = g
      BY <3>3, <3>6 DEF Ends, ProgramFunc
    <3>8. QED BY <3>6, <3>7
  <2>2. h \in Surjection(Finished(f, d), Begun(f, d))
    BY <1>6, <2>1 DEF Surjection
  <2>3. QED BY <1>5, <1>7, <2>2
<1>8. CASE d # e
  <2>1. ASSUME h \in Surjection(Finished(f, d), Begun(f, d))
        PROVE  FALSE
    <3>1. f \in Begun(f, d)
      <4>1. quads[f].op = "funcstart" /\ f \in f .. d
        BY <1>1, Functions
      <4>2. QED BY <4>1 DEF Begun
    <3>2. PICK i \in Finished(f, d) : h[i] = f
      BY <2>1, <3>1 DEF Surjection
    <3>3. Ends(f, i)
      BY <1>3, <3>2
    <3>4. i = e
      BY <3>3, Functions
    <3>5. e \in f .. d
      BY <3>4 DEF Finished
    <3>6. QED BY <1>1, <1>8, <3>5
  <2>2. QED BY <1>5, <1>8, <2>1
<1>9. QED BY <1>7, <1>8

(* Sets are counted alike in both modules. *)
LEMMA CardinalityIs == \A S : QuadMachine!Cardinality(S) = Cardinality(S)
BY DEF QuadMachine!Cardinality, Cardinality

(* generate_FUNCEND finds the end that the quads have. *)
LEMMA EndIs ==
  ASSUME CompiledInv, Generated, NEW f \in DOMAIN symbols, NEW e, Ends(f, e)
  PROVE  QuadMachine!End(f) = e
<1>1. /\ f \in Nat /\ e \in DOMAIN quads /\ e \in Nat /\ f < e
      /\ DOMAIN quads = 0 .. currQuad - 1
  BY Functions, Starts
<1>2. ProgramSeen.quads = quads
  BY DEF ProgramSeen
<1>3. ASSUME NEW d
      PROVE  QuadMachine!Balanced(f, d) <=> Cardinality(Begun(f, d)) = Cardinality(Finished(f, d))
  <2>1. PICK q : q = quads
    OBVIOUS
  <2>2. /\ Begun(f, d) = {i \in f .. d : q[i].op = "funcstart"}
        /\ Finished(f, d) = {i \in f .. d : q[i].op = "funcend"}
    BY <2>1 DEF Begun, Finished
  <2>3. ProgramSeen.quads = q
    BY <1>2, <2>1
  <2>4. QuadMachine!Balanced(f, d) <=>
          Cardinality({i \in f .. d : ProgramSeen.quads[i].op = "funcstart"}) =
          Cardinality({i \in f .. d : ProgramSeen.quads[i].op = "funcend"})
    BY CardinalityIs DEF QuadMachine!Balanced
  <2>5. QED BY <2>2, <2>3, <2>4
<1>4. \A d \in f .. e : QuadMachine!Balanced(f, d) <=> d = e
  BY <1>3, BalancedAtEnd
<1>5. \A d \in f .. e - 1 : ~QuadMachine!Balanced(f, d)
  <2>1. \A d \in f .. e - 1 : d \in f .. e /\ d # e
    BY <1>1
  <2>2. QED BY <1>4, <2>1
<1>6. e > f /\ QuadMachine!Balanced(f, e)
  <2>1. e \in f .. e
    BY <1>1
  <2>2. QED BY <1>1, <1>4, <2>1
<1>7. ASSUME NEW c \in DOMAIN quads, c > f, QuadMachine!Balanced(f, c),
             \A d \in f .. c - 1 : ~QuadMachine!Balanced(f, d)
      PROVE  c = e
  <2>1. c \in Nat
    BY <1>1
  <2>2. ~(e < c)
    <3>1. SUFFICES ASSUME e < c PROVE FALSE
      OBVIOUS
    <3>2. e \in f .. c - 1
      BY <1>1, <2>1, <3>1
    <3>3. QED BY <1>6, <1>7, <3>2
  <2>3. c \in f .. e
    BY <1>1, <1>7, <2>1, <2>2
  <2>4. QED BY <1>4, <1>7, <2>3
<1>8. QED BY <1>1, <1>2, <1>5, <1>6, <1>7 DEF QuadMachine!End

-----------------------------------------------------------------------------
(* Quads and addresses. *)

(* Every quad has an address of its own. *)
LEMMA StartsApart ==
  ASSUME CompiledInv, Generated, NEW i \in 0 .. currQuad, NEW j \in 0 .. currQuad
  PROVE  Start(i) = Start(j) => i = j
<1>1. /\ currQuad \in Nat /\ DOMAIN quads = 0 .. currQuad - 1 /\ Start(currQuad) = currInstruction
      /\ \A k \in DOMAIN quads : Start(k) \in Nat /\ Start(k) + Size(k) <= currInstruction
      /\ \A k, l \in DOMAIN quads : k < l => Start(k) + Size(k) <= Start(l)
      /\ currInstruction \in Nat
  BY Starts
<1>2. ASSUME NEW k \in 0 .. currQuad, NEW l \in 0 .. currQuad, k < l
      PROVE  Start(k) # Start(l)
  <2>1. k \in DOMAIN quads /\ (l \in DOMAIN quads \/ l = currQuad)
    BY <1>1, <1>2
  <2>2. PICK a \in Nat, b \in Nat, n \in Nat : a = Start(k) /\ b = Start(l) /\ n = Size(k) /\ n >= 1
    BY <1>1, <2>1, SizeIs
  <2>3. a + n <= b
    BY <1>1, <1>2, <2>1, <2>2
  <2>4. QED BY <2>2, <2>3
<1>3. i \in Nat /\ j \in Nat
  BY <1>1
<1>4. i < j \/ j < i \/ i = j
  BY <1>3
<1>5. QED BY <1>2, <1>4

(* The quad whose code is at p. *)
LEMMA QuadOfIs ==
  ASSUME CompiledInv, Generated, NEW i \in DOMAIN quads, NEW n \in Nat, n < Size(i)
  PROVE  /\ n = 0 => QuadOf(Start(i) + n) = i
         /\ n = 1 => QuadOf(Start(i) + n) = CHOOSE j \in 0 .. currQuad : Start(j) = I.result.value
         /\ n = 2 => QuadOf(Start(i) + n) = i + 1
<1>1. /\ currQuad \in Nat /\ DOMAIN quads = 0 .. currQuad - 1 /\ currInstruction \in Nat
      /\ \A k \in DOMAIN quads : /\ Start(k) = At(k) /\ Start(k) \in Nat
                                 /\ Start(k) + Size(k) <= currInstruction
      /\ \A k, l \in DOMAIN quads : k < l => Start(k) + Size(k) <= Start(l)
  BY Starts
<1>2. PICK a \in Nat, p \in Nat : a = Start(i) /\ a = taddress[i + 1] /\ p = a + n
  BY <1>1 DEF At
<1>3. p < currInstruction
  <2>1. PICK s \in Nat : s = Size(i)
    BY SizeIs
  <2>2. a + s <= currInstruction /\ n < s
    BY <1>1, <1>2, <2>1
  <2>3. PICK m \in Nat : m = currInstruction
    BY <1>1
  <2>4. a + s <= m /\ a + n < a + s
    BY <1>2, <2>1, <2>2, <2>3
  <2>5. p < m
    BY <1>2, <2>1, <2>4
  <2>6. QED BY <2>3, <2>5
<1>4. ASSUME NEW j \in DOMAIN quads, taddress[j + 1] <= p
      PROVE  j <= i
  <2>1. SUFFICES ASSUME i < j PROVE FALSE
    BY <1>1
  <2>2. PICK b \in Nat, s \in Nat : b = Start(j) /\ b <= p /\ s = Size(i) /\ a + s <= b
    BY <1>1, <1>2, <1>4, <2>1, SizeIs DEF At
  <2>3. QED BY <1>2, <2>2
<1>5. taddress[i + 1] <= p
  BY <1>2
<1>6. PICK q : q = CHOOSE k \in DOMAIN quads :
                     /\ taddress[k + 1] <= p
                     /\ \A j \in DOMAIN quads : taddress[j + 1] <= p => j <= k
  OBVIOUS
<1>7. q \in DOMAIN quads /\ taddress[q + 1] <= p /\ i <= q
  BY <1>4, <1>5, <1>6
<1>8. q = i
  <2>1. q <= i
    BY <1>4, <1>7
  <2>2. QED BY <1>1, <1>7, <2>1
<1>9. ~(p >= currInstruction)
  BY <1>1, <1>3
<1>10. QuadOf(p) = CASE p = a -> i
                     [] p = a + 1 -> CHOOSE k \in 0 .. currQuad : Start(k) = I.result.value
                     [] OTHER -> i + 1
  BY <1>2, <1>6, <1>8, <1>9 DEF QuadOf
<1>11. (n = 0 => p = a) /\ (n = 1 => p # a /\ p = a + 1) /\ (n = 2 => p # a /\ p # a + 1)
  BY <1>2
<1>12. QED BY <1>2, <1>10, <1>11

(* At its address the machine is at the quad. *)
LEMMA AtStart ==
  ASSUME CompiledInv, Generated, NEW i \in 0 .. currQuad
  PROVE  QuadOf(Start(i)) = i
<1>1. /\ currQuad \in Nat /\ DOMAIN quads = 0 .. currQuad - 1 /\ currInstruction \in Nat
      /\ Start(currQuad) = currInstruction
      /\ \A k \in DOMAIN quads : Start(k) \in Nat
  BY Starts
<1>2. CASE i = currQuad
  BY <1>1, <1>2 DEF QuadOf
<1>3. CASE i \in DOMAIN quads
  <2>1. PICK a \in Nat : a = Start(i)
    BY <1>1, <1>3
  <2>2. 0 < Size(i) /\ 0 \in Nat
    BY SizeIs
  <2>3. QuadOf(a + 0) = i
    BY <1>3, <2>1, <2>2, QuadOfIs
  <2>4. QED BY <2>1, <2>3
<1>4. QED BY <1>1, <1>2, <1>3

(* The addresses at which the machine is at a quad. *)
PlacesSeen ==
  /\ \A i \in 0 .. currQuad : pc = Start(i) => QuadOf(pc) = i
  /\ \A f \in DOMAIN symbols : \A e \in DOMAIN quads : Ends(f, e) =>
       /\ pc = Start(f) + 1 => QuadOf(pc) = e + 1
       /\ pc = Start(f) + 2 => QuadOf(pc) = f + 1

(* A quad is at its first instruction, and its code nowhere else. *)
LEMMA PlacesAreSeen == CompiledInv /\ Generated => PlacesSeen
<1> SUFFICES ASSUME CompiledInv, Generated PROVE PlacesSeen
  OBVIOUS
<1>1. /\ currQuad \in Nat /\ DOMAIN quads = 0 .. currQuad - 1 /\ currInstruction \in Nat
      /\ Start(currQuad) = currInstruction
      /\ \A i \in DOMAIN quads : /\ Start(i) = At(i) /\ Start(i) \in Nat
                                 /\ Start(i) + Size(i) = Start(i + 1)
  BY Starts
<1>2. \A i \in 0 .. currQuad : QuadOf(Start(i)) = i
  BY AtStart
<1>3. ASSUME NEW f \in DOMAIN symbols, NEW e \in DOMAIN quads, Ends(f, e)
      PROVE  /\ pc = Start(f) + 1 => QuadOf(pc) = e + 1
             /\ pc = Start(f) + 2 => QuadOf(pc) = f + 1
  <2>1. f \in DOMAIN quads /\ Size(f) = 3 /\ Size(e) = 1
    BY <1>3, Functions
  <2>2. ASSUME pc = Start(f) + 1
        PROVE  QuadOf(pc) = e + 1
    <3>1. QuadOf(pc) = CHOOSE j \in 0 .. currQuad : Start(j) = I.result.value
      BY <2>1, <2>2, QuadOfIs
    <3>2. I.result.value = Start(e + 1)
      <4>1. PICK a \in Nat : a = Start(f) /\ a = At(f)
        BY <1>1, <2>1
      <4>2. pc + 1 = a + 2
        BY <2>2, <4>1
      <4>3. I = instructions[At(f) + 2]
        BY <4>1, <4>2 DEF I
      <4>4. e < next
        BY <1>1, <1>3 DEF CompiledInv, CodeInv
      <4>5. I.result.value = At(e) + 1
        BY <1>3, <4>3, <4>4 DEF CompiledInv, CodeInv, Skipped
      <4>6. QED BY <1>1, <2>1, <4>5
    <3>3. e + 1 \in 0 .. currQuad
      BY <1>1, <1>3
    <3>4. \A j \in 0 .. currQuad : Start(j) = Start(e + 1) => j = e + 1
      BY <3>3, StartsApart
    <3>5. QED BY <3>1, <3>2, <3>3, <3>4
  <2>3. ASSUME pc = Start(f) + 2
        PROVE  QuadOf(pc) = f + 1
    <3>1. 2 < Size(f) /\ 2 \in Nat
      BY <2>1
    <3>2. QuadOf(Start(f) + 2) = f + 1
      BY <2>1, <3>1, QuadOfIs
    <3>3. QED BY <2>3, <3>2
  <2>4. QED BY <2>2, <2>3
<1>4. QED BY <1>2, <1>3 DEF PlacesSeen

(* The same of the next state. *)
LEMMA PlacesAreSeenAfter == (CompiledInv /\ Generated => PlacesSeen)'
BY PlacesAreSeen, PTL

(* Where a step leads. *)
LEMMA StepSeen ==
  ASSUME CompiledInv', Generated', UNCHANGED <<program, target>>
  PROVE  /\ \A i \in 0 .. currQuad : pc' = Start(i) => QuadSeen' = i
         /\ \A f \in DOMAIN symbols : \A e \in DOMAIN quads : Ends(f, e) =>
              /\ pc' = Start(f) + 1 => QuadSeen' = e + 1
              /\ pc' = Start(f) + 2 => QuadSeen' = f + 1
<1>1. UNCHANGED <<quads, symbols, instructions, taddress>>
  BY DEF program, target
<1>2. /\ currQuad' = currQuad /\ \A x : Start(x)' = Start(x) /\ \A f, e : Ends(f, e)' <=> Ends(f, e)
  BY <1>1 DEF Start, currQuad, currInstruction, Ends
<1>3. PlacesSeen' /\ QuadSeen' = QuadOf(pc)'
  BY PlacesAreSeenAfter DEF QuadSeen
<1>4. ASSUME NEW i \in 0 .. currQuad, pc' = Start(i)
      PROVE  QuadSeen' = i
  BY <1>2, <1>3, <1>4 DEF PlacesSeen
<1>5. ASSUME NEW f \in DOMAIN symbols, NEW e \in DOMAIN quads, Ends(f, e)
      PROVE  /\ pc' = Start(f) + 1 => QuadSeen' = e + 1
             /\ pc' = Start(f) + 2 => QuadSeen' = f + 1
  BY <1>1, <1>2, <1>3, <1>5 DEF PlacesSeen
<1>6. QED BY <1>4, <1>5

(* The quad now. *)
LEMMA NowSeen ==
  ASSUME CompiledInv, Generated
  PROVE  /\ \A i \in 0 .. currQuad : pc = Start(i) => QuadSeen = i
         /\ \A f \in DOMAIN symbols : \A e \in DOMAIN quads : Ends(f, e) =>
              /\ pc = Start(f) + 1 => QuadSeen = e + 1
              /\ pc = Start(f) + 2 => QuadSeen = f + 1
BY PlacesAreSeen DEF PlacesSeen, QuadSeen

-----------------------------------------------------------------------------
(* Places to return to. *)

PlaceOf(p) == CHOOSE i \in 0 .. currQuad : Start(i) = p
Places(t) == [k \in DOMAIN t |-> PlaceOf(t[k])]

(* A place is that of one quad. *)
LEMMA PlaceIs ==
  ASSUME CompiledInv, Generated, NEW i \in 0 .. currQuad
  PROVE  PlaceOf(Start(i)) = i
<1>1. \A j \in 0 .. currQuad : Start(j) = Start(i) => j = i
  BY StartsApart
<1>2. QED BY <1>1 DEF PlaceOf

(* A call adds the place behind it. *)
LEMMA PlacesPushed ==
  ASSUME NEW S, NEW o \in Seq(S), NEW b \in S, NEW t, t = <<b>> \o o
  PROVE  Places(t) = <<PlaceOf(b)>> \o Places(o)
<1>1. PICK n \in Nat : n = Len(o) /\ DOMAIN o = 1 .. n
  BY LenProperties
<1>2. <<b>> \in Seq(S) /\ Len(<<b>>) = 1 /\ <<b>>[1] = b
  OBVIOUS
<1>3. /\ t \in Seq(S) /\ Len(t) = 1 + n
      /\ \A k \in 1 .. 1 + n : t[k] = IF k <= 1 THEN <<b>>[k] ELSE o[k - 1]
  BY <1>1, <1>2, ConcatProperties
<1>4. DOMAIN t = 1 .. 1 + n
  BY <1>3, LenProperties
<1>5. PICK P, T, c : P = Places(o) /\ T = Places(t) /\ c = PlaceOf(b)
  OBVIOUS
<1>6. /\ P = [k \in 1 .. n |-> PlaceOf(o[k])]
      /\ T = [k \in 1 .. 1 + n |-> PlaceOf(t[k])]
  BY <1>1, <1>4, <1>5 DEF Places
<1>7. PICK W : W = {P[k] : k \in 1 .. n} \cup {c}
  OBVIOUS
<1>8. P \in [1 .. n -> W] /\ c \in W
  BY <1>6, <1>7
<1>9. P \in Seq(W) /\ Len(P) = n
  BY <1>8, SeqDef, LenProperties
<1>10. <<c>> \in Seq(W) /\ Len(<<c>>) = 1 /\ <<c>>[1] = c
  BY <1>8
<1>11. PICK u : u = <<c>> \o P
  OBVIOUS
<1>12. /\ u \in Seq(W) /\ Len(u) = 1 + n
       /\ \A k \in 1 .. 1 + n : u[k] = IF k <= 1 THEN <<c>>[k] ELSE P[k - 1]
  BY <1>9, <1>10, <1>11, ConcatProperties
<1>13. DOMAIN u = 1 .. 1 + n /\ u = [k \in DOMAIN u |-> u[k]]
  BY <1>12, LenProperties
<1>14. ASSUME NEW k \in 1 .. 1 + n
       PROVE  T[k] = u[k]
  <2>1. CASE k = 1
    <3>1. t[1] = b /\ u[1] = c
      BY <1>2, <1>3, <1>10, <1>12, <1>14, <2>1
    <3>2. QED BY <1>5, <1>6, <1>14, <2>1, <3>1
  <2>2. CASE k # 1
    <3>1. k - 1 \in 1 .. n /\ ~(k <= 1)
      BY <1>14, <2>2
    <3>2. t[k] = o[k - 1] /\ u[k] = P[k - 1]
      BY <1>3, <1>12, <1>14, <3>1
    <3>3. P[k - 1] = PlaceOf(o[k - 1])
      BY <1>6, <3>1
    <3>4. QED BY <1>6, <1>14, <3>2, <3>3
  <2>3. QED BY <2>1, <2>2
<1>15. T = u
  BY <1>6, <1>13, <1>14
<1>16. QED BY <1>5, <1>11, <1>15

(* The end of one leads to the first. *)
LEMMA PlacesPopped ==
  ASSUME NEW S, NEW o \in Seq(S), o # << >>
  PROVE  /\ Places(o) # << >> /\ Head(Places(o)) = PlaceOf(Head(o))
         /\ Tail(Places(o)) = Places(Tail(o))
<1>1. PICK n \in Nat : n = Len(o) /\ DOMAIN o = 1 .. n
  BY LenProperties
<1>2. PICK t : t = Tail(o)
  OBVIOUS
<1>3. /\ t \in Seq(S) /\ Head(o) = o[1] /\ 1 \in DOMAIN o /\ Len(t) = n - 1
      /\ \A k \in DOMAIN t : k + 1 \in DOMAIN o /\ t[k] = o[k + 1]
  BY <1>1, <1>2, Behind
<1>4. DOMAIN t = 1 .. n - 1
  BY <1>3, LenProperties
<1>5. PICK P, T : P = Places(o) /\ T = Places(t)
  OBVIOUS
<1>6. /\ P = [k \in 1 .. n |-> PlaceOf(o[k])]
      /\ T = [k \in 1 .. n - 1 |-> PlaceOf(t[k])]
  BY <1>1, <1>4, <1>5 DEF Places
<1>7. PICK W : W = {P[k] : k \in 1 .. n}
  OBVIOUS
<1>8. P \in [1 .. n -> W]
  BY <1>6, <1>7
<1>9. P \in Seq(W) /\ Len(P) = n
  BY <1>8, SeqDef, LenProperties
<1>10. 1 \in 1 .. n
  BY <1>1, <1>3
<1>11. P # << >>
  BY <1>9, <1>10
<1>12. PICK u : u = Tail(P)
  OBVIOUS
<1>13. /\ u \in Seq(W) /\ Head(P) = P[1] /\ Len(u) = n - 1
       /\ \A k \in DOMAIN u : u[k] = P[k + 1]
  BY <1>9, <1>11, <1>12, Behind
<1>14. DOMAIN u = 1 .. n - 1 /\ u = [k \in DOMAIN u |-> u[k]]
  BY <1>13, LenProperties
<1>15. ASSUME NEW k \in 1 .. n - 1
       PROVE  T[k] = u[k]
  <2>1. k + 1 \in 1 .. n /\ t[k] = o[k + 1]
    BY <1>3, <1>4
  <2>2. u[k] = P[k + 1]
    BY <1>13, <1>14
  <2>3. P[k + 1] = PlaceOf(o[k + 1])
    BY <1>6, <2>1
  <2>4. QED BY <1>6, <2>1, <2>2, <2>3
<1>16. T = u
  BY <1>6, <1>14, <1>15
<1>17. Head(P) = PlaceOf(Head(o))
  BY <1>3, <1>6, <1>10, <1>13
<1>18. QED BY <1>2, <1>5, <1>11, <1>12, <1>16, <1>17

(* The machine returns to the quads it has left. *)
LEMMA ReturnsAreSeen == CompiledInv /\ Generated /\ ValuesInv => ReturnsSeen = Places(returns)
<1> SUFFICES ASSUME CompiledInv, Generated, ValuesInv PROVE ReturnsSeen = Places(returns)
  OBVIOUS
<1>1. ASSUME NEW k \in DOMAIN returns
      PROVE  QuadOf(returns[k]) = PlaceOf(returns[k])
  <2>1. PICK p : p = returns[k] /\ IsPlace(p)
    BY DEF ValuesInv
  <2>2. PICK i \in 0 .. currQuad : p = Start(i)
    BY <2>1 DEF IsPlace
  <2>3. QuadOf(Start(i)) = i /\ PlaceOf(Start(i)) = i
    BY AtStart, PlaceIs
  <2>4. QED BY <2>1, <2>2, <2>3
<1>2. QED BY <1>1 DEF ReturnsSeen, Places

(* The same of the next state. *)
LEMMA ReturnsAreSeenAfter == (CompiledInv /\ Generated /\ ValuesInv => ReturnsSeen = Places(returns))'
BY ReturnsAreSeen, PTL

(* A step of the machine changes no places. *)
LEMMA ReturnsStep ==
  ASSUME Means', Generated', UNCHANGED <<program, target>>, NEW t, t = returns'
  PROVE  ReturnsSeen' = Places(t)
<1>1. ReturnsSeen' = Places(returns)'
  BY ReturnsAreSeenAfter DEF Means, RunInv
<1>2. \A p : PlaceOf(p)' = PlaceOf(p)
  BY DEF PlaceOf, Start, program, target, currQuad, currInstruction
<1>3. Places(returns)' = Places(t)
  BY <1>2 DEF Places
<1>4. QED BY <1>1, <1>3

-----------------------------------------------------------------------------
(* Values of the machine and of the quads. *)

(* Functions are seen as themselves, and other values too. *)
LEMMA SeenIs ==
  ASSUME CompiledInv, Generated
  PROVE  /\ \A n : Seen(Number(n)) = Number(n)
         /\ Seen(None) = None /\ Seen(Undef) = Undef
         /\ \A f \in DOMAIN symbols : Seen(UserFunc(Start(f) + 2)) = QuadMachine!Func(f)
<1>1. \A n : Seen(Number(n)) = Number(n)
  BY DEF Seen, Number
<1>2. Seen(None) = None /\ Seen(Undef) = Undef
  BY DEF Seen, None, Undef
<1>3. ASSUME NEW f \in DOMAIN symbols
      PROVE  Seen(UserFunc(Start(f) + 2)) = QuadMachine!Func(f)
  <2>1. PICK a \in Nat : a = Start(f)
    BY Functions, Starts
  <2>2. PICK v : v = UserFunc(a + 2) /\ v = [type |-> "userfunc", value |-> a + 2]
    BY DEF UserFunc
  <2>3. ASSUME NEW g \in DOMAIN symbols, Start(g) + 2 = a + 2
        PROVE  g = f
    <3>1. PICK b \in Nat : b = Start(g)
      BY Functions, Starts
    <3>2. Start(g) = Start(f)
      BY <2>1, <2>3, <3>1
    <3>3. f \in 0 .. currQuad /\ g \in 0 .. currQuad
      <4>1. f \in DOMAIN quads /\ g \in DOMAIN quads
        BY Functions
      <4>2. currQuad \in Nat /\ DOMAIN quads = 0 .. currQuad - 1
        BY Starts
      <4>3. QED BY <4>1, <4>2
    <3>4. QED BY <3>2, <3>3, StartsApart
  <2>4. PICK g : g = CHOOSE h \in DOMAIN symbols : Start(h) + 2 = v.value
    OBVIOUS
  <2>5. g = f
    <3>1. v.value = a + 2 /\ Start(f) + 2 = a + 2
      BY <2>1, <2>2
    <3>2. QED BY <2>3, <2>4, <3>1
  <2>6. Seen(v) = [v EXCEPT !.value = f]
    <3>1. v.type = "userfunc"
      BY <2>2
    <3>2. Seen(v) = [v EXCEPT !.value = CHOOSE h \in DOMAIN symbols : Start(h) + 2 = v.value]
      BY <3>1 DEF Seen
    <3>3. QED BY <2>4, <2>5, <3>2
  <2>7. Seen(v) = [type |-> "userfunc", value |-> f]
    BY <2>2, <2>6
  <2>8. QED BY <2>1, <2>2, <2>7 DEF QuadMachine!Func
<1>4. QED BY <1>1, <1>2, <1>3

(* A value is seen as one of its kind. *)
LEMMA SeenKind ==
  ASSUME CompiledInv, Generated, NEW v, IsValue(v)
  PROVE  /\ Seen(v).type = v.type
         /\ v.type # "userfunc" => Seen(v) = v
         /\ v.type = "userfunc" => \E f \in DOMAIN symbols :
              v = UserFunc(Start(f) + 2) /\ Seen(v) = QuadMachine!Func(f)
<1>1. CASE v.type # "userfunc"
  BY <1>1 DEF Seen
<1>2. CASE v.type = "userfunc"
  <2>1. PICK f \in DOMAIN symbols : v = UserFunc(Start(f) + 2)
    BY <1>2 DEF IsValue, Undef, Number
  <2>2. Seen(v) = QuadMachine!Func(f)
    BY <2>1, SeenIs
  <2>3. QED BY <1>2, <2>1, <2>2 DEF QuadMachine!Func
<1>3. QED BY <1>1, <1>2

(* avm_translate_operand: an operand has a value that the quad may mean. *)
LEMMA OperandSeen ==
  ASSUME CompiledInv, Generated, NEW i \in DOMAIN quads, NEW e, NEW a, Reaches(i, e, a),
         e.type \in {"constnum", "var", "programfunc"}
  PROVE  Seen(Translate(a)) \in QuadMachine!Values(e, i)
<1>1. CASE e.type = "constnum"
  <2>1. Translate(a) = Number(e.value)
    BY <1>1 DEF Reaches, Translate, Arg
  <2>2. Seen(Translate(a)) = QuadMachine!Number(e.value)
    BY <2>1, SeenIs DEF Number, QuadMachine!Number
  <2>3. QED BY <1>1, <2>2 DEF QuadMachine!Values
<1>2. CASE e.type = "var"
  <2>1. Translate(a) = stack[0]
    BY <1>2 DEF Reaches, Translate, Arg, Global
  <2>2. QED BY <1>2, <2>1 DEF QuadMachine!Values
<1>3. CASE e.type = "programfunc"
  <2>1. PICK g \in DOMAIN symbols : /\ e.value <= g /\ g < i
                                    /\ symbols[g].name = symbols[e.value].name
                                    /\ a = Arg("userfunc_a", At(g) + 2)
    BY <1>3 DEF Reaches
  <2>2. Start(g) = At(g)
    BY Functions, Starts
  <2>3. Translate(a) = UserFunc(Start(g) + 2)
    BY <2>1, <2>2 DEF Translate, Arg
  <2>4. Seen(Translate(a)) = QuadMachine!Func(g)
    BY <2>3, SeenIs
  <2>5. g <= i
    <3>1. g \in Nat /\ i \in Nat
      BY Functions, Starts
    <3>2. QED BY <2>1, <3>1
  <2>6. ProgramSeen.symbols = symbols
    BY DEF ProgramSeen
  <2>7. g \in QuadMachine!Meant(e.value, i)
    BY <2>1, <2>5, <2>6 DEF QuadMachine!Meant
  <2>8. QED BY <1>3, <2>4, <2>7 DEF QuadMachine!Values
<1>4. QED BY <1>1, <1>2, <1>3

(* execute_JEQ and its like: the comparison that the quad makes. *)
LEMMA TakenIs ==
  ASSUME CompiledInv, Generated, ValuesInv, NEW i, Does(i, I), Shaped(quads[i]), quads[i].op \in Tests,
         NEW l, NEW r, l = Translate(I.arg1), r = Translate(I.arg2)
  PROVE  Taken(l, r) <=> QuadMachine!Holds(quads[i].op, Seen(l), Seen(r))
<1>1. PICK o, n : o = quads[i].op /\ n = quads[i].arg2.value
  OBVIOUS
<1>2. quads[i].arg1 = Var /\ quads[i].arg2.type = "constnum" /\ o \in DOMAIN JumpOpcode /\ o # "jump"
  BY <1>1 DEF Shaped, Tests
<1>3. /\ I.opcode = JumpOpcode[o]
      /\ Reaches(i, quads[i].arg1, I.arg1) /\ Reaches(i, quads[i].arg2, I.arg2)
  BY <1>1, <1>2 DEF Does
<1>4. I.arg1 = Global(0) /\ I.arg2 = Arg("number_a", n)
  BY <1>1, <1>2, <1>3 DEF Reaches, Var
<1>5. l = stack[0] /\ r = Number(n) /\ ~Unconditional
  BY <1>4 DEF Translate, Global, Arg, Unconditional
<1>6. IsValue(l) /\ Seen(r) = r /\ r.type = "number"
  BY <1>5, SeenIs DEF ValuesInv, Number
<1>7. /\ Seen(l).type = l.type /\ (l.type # "userfunc" => Seen(l) = l)
  BY <1>6, SeenKind
<1>8. PICK s : s = Seen(l) /\ s.type = l.type /\ (l.type = "number" => s = l)
  BY <1>7
<1>9. PICK c : c = I.opcode /\ c = JumpOpcode[o]
  BY <1>3
<1>10. /\ c = "jeq" => (Taken(l, r) <=> (l.type = r.type /\ l.type # "undef" /\ l.value = r.value))
       /\ c = "jne" => (Taken(l, r) <=> ~(l.type = r.type /\ l.type # "undef" /\ l.value = r.value))
       /\ c = "jlt" => (Taken(l, r) <=> l.type = "number" /\ r.type = "number" /\ l.value < r.value)
       /\ c = "jle" => (Taken(l, r) <=> l.type = "number" /\ r.type = "number" /\ l.value <= r.value)
       /\ c = "jgt" => (Taken(l, r) <=> l.type = "number" /\ r.type = "number" /\ l.value > r.value)
       /\ c = "jge" => (Taken(l, r) <=> l.type = "number" /\ r.type = "number" /\ l.value >= r.value)
  BY <1>5, <1>9 DEF Taken, JumpsIfEqual, CellsEqual, Comparable
<1>11. /\ o = "if_eq" => (QuadMachine!Holds(o, s, r) <=> (s.type = r.type /\ s.type # "undef" /\ s.value = r.value))
       /\ o = "if_noteq" => (QuadMachine!Holds(o, s, r) <=> ~(s.type = r.type /\ s.type # "undef" /\ s.value = r.value))
       /\ o = "if_less" => (QuadMachine!Holds(o, s, r) <=> s.type = "number" /\ r.type = "number" /\ s.value < r.value)
       /\ o = "if_lesseq" => (QuadMachine!Holds(o, s, r) <=> s.type = "number" /\ r.type = "number" /\ s.value <= r.value)
       /\ o = "if_greater" => (QuadMachine!Holds(o, s, r) <=> s.type = "number" /\ r.type = "number" /\ s.value > r.value)
       /\ o = "if_greatereq" => (QuadMachine!Holds(o, s, r) <=> s.type = "number" /\ r.type = "number" /\ s.value >= r.value)
  BY DEF QuadMachine!Holds, QuadMachine!Same, QuadMachine!Numeric
<1>12. \/ o = "if_eq" /\ c = "jeq"
       \/ o = "if_noteq" /\ c = "jne"
       \/ o = "if_less" /\ c = "jlt"
       \/ o = "if_lesseq" /\ c = "jle"
       \/ o = "if_greater" /\ c = "jgt"
       \/ o = "if_greatereq" /\ c = "jge"
  BY <1>2, <1>9 DEF JumpOpcode
<1>13. Taken(l, r) <=> QuadMachine!Holds(o, s, r)
  <2>1. CASE l.type = "number"
    <3>1. s = l
      BY <1>8, <2>1
    <3>2. QED BY <1>10, <1>11, <1>12, <3>1
  <2>2. CASE l.type # "number"
    <3>1. s.type # "number" /\ l.type # r.type /\ s.type # r.type
      BY <1>6, <1>8, <2>2
    <3>2. QED BY <1>10, <1>11, <1>12, <2>2, <3>1
  <2>3. QED BY <2>1, <2>2
<1>14. QED BY <1>1, <1>6, <1>8, <1>13

-----------------------------------------------------------------------------
(* Each step of the machine is one of the quads, or none. *)

(* The three places at which code runs. *)
AtItsQuad(i) ==
  /\ pc = Start(i) /\ Does(i, I) /\ Shaped(quads[i])
  /\ quads[i].op = "funcstart" => i \in DOMAIN symbols /\ I.opcode = "assign"
  /\ quads[i].op = "funcend" => I.opcode = "funcexit"
AtSkip(f, e) ==
  /\ pc = Start(f) + 1 /\ Ends(f, e) /\ I.opcode = "jne" /\ Unconditional
  /\ I.result.value = Start(e + 1)
AtEnter(f) == pc = Start(f) + 2 /\ I.opcode = "funcenter"

(* The machine is at one of them. *)
LEMMA AtCode ==
  ASSUME Means, Running
  PROVE  \/ \E i \in DOMAIN quads : AtItsQuad(i)
         \/ \E f \in DOMAIN symbols, e \in DOMAIN quads : AtSkip(f, e)
         \/ \E f \in DOMAIN symbols : AtEnter(f)
<1>1. Generated /\ CompiledInv /\ pc \in 0 .. currInstruction - 1
  BY RunningFacts DEF Means, RunInv
<1>2. PICK p, c : p = pc /\ c = instructions[p + 1] /\ c = I
  BY DEF I
<1>3. CASE \E i \in DOMAIN quads :
              /\ p = Start(i) /\ Does(i, c) /\ Shaped(quads[i])
              /\ quads[i].op = "funcstart" => i \in DOMAIN symbols /\ c.opcode = "assign"
              /\ quads[i].op = "funcend" => c.opcode = "funcexit"
  BY <1>2, <1>3 DEF AtItsQuad
<1>4. CASE \E f \in DOMAIN symbols, e \in DOMAIN quads :
              /\ p = Start(f) + 1 /\ Ends(f, e)
              /\ c.opcode = "jne" /\ c.arg1.type = "label_a" /\ c.arg2.type = "label_a"
              /\ c.result.value = Start(e + 1)
  BY <1>2, <1>4 DEF AtSkip, Unconditional
<1>5. CASE \E f \in DOMAIN symbols : p = Start(f) + 2 /\ c.opcode = "funcenter"
  BY <1>2, <1>5 DEF AtEnter
<1>6. QED BY <1>1, <1>2, <1>3, <1>4, <1>5, FetchedQuad DEF Means

(* The quad that is seen to run, and the one after it. *)
LEMMA SeesQuad ==
  ASSUME CompiledInv, Generated, phase = "run", NEW i \in DOMAIN quads, pc = Start(i)
  PROVE  /\ QuadMachine!Running /\ QuadSeen = i /\ QuadMachine!Q = quads[i]
         /\ i \in 0 .. currQuad /\ i + 1 \in 0 .. currQuad
         /\ quads[i].op # "funcstart" => pc + 1 = Start(i + 1)
<1>1. /\ currQuad \in Nat /\ DOMAIN quads = 0 .. currQuad - 1
      /\ Start(i) + Size(i) = Start(i + 1)
  BY Starts
<1>2. i \in 0 .. currQuad /\ i + 1 \in 0 .. currQuad
  BY <1>1
<1>3. QuadSeen = i
  BY <1>2, NowSeen
<1>4. ModeSeen = "run" /\ ProgramSeen.quads = quads
  BY DEF ModeSeen, ProgramSeen
<1>5. quads[i].op # "funcstart" => pc + 1 = Start(i + 1)
  BY <1>1 DEF Size
<1>6. QED BY <1>2, <1>3, <1>4, <1>5 DEF QuadMachine!Running, QuadMachine!Q

(* A step of the machine changes no program, and what it leaves is seen as *)
(* it was.                                                                  *)
LEMMA SeenStep ==
  ASSUME UNCHANGED <<program, target>>, Generated, Generated'
  PROVE  /\ ProgramSeen' = ProgramSeen
         /\ \A v : Seen(v)' = Seen(v)
         /\ UNCHANGED phase => ModeSeen' = ModeSeen
         /\ UNCHANGED result => Seen(result)' = Seen(result)
<1>1. UNCHANGED <<quads, symbols, instructions, taddress>>
  BY DEF program, target
<1>2. \A v : Seen(v)' = Seen(v)
  BY <1>1 DEF Seen, Start, currQuad, currInstruction
<1>3. ProgramSeen' = ProgramSeen
  BY <1>1 DEF ProgramSeen
<1>4. UNCHANGED phase => ModeSeen' = ModeSeen
  BY DEF ModeSeen, Generated
<1>5. UNCHANGED result => Seen(result)' = Seen(result)
  <2>1. SUFFICES ASSUME UNCHANGED result PROVE Seen(result)' = Seen(result)
    OBVIOUS
  <2>2. PICK v : v = result
    OBVIOUS
  <2>3. Seen(result)' = Seen(v)'
    BY <2>1, <2>2 DEF Seen
  <2>4. QED BY <1>2, <2>2, <2>3
<1>6. QED BY <1>2, <1>3, <1>4, <1>5

(* The variable after a step. *)
LEMMA XStep ==
  ASSUME UNCHANGED <<program, target>>, Generated, Generated', NEW s, s = stack', NEW v, s[0] = v
  PROVE  Seen(stack[0])' = Seen(v)
<1>1. Seen(v)' = Seen(v)
  BY SeenStep
<1>2. Seen(stack[0])' = Seen(v)'
  BY DEF Seen
<1>3. QED BY <1>1, <1>2

(* The places after a step that leaves them. *)
LEMMA ReturnsStay ==
  ASSUME Means, Means', Generated, Generated', UNCHANGED <<program, target>>, UNCHANGED returns
  PROVE  ReturnsSeen' = ReturnsSeen
<1>1. PICK t : t = returns
  OBVIOUS
<1>2. ReturnsSeen' = Places(t)
  BY <1>1, ReturnsStep
<1>3. ReturnsSeen = Places(t)
  BY <1>1, ReturnsAreSeen DEF Means, RunInv
<1>4. QED BY <1>2, <1>3

(* What a step that does not touch values and calls leaves. *)
LEMMA SeenStays ==
  ASSUME Means, Means', Generated, Generated', UNCHANGED <<program, target>>,
         UNCHANGED <<stack, returns, result>>
  PROVE  UNCHANGED <<ProgramSeen, ReturnsSeen, Seen(stack[0]), Seen(result)>>
<1>1. PICK s, v : s = stack' /\ s[0] = v /\ v = stack[0]
  OBVIOUS
<1>2. Seen(stack[0])' = Seen(stack[0])
  BY <1>1, XStep
<1>3. QED BY <1>2, SeenStep, ReturnsStay

-----------------------------------------------------------------------------
(* A jump is a comparison, a jump, or passes over a function. *)
LEMMA JumpMaps ==
  ASSUME Means, Means', ExecuteJump
  PROVE  QuadMachine!Test \/ QuadMachine!Goto \/ UNCHANGED QuadMachine!vars
<1>1. /\ Running /\ I.opcode \in JumpCodes
      /\ pc' = IF Taken(Translate(I.arg1), Translate(I.arg2)) THEN I.result.value ELSE pc + 1
      /\ UNCHANGED <<program, target>> /\ UNCHANGED <<stack, returns, result>> /\ UNCHANGED phase
  BY DEF ExecuteJump, JumpCodes
<1>2. Generated /\ Generated' /\ phase = "run" /\ CompiledInv /\ CompiledInv' /\ ValuesInv
  BY <1>1 DEF Generated, Running, Means, RunInv
<1>3. UNCHANGED <<ProgramSeen, ReturnsSeen, Seen(stack[0]), Seen(result), ModeSeen>>
  BY <1>1, <1>2, SeenStays, SeenStep
<1>4. PICK l, r, q : l = Translate(I.arg1) /\ r = Translate(I.arg2) /\ q = pc'
  OBVIOUS
<1>5. ASSUME NEW i \in DOMAIN quads, AtItsQuad(i)
      PROVE  QuadMachine!Test \/ QuadMachine!Goto
  <2>1. quads[i].op \in DOMAIN JumpOpcode /\ Does(i, I) /\ Shaped(quads[i]) /\ pc = Start(i)
    BY <1>1, <1>5, OpcodeTells DEF AtItsQuad
  <2>2. /\ QuadMachine!Running /\ QuadSeen = i /\ QuadMachine!Q = quads[i]
        /\ i + 1 \in 0 .. currQuad
        /\ quads[i].op # "funcstart" => pc + 1 = Start(i + 1)
    BY <1>2, <2>1, SeesQuad
  <2>3. pc + 1 = Start(i + 1)
    BY <2>1, <2>2, Opcodes
  <2>4. PICK k : k = quads[i].label
    OBVIOUS
  <2>5. k \in 0 .. currQuad
    BY <1>2, <2>1, <2>4, OldJump, Starts DEF IsJump
  <2>6. I.result.value = Start(k)
    <3>1. i \in 0 .. currQuad - 1 /\ pc = taddress[i + 1]
      BY <1>2, <2>1, Starts DEF At
    <3>2. QED BY <1>2, <2>1, <2>4, <3>1 DEF CompiledInv, GenerationInv, JumpsResolved, I
  <2>7. q = IF Taken(l, r) THEN Start(k) ELSE Start(i + 1)
    BY <1>1, <1>4, <2>3, <2>6
  <2>8. QuadSeen' = IF Taken(l, r) THEN k ELSE i + 1
    <3>1. \A j \in 0 .. currQuad : q = Start(j) => QuadSeen' = j
      BY <1>1, <1>2, <1>4, StepSeen
    <3>2. QED BY <2>2, <2>5, <2>7, <3>1
  <2>9. CASE quads[i].op \in Tests
    <3>1. Taken(l, r) <=> QuadMachine!Holds(quads[i].op, Seen(l), Seen(r))
      BY <1>2, <1>4, <2>1, <2>9, TakenIs
    <3>2. PICK a, b : a = Seen(l) /\ b = Seen(r)
      OBVIOUS
    <3>3. a \in QuadMachine!Values(quads[i].arg1, i) /\ b \in QuadMachine!Values(quads[i].arg2, i)
      <4>1. PICK e, f, x, y : e = quads[i].arg1 /\ f = quads[i].arg2 /\ x = I.arg1 /\ y = I.arg2
        OBVIOUS
      <4>2. Reaches(i, e, x) /\ Reaches(i, f, y)
        BY <2>1, <4>1 DEF Does
      <4>3. e.type \in {"constnum", "var", "programfunc"} /\ f.type \in {"constnum", "var", "programfunc"}
        BY <2>1, <2>9, <4>1, SourceTypes DEF Shaped
      <4>4. QED BY <1>2, <1>4, <3>2, <4>1, <4>2, <4>3, OperandSeen
    <3>4. QuadSeen' = IF QuadMachine!Holds(quads[i].op, a, b) THEN quads[i].label ELSE i + 1
      BY <2>4, <2>8, <3>1, <3>2
    <3>5. quads[i].op \in {"if_eq", "if_noteq", "if_less", "if_lesseq", "if_greater", "if_greatereq"}
      BY <2>9, Opcodes
    <3>6. QuadMachine!Test
      BY <1>3, <2>2, <3>3, <3>4, <3>5 DEF QuadMachine!Test
    <3>7. QED BY <3>6
  <2>10. CASE quads[i].op = "jump"
    <3>1. Reaches(i, NoExpr, I.arg1) /\ Reaches(i, NoExpr, I.arg2)
      BY <2>1, <2>10 DEF Does, Shaped
    <3>2. Unconditional /\ I.opcode = "jne"
      BY <2>1, <2>10, <3>1 DEF Reaches, NoExpr, Label, Arg, Unconditional, Does, JumpOpcode
    <3>3. Taken(l, r)
      BY <3>2 DEF Taken
    <3>4. QuadMachine!Goto
      BY <1>3, <2>2, <2>4, <2>8, <2>10, <3>3 DEF QuadMachine!Goto
    <3>5. QED BY <3>4
  <2>11. QED BY <2>1, <2>9, <2>10, Opcodes
<1>6. ASSUME NEW f \in DOMAIN symbols, NEW e \in DOMAIN quads, AtSkip(f, e)
      PROVE  UNCHANGED QuadMachine!vars
  <2>1. Taken(l, r)
    BY <1>6 DEF AtSkip, Taken
  <2>2. q = Start(e + 1)
    BY <1>1, <1>4, <1>6, <2>1 DEF AtSkip
  <2>3. e + 1 \in 0 .. currQuad
    BY <1>2, Starts
  <2>4. QuadSeen' = e + 1
    BY <1>1, <1>2, <1>4, <2>2, <2>3, StepSeen
  <2>5. QuadSeen = e + 1
    BY <1>2, <1>6, NowSeen DEF AtSkip
  <2>6. QED BY <1>3, <2>4, <2>5 DEF QuadMachine!vars
<1>7. ASSUME NEW f \in DOMAIN symbols, AtEnter(f)
      PROVE  FALSE
  BY <1>1, <1>7 DEF AtEnter, JumpCodes
<1>8. QED BY <1>1, <1>5, <1>6, <1>7, AtCode

(* An assignment assigns, returns, or makes a function a value. *)
LEMMA AssignMaps ==
  ASSUME Means, Means', ExecuteAssign
  PROVE  QuadMachine!Assign \/ QuadMachine!Return \/ QuadMachine!Define
<1>1. /\ Running /\ pc' = pc + 1 /\ UNCHANGED <<program, target>> /\ UNCHANGED <<phase, returns>>
  BY DEF ExecuteAssign
<1>2. Generated /\ Generated' /\ phase = "run" /\ CompiledInv /\ CompiledInv' /\ ValuesInv
  BY <1>1 DEF Generated, Running, Means, RunInv
<1>3. UNCHANGED <<ProgramSeen, ReturnsSeen, ModeSeen>>
  BY <1>1, <1>2, ReturnsStay, SeenStep
<1>4. PICK s, v : s = stack' /\ v = Translate(I.arg1)
  OBVIOUS
<1>5. PICK i \in DOMAIN quads :
        /\ pc = Start(i) /\ Does(i, I) /\ Shaped(quads[i]) /\ quads[i].op \in {"assign", "ret", "funcstart"}
        /\ quads[i].op = "assign" => s[0] = v /\ UNCHANGED <<retval_reg, result>>
        /\ quads[i].op = "ret" => s[0] = stack[0] /\ retval_reg' = v /\ result' = v
        /\ quads[i].op = "funcstart" =>
             i \in DOMAIN symbols /\ s[0] = stack[0] /\ UNCHANGED <<retval_reg, result>>
  BY <1>4, AssignIs
<1>6. /\ QuadMachine!Running /\ QuadSeen = i /\ QuadMachine!Q = quads[i]
      /\ i + 1 \in 0 .. currQuad
      /\ quads[i].op # "funcstart" => pc + 1 = Start(i + 1)
  BY <1>2, <1>5, SeesQuad
<1>7. quads[i].op # "funcstart" => QuadSeen' = i + 1
  BY <1>1, <1>2, <1>6, StepSeen
<1>8. quads[i].op \in {"assign", "ret"} => Seen(v) \in QuadMachine!Values(quads[i].arg1, i)
  <2>1. SUFFICES ASSUME quads[i].op \in {"assign", "ret"}
                 PROVE  Seen(v) \in QuadMachine!Values(quads[i].arg1, i)
    OBVIOUS
  <2>2. PICK e, a : e = quads[i].arg1 /\ a = I.arg1
    OBVIOUS
  <2>3. Reaches(i, e, a) /\ e.type \in {"constnum", "var", "programfunc"}
    BY <1>5, <2>1, <2>2 DEF Does, Shaped
  <2>4. QED BY <1>2, <1>4, <2>2, <2>3, OperandSeen
<1>9. PICK y : y = stack[0]
  OBVIOUS
<1>10. /\ s[0] = v => Seen(stack[0])' = Seen(v)
       /\ s[0] = stack[0] => Seen(stack[0])' = Seen(stack[0])
  <2>1. s[0] = v => Seen(stack[0])' = Seen(v)
    BY <1>1, <1>2, <1>4, XStep
  <2>2. s[0] = y => Seen(stack[0])' = Seen(y)
    BY <1>1, <1>2, <1>4, XStep
  <2>3. QED BY <1>9, <2>1, <2>2
<1>11. CASE quads[i].op = "assign"
  <2>1. Seen(result)' = Seen(result)
    BY <1>1, <1>2, <1>5, <1>11, SeenStep
  <2>2. QuadMachine!Assign
    BY <1>3, <1>5, <1>6, <1>7, <1>8, <1>10, <1>11, <2>1 DEF QuadMachine!Assign
  <2>3. QED BY <2>2
<1>12. CASE quads[i].op = "ret"
  <2>1. Seen(result)' = Seen(v)
    <3>1. Seen(v)' = Seen(v)
      BY <1>1, <1>2, SeenStep
    <3>2. Seen(result)' = Seen(v)'
      BY <1>5, <1>12 DEF Seen
    <3>3. QED BY <3>1, <3>2
  <2>2. QuadMachine!Return
    BY <1>3, <1>5, <1>6, <1>7, <1>8, <1>10, <1>12, <2>1 DEF QuadMachine!Return
  <2>3. QED BY <2>2
<1>13. CASE quads[i].op = "funcstart"
  <2>1. PICK e \in DOMAIN quads : Ends(i, e)
    BY <1>2, <1>5, <1>13, Functions
  <2>2. QuadSeen' = e + 1
    BY <1>1, <1>2, <1>5, <1>13, <2>1, StepSeen
  <2>3. QuadMachine!End(i) = e
    BY <1>2, <1>5, <1>13, <2>1, EndIs
  <2>4. Seen(result)' = Seen(result)
    BY <1>1, <1>2, <1>5, <1>13, SeenStep
  <2>5. QuadMachine!Define
    BY <1>3, <1>5, <1>6, <1>10, <1>13, <2>2, <2>3, <2>4 DEF QuadMachine!Define
  <2>6. QED BY <2>5
<1>14. QED BY <1>5, <1>11, <1>12, <1>13

(* PUSHARG is a quad, FUNCENTER none. *)
LEMMA RecordMaps ==
  ASSUME Means, Means', ExecuteRecord
  PROVE  QuadMachine!Param \/ UNCHANGED QuadMachine!vars
<1>1. /\ Running /\ I.opcode \in {"pusharg", "funcenter"} /\ pc' = pc + 1
      /\ UNCHANGED <<program, target>> /\ UNCHANGED <<stack, returns, result>> /\ UNCHANGED phase
  BY DEF ExecuteRecord
<1>2. Generated /\ Generated' /\ phase = "run" /\ CompiledInv /\ CompiledInv'
  BY <1>1 DEF Generated, Running, Means, RunInv
<1>3. UNCHANGED <<ProgramSeen, ReturnsSeen, Seen(stack[0]), Seen(result), ModeSeen>>
  BY <1>1, <1>2, SeenStays, SeenStep
<1>4. ASSUME NEW i \in DOMAIN quads, AtItsQuad(i)
      PROVE  QuadMachine!Param
  <2>1. quads[i].op = "param" /\ pc = Start(i)
    BY <1>1, <1>4, OpcodeTells DEF AtItsQuad
  <2>2. /\ QuadMachine!Running /\ QuadSeen = i /\ QuadMachine!Q = quads[i]
        /\ i + 1 \in 0 .. currQuad /\ pc + 1 = Start(i + 1)
    BY <1>2, <2>1, SeesQuad
  <2>3. QuadSeen' = i + 1
    BY <1>1, <1>2, <2>2, StepSeen
  <2>4. QED BY <1>3, <2>1, <2>2, <2>3 DEF QuadMachine!Param
<1>5. ASSUME NEW f \in DOMAIN symbols, AtEnter(f)
      PROVE  UNCHANGED QuadMachine!vars
  <2>1. PICK e \in DOMAIN quads : Ends(f, e)
    BY <1>2, Functions
  <2>2. f \in DOMAIN quads /\ Size(f) = 3
    BY <1>2, Functions
  <2>3. PICK a \in Nat : a = Start(f) /\ a + 3 = Start(f + 1)
    BY <1>2, <2>2, Starts
  <2>4. pc' = Start(f + 1)
    BY <1>1, <1>5, <2>3 DEF AtEnter
  <2>5. f + 1 \in 0 .. currQuad
    BY <1>2, <2>2, Starts
  <2>6. QuadSeen' = f + 1
    BY <1>1, <1>2, <2>4, <2>5, StepSeen
  <2>7. QuadSeen = f + 1
    BY <1>2, <1>5, <2>1, NowSeen DEF AtEnter
  <2>8. QED BY <1>3, <2>6, <2>7 DEF QuadMachine!vars
<1>6. ASSUME NEW f \in DOMAIN symbols, NEW e \in DOMAIN quads, AtSkip(f, e)
      PROVE  FALSE
  BY <1>1, <1>6 DEF AtSkip
<1>7. QED BY <1>1, <1>4, <1>5, <1>6, AtCode

(* A call enters the function that its quad may mean. *)
LEMMA CallMaps ==
  ASSUME Means, Means', ExecuteCall
  PROVE  QuadMachine!Call
<1>1. /\ Running /\ I.opcode = "callfunc" /\ UNCHANGED <<program, target>> /\ UNCHANGED <<stack, retval_reg>>
      /\ phase' = phase \/ phase' = "error"
  BY DEF ExecuteCall
<1>2. Generated /\ Generated' /\ phase = "run" /\ CompiledInv /\ CompiledInv' /\ MachineInv /\ ValuesInv
  BY <1>1 DEF Generated, Running, Means, RunInv
<1>3. PICK i \in DOMAIN quads : pc = Start(i) /\ Does(i, I) /\ Shaped(quads[i]) /\ quads[i].op = "call"
  <2>1. PICK i \in DOMAIN quads : AtItsQuad(i)
    BY <1>1, AtCode DEF AtSkip, AtEnter
  <2>2. QED BY <1>1, <2>1, OpcodeTells DEF AtItsQuad
<1>4. /\ QuadMachine!Running /\ QuadSeen = i /\ QuadMachine!Q = quads[i]
      /\ i \in 0 .. currQuad /\ i + 1 \in 0 .. currQuad /\ pc + 1 = Start(i + 1)
  BY <1>2, <1>3, SeesQuad
<1>5. ProgramSeen' = ProgramSeen /\ Seen(stack[0])' = Seen(stack[0])
  <2>1. PICK s, v : s = stack' /\ s[0] = v /\ v = stack[0]
    BY <1>1
  <2>2. QED BY <1>1, <1>2, <2>1, XStep, SeenStep
<1>6. PICK func, e, a : func = Translate(a) /\ a = I.arg1 /\ e = quads[i].arg1
  OBVIOUS
<1>7. Reaches(i, e, a) /\ e.type \in {"constnum", "var", "programfunc"}
  BY <1>3, <1>6 DEF Does, Shaped
<1>8. IsValue(func) /\ Seen(func) \in QuadMachine!Values(e, i)
  BY <1>2, <1>6, <1>7, OperandIsValue, OperandSeen
<1>9. CASE func.type = "userfunc"
  <2>1. /\ returns' = <<pc + 1>> \o returns /\ pc' = func.value /\ result' = None /\ phase' = phase
    BY <1>6, <1>9 DEF ExecuteCall
  <2>2. PICK f \in DOMAIN symbols : func = UserFunc(Start(f) + 2) /\ Seen(func) = QuadMachine!Func(f)
    BY <1>2, <1>8, <1>9, SeenKind
  <2>3. PICK d \in DOMAIN quads : Ends(f, d)
    BY <1>2, Functions
  <2>4. pc' = Start(f) + 2
    BY <2>1, <2>2 DEF UserFunc
  <2>5. QuadSeen' = f + 1
    BY <1>1, <1>2, <2>3, <2>4, StepSeen
  <2>6. PICK o, t, b : o = returns /\ t = returns' /\ b = pc + 1
    OBVIOUS
  <2>7. ReturnsSeen' = Places(t) /\ ReturnsSeen = Places(o)
    BY <1>1, <1>2, <2>6, ReturnsStep, ReturnsAreSeen
  <2>8. o \in Seq(0 .. currInstruction) /\ b \in 0 .. currInstruction /\ t = <<b>> \o o
    BY <1>1, <1>2, <2>1, <2>6, RunningFacts
  <2>9. Places(t) = <<PlaceOf(b)>> \o Places(o)
    BY <2>8, PlacesPushed
  <2>10. PlaceOf(b) = i + 1
    BY <1>2, <1>4, <2>6, PlaceIs
  <2>11. Seen(result)' = None
    BY <2>1 DEF Seen, None
  <2>12. ModeSeen' = ModeSeen
    BY <1>1, <1>2, <2>1, SeenStep
  <2>13. PICK g : g = Seen(func) /\ g.type = "userfunc" /\ g.value = f
    BY <2>2 DEF QuadMachine!Func
  <2>14. g \in QuadMachine!Values(quads[i].arg1, i)
    BY <1>6, <1>8, <2>13
  <2>15. ReturnsSeen' = <<i + 1>> \o ReturnsSeen
    BY <2>7, <2>9, <2>10
  <2>16. QuadMachine!None = None
    BY DEF QuadMachine!None, None
  <2>17. QED BY <1>3, <1>4, <1>5, <2>5, <2>11, <2>12, <2>13, <2>14, <2>15, <2>16 DEF QuadMachine!Call
<1>10. CASE func.type # "userfunc"
  <2>1. phase' = "error" /\ UNCHANGED <<returns, pc, result>>
    BY <1>6, <1>10 DEF ExecuteCall
  <2>2. QuadSeen' = i
    BY <1>1, <1>2, <1>3, <1>4, <2>1, StepSeen
  <2>3. ReturnsSeen' = ReturnsSeen /\ Seen(result)' = Seen(result)
    BY <1>1, <1>2, <2>1, ReturnsStay, SeenStep
  <2>4. ModeSeen' = "error"
    BY <1>2, <2>1 DEF ModeSeen
  <2>5. PICK g : g = Seen(func) /\ g.type # "userfunc"
    BY <1>2, <1>8, <1>10, SeenKind
  <2>6. g \in QuadMachine!Values(quads[i].arg1, i)
    BY <1>6, <1>8, <2>5
  <2>7. QED BY <1>3, <1>4, <1>5, <2>2, <2>3, <2>4, <2>5, <2>6 DEF QuadMachine!Call
<1>11. QED BY <1>9, <1>10

(* FUNCEXIT leaves the function. *)
LEMMA ExitMaps ==
  ASSUME Means, Means', ExecuteFuncExit
  PROVE  QuadMachine!Leave
<1>1. /\ Running /\ I.opcode = "funcexit" /\ UNCHANGED <<program, target>>
      /\ UNCHANGED <<stack, retval_reg, result>>
      /\ phase' = phase \/ phase' = "wild"
  BY DEF ExecuteFuncExit
<1>2. Generated /\ Generated' /\ phase = "run" /\ CompiledInv /\ CompiledInv' /\ MachineInv /\ ValuesInv
  BY <1>1 DEF Generated, Running, Means, RunInv
<1>3. PICK i \in DOMAIN quads : pc = Start(i) /\ quads[i].op = "funcend"
  <2>1. PICK i \in DOMAIN quads : AtItsQuad(i)
    BY <1>1, AtCode DEF AtSkip, AtEnter
  <2>2. QED BY <1>1, <2>1, OpcodeTells DEF AtItsQuad
<1>4. QuadMachine!Running /\ QuadSeen = i /\ QuadMachine!Q = quads[i]
  BY <1>2, <1>3, SeesQuad
<1>5. PICK o, t : o = returns /\ t = returns'
  OBVIOUS
<1>6. o # << >> /\ o \in Seq(0 .. currInstruction)
  <2>1. PICK p \in 0 .. currInstruction - 1 : p = pc /\ instructions[p + 1].opcode = "funcexit"
    BY <1>1, <1>2, RunningFacts DEF I
  <2>2. In(p)
    BY <1>2, <2>1, ExitIsInside
  <2>3. QED BY <1>1, <1>2, <1>5, <2>1, <2>2, RunningFacts
<1>7. pc' = Head(o) /\ t = Tail(o) /\ phase' = phase
  BY <1>5, <1>6 DEF ExecuteFuncExit
<1>8. ReturnsSeen' = Places(t) /\ ReturnsSeen = Places(o)
  BY <1>1, <1>2, <1>5, ReturnsStep, ReturnsAreSeen
<1>9. /\ Places(o) # << >> /\ Head(Places(o)) = PlaceOf(Head(o))
      /\ Tail(Places(o)) = Places(t)
  BY <1>6, <1>7, PlacesPopped
<1>10. PICK j \in 0 .. currQuad : Head(o) = Start(j)
  <2>1. PICK p : p = Head(o) /\ 1 \in DOMAIN o /\ p = o[1]
    BY <1>6, Behind
  <2>2. IsPlace(p)
    BY <1>2, <1>5, <2>1 DEF ValuesInv
  <2>3. QED BY <2>1, <2>2 DEF IsPlace
<1>11. QuadSeen' = j
  BY <1>1, <1>2, <1>7, <1>10, StepSeen
<1>12. PlaceOf(Head(o)) = j
  BY <1>2, <1>10, PlaceIs
<1>13. /\ ProgramSeen' = ProgramSeen /\ Seen(stack[0])' = Seen(stack[0])
       /\ Seen(result)' = Seen(result) /\ ModeSeen' = ModeSeen
  <2>1. PICK s, v : s = stack' /\ s[0] = v /\ v = stack[0]
    BY <1>1
  <2>2. QED BY <1>1, <1>2, <1>7, <2>1, XStep, SeenStep
<1>14. QED BY <1>3, <1>4, <1>8, <1>9, <1>11, <1>12, <1>13 DEF QuadMachine!Leave

(* GETRETVAL gives what the call has returned. *)
LEMMA GetRetMaps ==
  ASSUME Means, Means', ExecuteGetRet
  PROVE  QuadMachine!Result
<1>1. /\ Running /\ I.opcode = "getretval" /\ pc' = pc + 1 /\ UNCHANGED <<program, target>>
      /\ UNCHANGED <<phase, retval_reg, returns>> /\ result' = None
  BY DEF ExecuteGetRet
<1>2. Generated /\ Generated' /\ phase = "run" /\ CompiledInv /\ CompiledInv' /\ MachineInv /\ ValuesInv
  BY <1>1 DEF Generated, Running, Means, RunInv
<1>3. PICK i \in DOMAIN quads : pc = Start(i) /\ Does(i, I) /\ quads[i].op = "getretval"
  <2>1. PICK i \in DOMAIN quads : AtItsQuad(i)
    BY <1>1, AtCode DEF AtSkip, AtEnter
  <2>2. QED BY <1>1, <2>1, OpcodeTells DEF AtItsQuad
<1>4. /\ QuadMachine!Running /\ QuadSeen = i /\ QuadMachine!Q = quads[i]
      /\ i + 1 \in 0 .. currQuad /\ pc + 1 = Start(i + 1)
  BY <1>2, <1>3, SeesQuad
<1>5. QuadSeen' = i + 1
  BY <1>1, <1>2, <1>4, StepSeen
<1>6. PICK s, v : s = stack' /\ v = retval_reg
  OBVIOUS
<1>7. I.result.value = 0
  BY <1>3 DEF Does, Global, Arg
<1>8. s = [stack EXCEPT ![0] = v]
  BY <1>6, <1>7 DEF ExecuteGetRet, Assigned
<1>9. s[0] = v
  BY <1>2, <1>8, ZeroStored
<1>10. Seen(stack[0])' = Seen(v)
  BY <1>1, <1>2, <1>6, <1>9, XStep
<1>11. Seen(result) # None => Seen(result) = Seen(v)
  <2>1. result = None => Seen(result) = None
    BY <1>2, SeenIs
  <2>2. result = None \/ result = v
    BY <1>2, <1>6 DEF ValuesInv
  <2>3. QED BY <2>1, <2>2
<1>12. Seen(result)' = None
  BY <1>1 DEF Seen, None
<1>13. QuadMachine!None = None
  BY DEF QuadMachine!None, None
<1>14. UNCHANGED <<ProgramSeen, ReturnsSeen, ModeSeen>>
  BY <1>1, <1>2, ReturnsStay, SeenStep
<1>15. QED BY <1>3, <1>4, <1>5, <1>10, <1>11, <1>12, <1>13, <1>14 DEF QuadMachine!Result

(* The ends of vm_run are those of the quads. *)
LEMMA EndMaps ==
  ASSUME Means, Means', InfiniteLoop \/ Halt
  PROVE  QuadMachine!Stop \/ QuadMachine!Halt
<1>1. /\ phase = "run" /\ UNCHANGED <<program, target>> /\ UNCHANGED <<stack, returns, result, pc>>
      /\ \/ phase' = "infinite_loop"
         \/ phase' = "halted" /\ pc >= currInstruction
  BY DEF InfiniteLoop, Halt, machine
<1>2. Generated /\ Generated' /\ CompiledInv
  BY <1>1 DEF Generated, Means, RunInv
<1>3. UNCHANGED <<ProgramSeen, ReturnsSeen, Seen(stack[0]), Seen(result)>>
  BY <1>1, <1>2, SeenStays
<1>4. QuadSeen' = QuadSeen
  BY <1>1, <1>2 DEF QuadSeen, QuadOf, I, Start, currQuad, currInstruction, program, target
<1>5. ModeSeen = "run"
  BY <1>1, <1>2 DEF ModeSeen
<1>6. CASE phase' = "infinite_loop"
  <2>1. ModeSeen' = "stopped"
    BY <1>2, <1>6 DEF ModeSeen
  <2>2. QED BY <1>3, <1>4, <1>5, <2>1 DEF QuadMachine!Stop
<1>7. CASE phase' = "halted" /\ pc >= currInstruction
  <2>1. ModeSeen' = "halted"
    BY <1>2, <1>7 DEF ModeSeen
  <2>2. QuadSeen = currQuad
    BY <1>2, <1>7 DEF QuadSeen, QuadOf
  <2>3. currQuad \notin DOMAIN quads
    BY <1>2, Starts
  <2>4. QuadSeen \notin DOMAIN ProgramSeen.quads
    BY <1>2, <2>2, <2>3 DEF ProgramSeen
  <2>5. QED BY <1>3, <1>4, <1>5, <2>1, <2>4 DEF QuadMachine!Halt
<1>8. QED BY <1>1, <1>6, <1>7

(* The machine that has not run holds nothing. *)
LEMMA UnusedSeen == UnusedMachine => ReturnsSeen = << >> /\ Seen(stack[0]) = Undef /\ Seen(result) = None
<1> SUFFICES ASSUME UnusedMachine PROVE ReturnsSeen = << >> /\ Seen(stack[0]) = Undef /\ Seen(result) = None
  OBVIOUS
<1>1. stack[0] = Undef /\ result = None
  BY CodeGenAssumption DEF UnusedMachine
<1>2. Seen(stack[0]) = Undef /\ Seen(result) = None
  BY <1>1 DEF Seen, Undef, None
<1>3. DOMAIN returns = {}
  BY DEF UnusedMachine
<1>4. ReturnsSeen = << >>
  BY <1>3 DEF ReturnsSeen
<1>5. QED BY <1>2, <1>4

(* The same of the next state. *)
LEMMA UnusedSeenAfter ==
  (UnusedMachine => ReturnsSeen = << >> /\ Seen(stack[0]) = Undef /\ Seen(result) = None)'
BY UnusedSeen, PTL

(* Until the code is complete there is no program. *)
LEMMA NoProgramSeen == UnusedMachine /\ ~Generated => QuadMachine!Init
<1> SUFFICES ASSUME UnusedMachine, ~Generated PROVE QuadMachine!Init
  OBVIOUS
<1>1. ReturnsSeen = << >> /\ Seen(stack[0]) = Undef /\ Seen(result) = None
  BY UnusedSeen
<1>2. ProgramSeen = QuadMachine!NoProgram
  BY Zenon DEF ProgramSeen, QuadMachine!NoProgram
<1>3. QuadSeen = 0
  BY Zenon DEF QuadSeen
<1>4. phase # "infinite_loop"
  BY DEF Generated
<1>5. ModeSeen = "idle"
  BY <1>4 DEF ModeSeen
<1>6. QED BY <1>1, <1>2, <1>3, <1>5 DEF QuadMachine!Init, QuadMachine!Undef, QuadMachine!None, Undef, None

(* The same of the next state. *)
LEMMA NoProgramSeenAfter == (UnusedMachine /\ ~Generated => QuadMachine!Init)'
BY NoProgramSeen, PTL

(* The first quad has the first address. *)
LEMMA RunsFromZero == CompiledInv /\ Generated /\ pc = 0 => QuadSeen = 0
<1> SUFFICES ASSUME CompiledInv, Generated, pc = 0 PROVE QuadSeen = 0
  OBVIOUS
<1>1. /\ currQuad \in Nat /\ DOMAIN quads = 0 .. currQuad - 1 /\ currInstruction \in Nat
      /\ Start(currQuad) = currInstruction
      /\ \A k \in DOMAIN quads : Start(k) \in Nat /\ Start(k) + Size(k) <= currInstruction
      /\ \A k, l \in DOMAIN quads : k < l => Start(k) + Size(k) <= Start(l)
      /\ \A p \in 0 .. currInstruction - 1 : \E i \in DOMAIN quads :
           Start(i) <= p /\ p < Start(i) + Size(i)
  BY Starts
<1>2. Start(0) = 0
  <2>1. CASE currInstruction = 0
    <3>1. DOMAIN quads = {}
      <4>1. SUFFICES ASSUME NEW k \in DOMAIN quads PROVE FALSE
        OBVIOUS
      <4>2. PICK a \in Nat, n \in Nat : a = Start(k) /\ n = Size(k) /\ n >= 1 /\ a + n <= currInstruction
        BY <1>1, SizeIs
      <4>3. QED BY <2>1, <4>2
    <3>2. currQuad = 0
      <4>1. ~(0 \in 0 .. currQuad - 1)
        BY <1>1, <3>1
      <4>2. QED BY <1>1, <4>1
    <3>3. QED BY <1>1, <2>1, <3>2
  <2>2. CASE currInstruction # 0
    <3>1. 0 \in 0 .. currInstruction - 1
      BY <1>1, <2>2
    <3>2. PICK i \in DOMAIN quads : Start(i) <= 0
      BY <1>1, <3>1
    <3>3. Start(i) = 0 /\ i \in Nat
      BY <1>1, <3>2
    <3>4. i = 0
      <4>1. SUFFICES ASSUME 0 < i PROVE FALSE
        BY <3>3
      <4>2. 0 \in DOMAIN quads
        BY <1>1, <3>3
      <4>3. PICK a \in Nat, n \in Nat : a = Start(0) /\ n = Size(0) /\ n >= 1 /\ a + n <= Start(i)
        BY <1>1, <4>1, <4>2, SizeIs
      <4>4. QED BY <3>3, <4>3
    <3>5. QED BY <3>3, <3>4
  <2>3. QED BY <2>1, <2>2
<1>3. 0 \in 0 .. currQuad /\ pc = Start(0)
  BY <1>1, <1>2
<1>4. QED BY <1>3, NowSeen

(* The same of the next state. *)
LEMMA RunsFromZeroAfter == (CompiledInv /\ Generated /\ pc = 0 => QuadSeen = 0)'
BY RunsFromZero, PTL

(* Complete code is loaded; what was done before is not seen. *)
LEMMA CompileMaps ==
  ASSUME Means, Means', Compile
  PROVE  QuadMachine!Load \/ UNCHANGED QuadMachine!vars
<1>1. UNCHANGED machine /\ ~Generated /\ (Generated' => phase' = "run")
  BY DEF Compile, CodeGenNext, Write, WriteAssign, WriteIf, WriteWhile, WriteTest, WriteEnd,
     WriteFunction, WriteFunctionEnd, WriteCall, WriteReturn, WriteDone, Room,
     GenerateTargetCode, GenerateSimple, GenerateRelational, GenerateFuncStart,
     GenerateFuncEnd, AssertFails, Overrun, PatchIncompleteJumps, Generating, Generated
<1>2. UnusedMachine /\ UnusedMachine' /\ pc' = 0
  BY <1>1 DEF UnusedMachine, Means, RunInv, MachineInv, ValuesInv, machine
<1>3. QuadMachine!Init
  BY <1>1, <1>2, NoProgramSeen
<1>4. CASE ~Generated'
  <2>1. QuadMachine!Init'
    BY <1>2, <1>4, NoProgramSeenAfter
  <2>2. QED BY <1>3, <2>1 DEF QuadMachine!Init, QuadMachine!vars, QuadMachine!NoProgram,
                              QuadMachine!Undef, QuadMachine!None
<1>5. CASE Generated'
  <2>1. phase' = "run" /\ ModeSeen' = "run"
    BY <1>1, <1>5 DEF ModeSeen
  <2>2. ProgramSeen' # QuadMachine!NoProgram
    <3>1. quads' # << >>
      BY <2>1 DEF Means, ShapeInv
    <3>2. ProgramSeen'.quads = quads'
      BY <1>5 DEF ProgramSeen
    <3>3. QED BY <3>1, <3>2 DEF QuadMachine!NoProgram
  <2>3. QuadSeen' = 0
    BY <1>2, <1>5, RunsFromZeroAfter DEF Means, RunInv
  <2>4. ReturnsSeen' = << >> /\ Seen(stack[0])' = Undef /\ Seen(result)' = None
    BY <1>2, UnusedSeenAfter
  <2>5. QuadMachine!Undef = Undef /\ QuadMachine!None = None
    BY DEF QuadMachine!Undef, QuadMachine!None, Undef, None
  <2>6. QED BY <1>3, <2>1, <2>2, <2>3, <2>4, <2>5 DEF QuadMachine!Load, QuadMachine!Init
<1>6. QED BY <1>4, <1>5

(* Nothing done is nothing seen. *)
LEMMA StutterMaps ==
  ASSUME Means, Means', UNCHANGED vars
  PROVE  UNCHANGED QuadMachine!vars
<1>1. /\ UNCHANGED <<program, target>> /\ UNCHANGED <<stack, returns, result, pc>> /\ UNCHANGED phase
      /\ UNCHANGED <<retval_reg>>
  BY DEF vars, machine
<1>2. CASE Generated
  <2>1. Generated'
    BY <1>1, <1>2 DEF Generated
  <2>2. UNCHANGED <<ProgramSeen, ReturnsSeen, Seen(stack[0]), Seen(result), ModeSeen>>
    BY <1>1, <1>2, <2>1, SeenStays, SeenStep
  <2>3. QuadSeen' = QuadSeen
    BY <1>1, <1>2, <2>1 DEF QuadSeen, QuadOf, I, Start, currQuad, currInstruction, program, target
  <2>4. QED BY <2>2, <2>3 DEF QuadMachine!vars
<1>3. CASE ~Generated
  <2>1. UnusedMachine /\ UnusedMachine' /\ ~Generated'
    BY <1>1, <1>3 DEF Generated, UnusedMachine, Means, RunInv, MachineInv, ValuesInv
  <2>2. QuadMachine!Init /\ QuadMachine!Init'
    BY <1>3, <2>1, NoProgramSeen, NoProgramSeenAfter
  <2>3. QED BY <2>2 DEF QuadMachine!Init, QuadMachine!vars, QuadMachine!NoProgram,
                        QuadMachine!Undef, QuadMachine!None
<1>4. QED BY <1>2, <1>3

(* Every step of compiler and machine is one of the quads, or none. *)
LEMMA StepMaps == Means /\ [Next]_vars => Means' /\ [QuadMachine!Next]_QuadMachine!vars
<1> SUFFICES ASSUME Means, [Next]_vars PROVE Means' /\ [QuadMachine!Next]_QuadMachine!vars
  OBVIOUS
<1>1. Means'
  BY MeansKept
<1>2. CASE Compile
  BY <1>1, <1>2, CompileMaps DEF QuadMachine!Next
<1>3. CASE Execute
  <2>1. CASE ExecuteJump
    BY <1>1, <2>1, JumpMaps DEF QuadMachine!Next
  <2>2. CASE ExecuteAssign
    BY <1>1, <2>2, AssignMaps DEF QuadMachine!Next
  <2>3. CASE ExecuteRecord
    BY <1>1, <2>3, RecordMaps DEF QuadMachine!Next
  <2>4. CASE ExecuteCall
    BY <1>1, <2>4, CallMaps DEF QuadMachine!Next
  <2>5. CASE ExecuteFuncExit
    BY <1>1, <2>5, ExitMaps DEF QuadMachine!Next
  <2>6. CASE ExecuteGetRet
    BY <1>1, <2>6, GetRetMaps DEF QuadMachine!Next
  <2>7. CASE InfiniteLoop \/ Halt
    BY <1>1, <2>7, EndMaps DEF QuadMachine!Next
  <2>8. QED BY <1>3, <2>1, <2>2, <2>3, <2>4, <2>5, <2>6, <2>7 DEF Execute
<1>4. CASE UNCHANGED vars
  BY <1>1, <1>4, StutterMaps
<1>5. QED BY <1>1, <1>2, <1>3, <1>4 DEF Next

(* Before anything is written there is no program to run. *)
LEMMA InitMaps == Init => Means /\ QuadMachine!Init
<1> SUFFICES ASSUME Init PROVE Means /\ QuadMachine!Init
  OBVIOUS
<1>1. UnusedMachine /\ ~Generated
  BY DEF Init, CodeGenInit, UnusedMachine, Generated
<1>2. QED BY <1>1, MeansInit, NoProgramSeen

(* The generator and vm_run, against the meaning of quads: whatever program *)
(* is written, its code does what its quads say - jumps, definitions,       *)
(* calls, returns and results - until the machine stops.                    *)
THEOREM QuadsAreExecuted == Spec => ImplementsQuads
<1>1. Init => Means /\ QuadMachine!Init
  BY InitMaps
<1>2. Means /\ [Next]_vars => Means' /\ [QuadMachine!Next]_QuadMachine!vars
  BY StepMaps
<1>3. QED
  BY <1>1, <1>2, PTL DEF Spec, ImplementsQuads, QuadMachine!Spec
=============================================================================
