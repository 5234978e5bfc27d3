---------------------------- MODULE Environments ----------------------------
(***************************************************************************)
(* Lexical scoping: a stack of environments, each a mapping from names to  *)
(* what they denote.  A name means what the innermost environment says     *)
(* that knows it.  No table, no scope numbers, nothing to switch off.      *)
(* Declarations are numbered in the order in which they are made.          *)
(***************************************************************************)
EXTENDS Naturals, Sequences

CONSTANTS Names, Library

VARIABLES
  env,       \* innermost last
  declared,  \* how many declarations there have been
  answer,    \* what the last name was found to mean, 0 if it was refused
  mode       \* "scoped", or "lost": nothing is promised any more

vars == <<env, declared, answer, mode>>

NoNames == [n \in Names |-> 0]

Knowing(name) == {i \in DOMAIN env : env[i][name] # 0}
Meaning(name) ==
  IF Knowing(name) = {} THEN 0
  ELSE env[CHOOSE i \in Knowing(name) : \A j \in Knowing(name) : j <= i][name]

Scoped == mode = "scoped" /\ mode' = "scoped"
Here == env[Len(env)]
Free(name) == Here[name] = 0 /\ (name \in Library => Len(env) = 1)

Bind(name) ==
  /\ declared' = declared + 1 /\ answer' = declared + 1
  /\ env' = [env EXCEPT ![Len(env)][name] = declared + 1]

(* A name that means nothing is declared where it stands. *)
Refer ==
  /\ Scoped
  /\ \E name \in Names :
       IF Meaning(name) # 0 THEN answer' = Meaning(name) /\ UNCHANGED <<env, declared>>
       ELSE Bind(name)

Local ==
  /\ Scoped
  /\ \E name \in Names :
       IF Free(name) THEN Bind(name) ELSE answer' = 0 /\ UNCHANGED <<env, declared>>

ReferGlobal ==
  /\ Scoped
  /\ \E name \in Names : answer' = env[1][name]
  /\ UNCHANGED <<env, declared>>

(* Something without a name, such as a temporary or an anonymous function. *)
Unnamed ==
  /\ Scoped
  /\ declared' = declared + 1 /\ answer' = declared + 1
  /\ UNCHANGED env

Open ==
  /\ Scoped
  /\ env' = Append(env, NoNames) /\ answer' = 0
  /\ UNCHANGED declared

(* A function: its name, then its arguments in an environment of their own, *)
(* then the one of its body.  What cannot be declared is left out.          *)
Function ==
  /\ Scoped
  /\ \E name \in Names \cup {"$"} :
     LET named == name \in Names /\ Free(name)
         d == IF named \/ name = "$" THEN declared + 1 ELSE declared
         outer == IF named THEN [env EXCEPT ![Len(env)][name] = d] ELSE env
         new == d + 1 .. declared' IN
     /\ declared' >= d
     /\ answer' = IF d = declared THEN 0 ELSE d
     /\ \E arguments \in [Names -> {0} \cup new] :
          /\ \A i \in new : \E n \in Names \ Library : arguments[n] = i
          /\ \A n, m \in Names : arguments[n] # 0 /\ arguments[n] = arguments[m] => n = m
          /\ env' = outer \o <<arguments, NoNames>>

Close ==
  /\ Scoped
  /\ \E n \in {1, 2} : n < Len(env) /\ env' = SubSeq(env, 1, Len(env) - n)
  /\ answer' = 0
  /\ UNCHANGED declared

Lose == mode' = "lost"

Init ==
  /\ Len(env) = 1 /\ \A n \in Names : (env[1][n] # 0) <=> (n \in Library)
  /\ answer = 0 /\ mode \in {"scoped", "lost"}

Next == Refer \/ Local \/ ReferGlobal \/ Unnamed \/ Open \/ Function \/ Close \/ Lose

Spec == Init /\ [][Next]_vars
=============================================================================
