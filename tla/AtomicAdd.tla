----------------------------- MODULE AtomicAdd -----------------------------
(***************************************************************************)
(* What the synchronised variants of add() in lab2a/lab2_add.c promise:    *)
(* every add(&counter, 1) and add(&counter, -1) takes effect at one        *)
(* instant, so the counter is the number of threads that have added 1 and  *)
(* not yet taken it back.                                                  *)
(***************************************************************************)
EXTENDS Integers

CONSTANTS threads,     \* --threads
          iterations   \* --iterations

VARIABLES counter,     \* the shared long long
          added,       \* the threads between their +1 and their -1
          rounds       \* completed (+1, -1) pairs of each thread

vars == <<counter, added, rounds>>

ThreadIds == 0 .. threads - 1

Init ==
  /\ counter = 0
  /\ added = {}
  /\ rounds = [t \in ThreadIds |-> 0]

AddOne(t) ==
  /\ t \notin added
  /\ rounds[t] < iterations
  /\ counter' = counter + 1
  /\ added' = added \cup {t}
  /\ UNCHANGED rounds

SubtractOne(t) ==
  /\ t \in added
  /\ counter' = counter - 1
  /\ added' = added \ {t}
  /\ rounds' = [rounds EXCEPT ![t] = @ + 1]

Next == \E t \in ThreadIds : AddOne(t) \/ SubtractOne(t)

Spec == Init /\ [][Next]_vars
=============================================================================
