---------------------------- MODULE ThreadSizes ----------------------------
(* The threads of lab2a/lab2_list.c and lab2b/lab2_list.c. *)
EXTENDS Integers

CONSTANTS threads,     \* --threads
          iterations   \* --iterations, the nodes of each thread

ASSUME SizesAssumption == threads \in Nat /\ iterations \in Nat

ThreadIds == 0 .. threads - 1
=============================================================================
