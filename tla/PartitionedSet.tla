-------------------------- MODULE PartitionedSet --------------------------
(***************************************************************************)
(* What lab2_list promises when its lists are locked: each thread puts its *)
(* own nodes into a shared set one after the other, then takes one node    *)
(* with the key of each of its own out again.  Keys may repeat, so what a  *)
(* thread takes out can be another thread's node.  Which list a node is on *)
(* (lab2b) or that there is a single one (lab2a) does not show.            *)
(***************************************************************************)
EXTENDS ThreadSizes, FiniteSets

CONSTANT Keys   \* what nodelist[].key can be

VARIABLES
  key,       \* the key of each node, drawn at random by main
  members,   \* the nodes on the lists
  inserted,  \* how many of its nodes each thread has inserted
  deleted,   \* how many of its keys each thread has looked up and deleted
  exit       \* Running, or the exit status of the process

vars == <<key, members, inserted, deleted, exit>>

Nodes == ThreadIds \X (0 .. iterations - 1)
Running == -1

Init ==
  /\ key \in [Nodes -> Keys]
  /\ members = {}
  /\ inserted = [t \in ThreadIds |-> 0]
  /\ deleted = [t \in ThreadIds |-> 0]
  /\ exit = Running

WithKey(S, k) == {n \in S : key[n] = k}

Insert(t) ==
  /\ inserted[t] < iterations
  /\ members' = members \cup {<<t, inserted[t]>>}
  /\ inserted' = [inserted EXCEPT ![t] = @ + 1]
  /\ UNCHANGED <<key, deleted, exit>>

\* A thread has put all its nodes in and has a key left to look up.
Deleting(t) == inserted[t] = iterations /\ deleted[t] < iterations

WantedKey(t) == key[<<t, deleted[t]>>]

\* A lookup that misses ends the program with status 2.
LookupAndDelete(t) ==
  /\ Deleting(t)
  /\ IF WithKey(members, WantedKey(t)) = {}
     THEN exit' = 2 /\ UNCHANGED <<members, deleted>>
     ELSE /\ \E found \in WithKey(members, WantedKey(t)) : members' = members \ {found}
          /\ deleted' = [deleted EXCEPT ![t] = @ + 1]
          /\ UNCHANGED exit
  /\ UNCHANGED <<key, inserted>>

AllDone == \A t \in ThreadIds : deleted[t] = iterations

\* The final check of main: status 0 if the lists are empty.
Report ==
  /\ AllDone
  /\ exit' = IF members = {} THEN 0 ELSE 2
  /\ UNCHANGED <<key, members, inserted, deleted>>

\* A thread cannot be created.
CreateFails ==
  /\ exit' = 1
  /\ UNCHANGED <<key, members, inserted, deleted>>

Ended == exit # Running /\ UNCHANGED vars

Next ==
  \/ /\ exit = Running
     /\ \/ \E t \in ThreadIds : Insert(t) \/ LookupAndDelete(t)
        \/ Report \/ CreateFails
  \/ Ended

Spec == Init /\ [][Next]_vars

-----------------------------------------------------------------------------
\* Type invariant; a thread looks nothing up before it has inserted everything.
TypeOK ==
  /\ key \in [Nodes -> Keys]
  /\ members \subseteq Nodes
  /\ inserted \in [ThreadIds -> 0 .. iterations]
  /\ deleted \in [ThreadIds -> 0 .. iterations]
  /\ exit \in {Running, 0, 1, 2}
  /\ \A t \in ThreadIds : deleted[t] > 0 => inserted[t] = iterations

\* The nodes whose threads have inserted them and not yet looked their key up.
Owed == {n \in Nodes : deleted[n[1]] <= n[2] /\ n[2] < inserted[n[1]]}

\* However the threads' lookups are shuffled between nodes with one key, there
\* are as many nodes with that key on the lists as lookups of it to come.
KeysBalance ==
  \A k \in Keys :
    Cardinality(WithKey(members, k)) = Cardinality(WithKey(Owed, k))

\* No lookup misses, and the lists are empty when the last thread is done: the
\* program never ends with status 2.
NeverCorrupted == exit # 2
=============================================================================
