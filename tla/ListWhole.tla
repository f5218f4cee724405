----------------------------- MODULE ListWhole -----------------------------
(***************************************************************************)
(* lab2a/lab2_list.c: every thread inserts its nodes into one sorted list, *)
(* takes the length, and deletes its own nodes again, all under a single   *)
(* mutex or spin lock, or under none.  num_lists is 1.                     *)
(***************************************************************************)
EXTENDS SortedList, FiniteSets

CONSTANT SyncOptions   \* the values of --sync under study

ASSUME SyncAssumption == SyncOptions \subseteq {"n", "m", "s"} /\ num_lists = 1

Running == -1
DeathByCorruption == 2   \* the status of every kind of list trouble

VARIABLES
  opt_sync,  \* chosen on the command line, never changed
  lock,      \* is the mutex or the spin lock taken
  phase,     \* what runThread is doing: "insert", "length" or "delete"
  i,         \* its loop index, a node
  mainpc,    \* where main is: "create", "join" or "report"
  mi,        \* main's loop index
  exit       \* Running, or the exit status of the process

vars == <<listVars, opt_sync, lock, phase, i, mainpc, mi, exit>>
threadVars == <<next, prev, key, temp, nextnode, opt_sync, lock, phase, i>>

UsesLock == opt_sync \in {"m", "s"}
list == HeadOf(0)

\* The nodes of thread t are nodelist[startind .. startind + iterations - 1].
startind(t) == t * iterations
Owner(n) == n \div iterations

Init ==
  /\ ListsInit
  /\ pc = [t \in ThreadIds |-> "unborn"]
  /\ opt_sync \in SyncOptions
  /\ lock = FALSE
  /\ phase = [t \in ThreadIds |-> "insert"]
  /\ i = [t \in ThreadIds |-> startind(t)]
  /\ mainpc = "create"
  /\ mi = 0
  /\ exit = Running

-----------------------------------------------------------------------------
(* runThread. *)

\* Mutant: the result of the test-and-set is not looked at.
LockNotWaiting(t) ==
  /\ pc[t] = "lock"
  /\ lock' = TRUE
  /\ Goto(t, "insert")
  /\ UNCHANGED <<next, prev, key, temp, nextnode, opt_sync, phase, i>>

Lock(t) ==
  /\ pc[t] = "lock"
  /\ ~lock
  /\ lock' = TRUE
  /\ Goto(t, "insert")
  /\ UNCHANGED <<next, prev, key, temp, nextnode, opt_sync, phase, i>>

\* The last node of the loops over the thread's part of nodelist.
Last(t) == startind(t) + iterations - 1

\* Mutant: only one node is deleted.
MoreNodesDeleteOnce(t) == phase[t] = "insert" /\ i[t] < Last(t)

\* The tests of the insertion and the deletion loop after i++.
MoreNodes(t) == phase[t] # "length" /\ i[t] < Last(t)

\* A list operation has returned: the next call of the loop, the next loop, or
\* the release of the lock.
NextCall(t) ==
  /\ pc[t] = "ret"
  /\ IF MoreNodes(t)
     THEN i' = [i EXCEPT ![t] = @ + 1] /\ Goto(t, phase[t]) /\ UNCHANGED phase
     ELSE /\ i' = [i EXCEPT ![t] = startind(t)]
          /\ CASE phase[t] = "insert" -> phase' = [phase EXCEPT ![t] = "length"] /\ Goto(t, "length")
               [] phase[t] = "length" -> phase' = [phase EXCEPT ![t] = "delete"] /\ Goto(t, "delete")
               [] phase[t] = "delete" ->
                    /\ Goto(t, IF UsesLock THEN "unlock" ELSE "done")
                    /\ UNCHANGED phase
  /\ UNCHANGED <<next, prev, key, temp, nextnode, opt_sync, lock>>

\* pthread_mutex_unlock or __sync_lock_release.
Unlock(t) ==
  /\ pc[t] = "unlock"
  /\ lock' = FALSE
  /\ Goto(t, "done")
  /\ UNCHANGED <<next, prev, key, temp, nextnode, opt_sync, phase, i>>

\* The "Delete failed" branch or the handler of SIGSEGV: exit(2).
Die(t) ==
  /\ pc[t] \in {"fail", "segv"}
  /\ exit' = DeathByCorruption
  /\ UNCHANGED <<threadVars, pc>>

ListStep(t) ==
  /\ InsertStep(t, list, i[t]) \/ Length(t, list) \/ LengthStep(t, list) \/ DeleteStep(t, i[t])
  /\ UNCHANGED <<opt_sync, lock, phase, i>>

Thread(t) ==
  /\ exit = Running
  /\ \/ (Lock(t) \/ ListStep(t) \/ NextCall(t) \/ Unlock(t)) /\ UNCHANGED exit
     \/ Die(t)
  /\ UNCHANGED <<mainpc, mi>>

-----------------------------------------------------------------------------
(* main. *)

CreateThread ==
  /\ mainpc = "create" /\ mi < threads
  /\ Goto(mi, IF UsesLock THEN "lock" ELSE "insert")
  /\ mi' = mi + 1
  /\ UNCHANGED <<threadVars, mainpc, exit>>

CreateFails ==
  /\ mainpc = "create" /\ mi < threads
  /\ exit' = 1
  /\ UNCHANGED <<threadVars, pc, mainpc, mi>>

AllCreated ==
  /\ mainpc = "create" /\ mi = threads
  /\ mainpc' = "join" /\ mi' = 0
  /\ UNCHANGED <<threadVars, pc, exit>>

JoinThread ==
  /\ mainpc = "join" /\ mi < threads
  /\ pc[mi] = "done"
  /\ mi' = mi + 1
  /\ UNCHANGED <<threadVars, pc, mainpc, exit>>

AllJoined ==
  /\ mainpc = "join" /\ mi = threads
  /\ mainpc' = "report"
  /\ UNCHANGED <<threadVars, pc, mi, exit>>

\* The lock is destroyed (a held mutex cannot be), the nodes freed, and the
\* length taken once more.  A list that is not empty is walked through freed
\* nodes: at least one of them is counted, or the walk faults.
Report ==
  /\ mainpc = "report"
  /\ exit' = IF opt_sync = "m" /\ lock THEN 1
             ELSE IF next[list] \in {NULL, list} THEN 0
             ELSE DeathByCorruption
  /\ UNCHANGED <<threadVars, pc, mainpc, mi>>

Main ==
  /\ exit = Running
  /\ \/ CreateThread \/ CreateFails \/ AllCreated
     \/ JoinThread \/ AllJoined \/ Report

\* The process has ended: nothing moves any more.
Ended == exit # Running /\ UNCHANGED vars

Next == (\E t \in ThreadIds : Thread(t)) \/ Main \/ Ended

Spec == Init /\ [][Next]_vars

FairSpec ==
  /\ Spec
  /\ \A t \in ThreadIds : WF_vars(Thread(t))
  /\ WF_vars(Main)

-----------------------------------------------------------------------------
(* Properties. *)

\* Type invariant: every pointer is a cell, NULL or uninitialised, and a
\* thread's index stays within its part of nodelist.
TypeOK ==
  /\ ListsTypeOK
  /\ opt_sync \in SyncOptions
  /\ lock \in BOOLEAN
  /\ pc \in [ThreadIds -> ListPcs \cup {"unborn", "lock", "unlock", "done"}]
  /\ phase \in [ThreadIds -> {"insert", "length", "delete"}]
  /\ \A t \in ThreadIds : i[t] \in Nodes /\ Owner(i[t]) = t
  /\ mainpc \in {"create", "join", "report"}
  /\ mi \in 0 .. threads
  /\ exit \in {Running, 0, 1, DeathByCorruption}

\* The thread between taking the lock and releasing it.
Holds(t) == UsesLock /\ pc[t] \in ListPcs \cup {"unlock"}

\* Under the single lock a thread sees the list to itself: only its own nodes
\* are ever linked while it works, and when the lock is free the list is empty
\* and properly linked again.
OwnNodesOnly ==
  UsesLock =>
    /\ \A n \in Nodes : Linked(n) => Holds(Owner(n))
    /\ ~lock => Sound(0) /\ Walk(0) = {list}

\* A thread about to delete has all its nodes from i on in the list, in order:
\* its deletions all succeed.
DeletesWhatItInserted ==
  UsesLock => \A t \in ThreadIds :
    pc[t] = "delete" => Sound(0) /\ Walk(0) \ {list} = i[t] .. Last(t)

\* With a lock every thread gets it, every walk of the list ends, and main
\* reports an empty list: unless a thread cannot be created, the status is 0.
EndsWell == UsesLock ~> exit \in {0, 1}
=============================================================================
