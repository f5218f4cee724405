--------------------------- MODULE ListPartition ---------------------------
(***************************************************************************)
(* lab2b/lab2_list.c: the sorted list is split into --lists sublists by    *)
(* the first letter of the key, each with its own mutex or spin lock.      *)
(* Every thread inserts its nodes, walks all sublists (when they are       *)
(* locked), then looks up each of its keys and deletes what it found.      *)
(* Keys are numbers whose remainder is that of their first letter.         *)
(***************************************************************************)
EXTENDS SortedList, FiniteSets

CONSTANT SyncOptions   \* the values of --sync under study

ASSUME SyncAssumption == SyncOptions \subseteq {"n", "m", "s"}

Running == -1
DeathByCorruption == 2   \* the status of every kind of list trouble

VARIABLES
  opt_sync,  \* chosen on the command line, never changed
  locked,    \* mutexlocks or spinlocks: is each sublist's lock taken
  phase,     \* which loop of runThread each thread is in
  i,         \* its loop index: a node, or a sublist in the length loop
  mainpc,    \* where main is: "create", "join" or "report"
  mi,        \* main's loop index
  exit       \* Running, or the exit status of the process

clientVars == <<opt_sync, locked, phase, i, mainpc, mi, exit>>
vars == <<listVars, clientVars>>

Lists == 0 .. num_lists - 1
UsesLock == opt_sync \in {"m", "s"}

\* The nodes of thread t are nodelist[startind .. startind + iterations - 1].
startind(t) == t * iterations

Init ==
  /\ ListsInit
  /\ pc = [t \in ThreadIds |-> "unborn"]
  /\ opt_sync \in SyncOptions
  /\ locked = [l \in Lists |-> FALSE]
  /\ phase = [t \in ThreadIds |-> "insert"]
  /\ i = [t \in ThreadIds |-> startind(t)]
  /\ mainpc = "create"
  /\ mi = 0
  /\ exit = Running

-----------------------------------------------------------------------------
(* runThread. *)

\* Mutant: the node's index picks the sublist, not its key.
listindexOfNode(t) == i[t] % num_lists

\* nodelist[i].key[0] % num_lists, or the index of the length loop.
listindex(t) == IF phase[t] = "length" THEN i[t] ELSE key[i[t]] % num_lists
list(t) == HeadOf(listindex(t))

\* Mutant: the result of the test-and-set is not looked at.
LockNotWaiting(t) ==
  /\ pc[t] = "lock"
  /\ locked' = [locked EXCEPT ![listindex(t)] = TRUE]
  /\ Goto(t, phase[t])
  /\ UNCHANGED <<next, prev, key, temp, nextnode, opt_sync, phase, i>>

\* getLockWaitTime: the mutex or the spin lock of the sublist is taken.
Lock(t) ==
  /\ pc[t] = "lock"
  /\ ~locked[listindex(t)]
  /\ locked' = [locked EXCEPT ![listindex(t)] = TRUE]
  /\ Goto(t, phase[t])
  /\ UNCHANGED <<next, prev, key, temp, nextnode, opt_sync, phase, i>>

\* The next call of the loop, or of the next loop; the length loop is only
\* there when the lists are locked.
EntryOf(ph) == IF UsesLock THEN "lock" ELSE ph

\* The last index of the loop the thread is in.
LastIndex(t) ==
  IF phase[t] = "length" THEN num_lists - 1 ELSE startind(t) + iterations - 1

NextCall(t) ==
  LET following == CASE phase[t] = "insert" -> IF UsesLock THEN "length" ELSE "lookup"
                     [] phase[t] = "length" -> "lookup"
                     [] phase[t] = "lookup" -> "done"
  IN  IF i[t] < LastIndex(t)
      THEN i' = [i EXCEPT ![t] = @ + 1] /\ Goto(t, EntryOf(phase[t])) /\ UNCHANGED phase
      ELSE /\ phase' = [phase EXCEPT ![t] = following]
           /\ i' = [i EXCEPT ![t] = IF following = "length" THEN 0 ELSE startind(t)]
           /\ Goto(t, IF following = "done" THEN "done" ELSE EntryOf(following))

\* The list operation is over: pthread_mutex_unlock or __sync_lock_release.
Unlock(t) ==
  /\ pc[t] = "ret"
  /\ locked' = IF UsesLock THEN [locked EXCEPT ![listindex(t)] = FALSE] ELSE locked
  /\ NextCall(t)
  /\ UNCHANGED <<next, prev, key, temp, nextnode, opt_sync>>

\* What the lookup found is deleted, under the same lock.
DeleteFound(t) ==
  /\ pc[t] = "found"
  /\ Goto(t, "delete")
  /\ UNCHANGED <<next, prev, key, temp, nextnode, opt_sync, locked, phase, i>>

\* "Lookup failed" or "delete failed", or the handler of SIGSEGV: exit(2).
Die(t) ==
  /\ pc[t] \in {"fail", "segv"}
  /\ exit' = DeathByCorruption
  /\ UNCHANGED <<listVars, opt_sync, locked, phase, i>>

ListStep(t) ==
  /\ \/ InsertStep(t, list(t), i[t])
     \/ Length(t, list(t)) \/ LengthStep(t, list(t))
     \/ Lookup(t, list(t)) \/ LookupStep(t, list(t), i[t])
     \/ DeleteStep(t, temp[t])
  /\ UNCHANGED <<opt_sync, locked, phase, i>>

Thread(t) ==
  /\ exit = Running
  /\ \/ (Lock(t) \/ ListStep(t) \/ DeleteFound(t) \/ Unlock(t)) /\ UNCHANGED exit
     \/ Die(t)
  /\ UNCHANGED <<mainpc, mi>>

-----------------------------------------------------------------------------
(* main. *)

threadVars == <<next, prev, key, temp, nextnode, opt_sync, locked, phase, i>>

CreateThread ==
  /\ mainpc = "create" /\ mi < threads
  /\ Goto(mi, EntryOf("insert"))
  /\ mi' = mi + 1
  /\ UNCHANGED <<threadVars, mainpc, exit>>

CreateFails ==
  /\ mainpc = "create" /\ mi < threads
  /\ exit' = 1
  /\ UNCHANGED <<threadVars, pc, mainpc, mi>>

AllCreated ==
  /\ mainpc = "create" /\ mi = threads
  /\ mainpc' = "join" /\ mi' = 0
  /\ UNCHANGED <<threadVars, pc, exit>>

JoinThread ==
  /\ mainpc = "join" /\ mi < threads
  /\ pc[mi] = "done"
  /\ mi' = mi + 1
  /\ UNCHANGED <<threadVars, pc, mainpc, exit>>

AllJoined ==
  /\ mainpc = "join" /\ mi = threads
  /\ mainpc' = "report"
  /\ UNCHANGED <<threadVars, pc, mi, exit>>

\* The locks are destroyed (a held mutex cannot be), the nodes freed, and the
\* lengths of the sublists added up.  A sublist that is not empty is walked
\* through freed nodes: it counts at least one of them or faults.
Report ==
  /\ mainpc = "report"
  /\ exit' = IF opt_sync = "m" /\ \E l \in Lists : locked[l] THEN 1
             ELSE IF \A l \in Lists : next[HeadOf(l)] \in {NULL, HeadOf(l)} THEN 0
             ELSE DeathByCorruption
  /\ UNCHANGED <<threadVars, pc, mainpc, mi>>

Main ==
  /\ exit = Running
  /\ \/ CreateThread \/ CreateFails \/ AllCreated
     \/ JoinThread \/ AllJoined \/ Report

\* The process has ended: nothing moves any more.
Ended == exit # Running /\ UNCHANGED vars

Next == (\E t \in ThreadIds : Thread(t)) \/ Main \/ Ended

Spec == Init /\ [][Next]_vars

Fairness == (\A t \in ThreadIds : WF_vars(Thread(t))) /\ WF_vars(Main)
FairSpec == Spec /\ Fairness

-----------------------------------------------------------------------------
(* Properties. *)

\* Type invariant: every pointer is a cell, NULL or uninitialised, and the
\* loop indices stay within the thread's part of nodelist.
TypeOK ==
  /\ ListsTypeOK
  /\ opt_sync \in SyncOptions
  /\ locked \in [Lists -> BOOLEAN]
  /\ pc \in [ThreadIds -> ListPcs \cup {"unborn", "lock", "done"}]
  /\ phase \in [ThreadIds -> {"insert", "length", "lookup", "done"}]
  /\ \A t \in ThreadIds :
       IF phase[t] = "length" THEN i[t] \in Lists
       ELSE i[t] - startind(t) \in 0 .. iterations - 1
  /\ mainpc \in {"create", "join", "report"}
  /\ mi \in 0 .. threads
  /\ exit \in {Running, 0, 1, DeathByCorruption}

\* A thread between taking a sublist's lock and releasing it.
Holds(t, l) == UsesLock /\ pc[t] \in ListPcs /\ listindex(t) = l

\* Each sublist is worked on by at most one thread at a time, and its lock is
\* taken exactly then: what is under the lock of sublist l is sublist l.
OneThreadPerList ==
  \A l \in Lists :
    /\ locked[l] <=> \E t \in ThreadIds : Holds(t, l)
    /\ \A t, u \in ThreadIds : Holds(t, l) /\ Holds(u, l) => t = u

\* A sublist whose lock is free is what SortedList.h says it is, and holds
\* exactly the linked nodes that hash to it: no node is lost or misplaced.
FreeListsSound ==
  UsesLock => \A l \in Lists : ~locked[l] =>
    /\ Sound(l)
    /\ Walk(l) \ {HeadOf(l)} = {n \in Nodes : Linked(n) /\ key[n] % num_lists = l}

\* Even unsynchronised threads cannot mix the sublists up: what can be reached
\* from a head are nodes that hash to its sublist, and no other head.
SublistsApart ==
  \A l \in Lists : \A c \in Walk(l) \ {HeadOf(l)} :
    c \in Nodes /\ key[c] % num_lists = l

\* Node j of thread t in nodelist.
Index(n) == startind(n[1]) + n[2]
NodeIds == ThreadIds \X (0 .. iterations - 1)

InsertedBy(t) ==
  IF phase[t] # "insert" THEN iterations
  ELSE i[t] - startind(t) + (IF pc[t] \in {"empty4", "link4", "ret"} THEN 1 ELSE 0)

DeletedBy(t) ==
  CASE phase[t] = "done" -> iterations
    [] phase[t] = "lookup" -> i[t] - startind(t) + (IF pc[t] = "ret" THEN 1 ELSE 0)
    [] OTHER -> 0

Atomic == INSTANCE PartitionedSet WITH
            key <- [n \in NodeIds |-> key[Index(n)]],
            members <- {n \in NodeIds : Linked(Index(n))},
            inserted <- [t \in ThreadIds |-> InsertedBy(t)],
            deleted <- [t \in ThreadIds |-> DeletedBy(t)]

\* With one lock per sublist the pointer manipulations of all threads behave
\* as atomic insertions into, and deletions from, one set of nodes: the
\* insertion happens at its third store, the deletion at its last.  UsesLock
\* never changes: this is UsesLock => Atomic!Spec in the form TLC can check.
ImplementsPartitionedSet ==
  /\ UsesLock => Atomic!Init
  /\ [][UsesLock => [Atomic!Next]_(Atomic!vars)]_vars

\* A thread may take out the node of another: still, of each key there are as many
\* nodes on the locked lists as lookups to come.
KeysBalance == UsesLock => Atomic!KeysBalance

\* Every thread gets each lock it waits for and finds what it looks up, every walk
\* of a list ends, and main finds the lists empty: the locked program always
\* ends, with status 0 (or 1 if a thread cannot be created).
EndsWell == UsesLock ~> exit \in {0, 1}
=============================================================================
