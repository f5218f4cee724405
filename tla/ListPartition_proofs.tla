----------------------- MODULE ListPartition_proofs -----------------------
(***************************************************************************)
(* Proofs about ListPartition, for every number of threads, iterations and *)
(* lists and every set of keys: types, locks, the shape of the sublists,   *)
(* and that the locked sublists behave as one set of nodes.                *)
(***************************************************************************)
EXTENDS ListPartition, InductionLemmas, FiniteSetTheorems

InsertPcs == {"insert", "empty1", "empty2", "empty3", "empty4", "scan", "compare",
              "advance", "nextnode", "link1", "link2", "link3", "link4"}
LengthPcs == {"length", "count"}
DeletePcs == {"found", "delete", "check", "unlink1", "unlink2"}
LookupPcs == {"lookup", "look", "fail"} \cup DeletePcs

\* Where a thread can be in each of its loops.
PcsOf(ph) ==
  CASE ph = "insert" -> InsertPcs \cup {"unborn", "lock", "ret", "segv"}
    [] ph = "length" -> LengthPcs \cup {"lock", "ret", "segv"}
    [] ph = "lookup" -> LookupPcs \cup {"lock", "ret", "segv"}
    [] ph = "done" -> {"done"}

\* The loops of runThread: each thread is at a label of its loop, and at one of
\* its own nodes, or at a sublist.
ThreadOK(t) ==
  /\ pc[t] \in PcsOf(phase[t])
  /\ phase[t] = "length" => UsesLock
  /\ pc[t] = "lock" => UsesLock
  /\ IF phase[t] = "length" THEN i[t] \in Lists
     ELSE i[t] - startind(t) \in 0 .. iterations - 1

Control ==
  /\ pc \in [ThreadIds -> ListPcs \cup {"unborn", "lock", "done"}]
  /\ phase \in [ThreadIds -> {"insert", "length", "lookup", "done"}]
  /\ i \in [ThreadIds -> Int]
  /\ \A t \in ThreadIds : ThreadOK(t)
  /\ key \in [Cells -> Keys \cup {NULL}]
  /\ \A n \in Nodes : key[n] \in Keys
  /\ \A c \in Heads : key[c] = NULL
  /\ opt_sync \in SyncOptions
  /\ mainpc \in {"create", "join", "report"} /\ mi \in 0 .. threads
  /\ exit \in {Running, 0, 1, DeathByCorruption}
  /\ mainpc = "create" => \A t \in ThreadIds : t >= mi => pc[t] = "unborn"

\* The nodes of a thread are nodes, and the heads are not.
LEMMA OwnNodes ==
  ASSUME NEW t \in ThreadIds, NEW n \in Int, n - startind(t) \in 0 .. iterations - 1
  PROVE  n \in Nodes
  <1>1. t * iterations \in Nat /\ t * iterations + iterations <= threads * iterations
    <2>1. threads - 1 - t \in Nat /\ t \in Nat /\ iterations \in Nat
      BY SizesAssumption DEF ThreadIds
    <2>2. (threads - 1 - t) * iterations >= 0 /\ t * iterations >= 0
      BY <2>1
    <2>3. QED
      BY <2>1, <2>2, SizesAssumption
  <1>2. QED
    BY <1>1, SizesAssumption DEF Nodes, numNodes, startind

LEMMA CellKinds ==
  /\ numNodes \in Nat
  /\ Nodes \subseteq Cells /\ Nodes \subseteq Nat
  /\ \A l \in Lists : HeadOf(l) \in Cells /\ HeadOf(l) \in Heads /\ HeadOf(l) \notin Nodes
  /\ \A c \in Cells : c \in Nodes \/ \E l \in Lists : c = HeadOf(l)
  /\ \A l, m \in Lists : HeadOf(l) = HeadOf(m) => l = m
  /\ NULL \notin Cells /\ Wild \notin Cells
  <1>1. numNodes \in Nat
    BY SizesAssumption DEF numNodes
  <1>2. Nodes \subseteq Cells /\ Nodes \subseteq Nat
    BY <1>1 DEF Nodes, Cells
  <1>3. \A l \in Lists : HeadOf(l) \in Cells /\ HeadOf(l) \in Heads
    BY DEF Cells, Heads, Lists
  <1>4. \A l \in Lists : HeadOf(l) \notin Nodes
    BY <1>1, ListSizesAssumption DEF Nodes, HeadOf, Lists
  <1>5. \A c \in Cells : c \in Nodes \/ \E l \in Lists : c = HeadOf(l)
    BY DEF Cells, Heads, Lists
  <1>6. \A l, m \in Lists : HeadOf(l) = HeadOf(m) => l = m
    BY <1>1, ListSizesAssumption DEF HeadOf, Lists
  <1>7. QED
    BY <1>1, <1>2, <1>3, <1>4, <1>5, <1>6, PointersAssumption

LEMMA Hashed ==
  ASSUME NEW n \in Nodes, key[n] \in Keys
  PROVE  key[n] % num_lists \in Lists
  <1>1. key[n] \in Nat /\ num_lists \in Nat \ {0}
    BY ListSizesAssumption
  <1>2. QED
    BY <1>1 DEF Lists

\* The index of the sublist that a thread works on.
LEMMA ListindexIsAList ==
  ASSUME Control, NEW t \in ThreadIds
  PROVE  listindex(t) \in Lists
  BY OwnNodes, Hashed DEF Control, ThreadOK, listindex

-----------------------------------------------------------------------------
\* What a step within a list operation does to the control: it moves from a
\* label of the loop to another, and neither the loop nor the keys change.
LEMMA ListStepMoves ==
  ASSUME Control, NEW t \in ThreadIds, ListStep(t)
  PROVE  /\ pc[t] \in ListPcs \ {"ret", "found", "fail", "segv"}
         /\ \E label \in PcsOf(phase[t]) \cap ListPcs : pc' = [pc EXCEPT ![t] = label]
         /\ UNCHANGED <<key, phase, i, opt_sync, locked>>
  <1> USE DEF Control, ThreadOK, Goto, InsertPcs, LengthPcs, LookupPcs, DeletePcs, PcsOf, ListPcs
  <1>1. UNCHANGED <<phase, i, opt_sync, locked>>
    BY DEF ListStep
  <1>2. CASE InsertStep(t, list(t), i[t])
    <2>1. CASE Insert(t, list(t))
      BY <1>1, <2>1 DEF Insert
    <2>2. CASE EmptyLink(t, list(t), i[t])
      BY <1>1, <2>2 DEF EmptyLink
    <2>3. CASE ScanHead(t)
      BY <1>1, <2>3 DEF ScanHead
    <2>4. CASE ScanCompare(t, i[t])
      BY <1>1, <2>4 DEF ScanCompare
    <2>5. CASE ScanAdvance(t)
      BY <1>1, <2>5 DEF ScanAdvance
    <2>6. CASE TakeNextNode(t)
      BY <1>1, <2>6 DEF TakeNextNode
    <2>7. CASE Link(t, i[t])
      BY <1>1, <2>7 DEF Link
    <2>8. QED
      BY <1>2, <2>1, <2>2, <2>3, <2>4, <2>5, <2>6, <2>7 DEF InsertStep
  <1>3. CASE Length(t, list(t)) \/ LengthStep(t, list(t))
    BY <1>1, <1>3 DEF Length, LengthStep
  <1>4. CASE Lookup(t, list(t)) \/ LookupStep(t, list(t), i[t])
    BY <1>1, <1>4 DEF Lookup, LookupStep
  <1>5. CASE DeleteStep(t, temp[t])
    BY <1>1, <1>5 DEF DeleteStep, Delete, DeleteCheck, Unlink
  <1>6. QED
    BY <1>2, <1>3, <1>4, <1>5 DEF ListStep

\* What every step of the program does to the control, the locks and the keys.
LEMMA LockControl ==
  ASSUME Control, NEW t \in ThreadIds, Lock(t), UNCHANGED <<mainpc, mi, exit>>
  PROVE  Control'
  <1>1. phase[t] \in {"insert", "length", "lookup"} /\ pc' = [pc EXCEPT ![t] = phase[t]]
    BY DEF Lock, Goto, Control, ThreadOK, PcsOf
  <1>2. UNCHANGED <<key, phase, i, opt_sync>>
    BY DEF Lock
  <1>3. ASSUME NEW u \in ThreadIds
        PROVE  ThreadOK(u)'
    BY <1>1, <1>2 DEF Control, ThreadOK, PcsOf, InsertPcs, LengthPcs, LookupPcs, DeletePcs,
                      UsesLock, Lists, startind
  <1>4. mainpc = "create" => ~(t >= mi)
    BY DEF Control, Lock
  <1>5. QED
    BY <1>1, <1>2, <1>3, <1>4 DEF Control, ListPcs

LEMMA ListStepControl ==
  ASSUME Control, NEW t \in ThreadIds, ListStep(t), UNCHANGED <<mainpc, mi, exit>>
  PROVE  Control'
  <1>1. PICK label \in PcsOf(phase[t]) \cap ListPcs : pc' = [pc EXCEPT ![t] = label]
    BY ListStepMoves
  <1>2. UNCHANGED <<key, phase, i, opt_sync>> /\ pc[t] \in ListPcs
    BY ListStepMoves
  <1>3. ASSUME NEW u \in ThreadIds
        PROVE  ThreadOK(u)'
    BY <1>1, <1>2 DEF Control, ThreadOK, PcsOf, UsesLock, Lists, startind, ListPcs
  <1>4. mainpc = "create" => ~(t >= mi)
    BY <1>2 DEF Control, ListPcs
  <1>5. QED
    BY <1>1, <1>2, <1>3, <1>4 DEF Control, ListPcs

LEMMA DeleteFoundControl ==
  ASSUME Control, NEW t \in ThreadIds, DeleteFound(t), UNCHANGED <<mainpc, mi, exit>>
  PROVE  Control'
  <1>1. phase[t] = "lookup" /\ pc' = [pc EXCEPT ![t] = "delete"]
    BY DEF DeleteFound, Goto, Control, ThreadOK, PcsOf, InsertPcs, LengthPcs
  <1>2. UNCHANGED <<key, phase, i, opt_sync>>
    BY DEF DeleteFound
  <1>3. ASSUME NEW u \in ThreadIds
        PROVE  ThreadOK(u)'
    BY <1>1, <1>2 DEF Control, ThreadOK, PcsOf, LookupPcs, DeletePcs, UsesLock, Lists, startind
  <1>4. mainpc = "create" => ~(t >= mi)
    BY DEF Control, DeleteFound
  <1>5. QED
    BY <1>1, <1>2, <1>3, <1>4 DEF Control, ListPcs

\* The three loops of runThread after one of their calls.
LEMMA UnlockMoves ==
  ASSUME Control, NEW t \in ThreadIds, Unlock(t)
  PROVE  /\ phase' = [phase EXCEPT ![t] = phase'[t]]
         /\ phase'[t] \in {"insert", "length", "lookup", "done"}
         /\ phase'[t] = "length" => UsesLock
         /\ i' = [i EXCEPT ![t] = i'[t]] /\ i'[t] \in Int
         /\ IF phase'[t] = "length" THEN i'[t] \in Lists
            ELSE i'[t] - startind(t) \in 0 .. iterations - 1
         /\ pc' = [pc EXCEPT ![t] = IF phase'[t] = "done" THEN "done" ELSE EntryOf(phase'[t])]
  <1> DEFINE following == CASE phase[t] = "insert" -> IF UsesLock THEN "length" ELSE "lookup"
                            [] phase[t] = "length" -> "lookup"
                            [] phase[t] = "lookup" -> "done"
  <1>1. phase[t] \in {"insert", "length", "lookup"}
    BY DEF Unlock, Control, ThreadOK, PcsOf
  <1>2. t * iterations \in Int /\ startind(t) \in Int /\ startind(t) - startind(t) = 0
    BY SizesAssumption DEF ThreadIds, startind
  <1>3. iterations \in Nat /\ num_lists \in Nat /\ iterations > 0 /\ num_lists > 0
    BY SizesAssumption, ListSizesAssumption
  <1>4. CASE i[t] < LastIndex(t)
    <2>1. phase' = phase
      BY <1>4 DEF Unlock, NextCall
    <2>2. i' = [i EXCEPT ![t] = i[t] + 1] /\ pc' = [pc EXCEPT ![t] = EntryOf(phase[t])]
      BY <1>4 DEF Unlock, NextCall, Goto
    <2>3. IF phase[t] = "length" THEN i[t] + 1 \in Lists /\ i[t] + 1 \in Int
          ELSE i[t] + 1 \in Int /\ i[t] + 1 - startind(t) \in 0 .. iterations - 1
      BY <1>2, <1>3, <1>4 DEF Control, ThreadOK, LastIndex, Lists
    <2>4. phase'[t] = phase[t] /\ i'[t] = i[t] + 1
      BY <2>1, <2>2 DEF Control
    <2>5. phase' = [phase EXCEPT ![t] = phase'[t]]
      BY <2>1 DEF Control
    <2>6. pc' = [pc EXCEPT ![t] = IF phase'[t] = "done" THEN "done" ELSE EntryOf(phase'[t])]
      BY <1>1, <2>2, <2>4
    <2>7. i' = [i EXCEPT ![t] = i'[t]]
      BY <2>2, <2>4
    <2>8. /\ i'[t] \in Int
           /\ IF phase'[t] = "length" THEN i'[t] \in Lists
              ELSE i'[t] - startind(t) \in 0 .. iterations - 1
      BY <1>2, <1>3, <2>3, <2>4 DEF Control, Lists
    <2>9. phase'[t] = "length" => UsesLock
      BY <2>4 DEF Control, ThreadOK
    <2>10. QED
      BY <1>1, <2>4, <2>5, <2>6, <2>7, <2>8, <2>9
  <1>5. CASE ~(i[t] < LastIndex(t))
    <2>1. following \in {"length", "lookup", "done"} /\ (following = "length" => UsesLock)
      BY <1>1
    <2>2. /\ phase' = [phase EXCEPT ![t] = following]
          /\ i' = [i EXCEPT ![t] = IF following = "length" THEN 0 ELSE startind(t)]
          /\ pc' = [pc EXCEPT ![t] = IF following = "done" THEN "done" ELSE EntryOf(following)]
      BY <1>5 DEF Unlock, NextCall, Goto
    <2> HIDE DEF following
    <2>3. 0 \in Lists /\ 0 \in 0 .. iterations - 1
      BY <1>3 DEF Lists
    <2>4. phase'[t] = following /\ i'[t] = IF following = "length" THEN 0 ELSE startind(t)
      BY <2>2 DEF Control
    <2>5. /\ phase' = [phase EXCEPT ![t] = phase'[t]] /\ i' = [i EXCEPT ![t] = i'[t]]
          /\ pc' = [pc EXCEPT ![t] = IF phase'[t] = "done" THEN "done" ELSE EntryOf(phase'[t])]
      BY <2>2, <2>4
    <2>6. i'[t] \in Int /\ IF phase'[t] = "length" THEN i'[t] \in Lists
                           ELSE i'[t] - startind(t) \in 0 .. iterations - 1
      BY <1>2, <2>3, <2>4
    <2>7. QED
      BY <2>1, <2>4, <2>5, <2>6
  <1>6. QED
    BY <1>4, <1>5

LEMMA UnlockControl ==
  ASSUME Control, NEW t \in ThreadIds, Unlock(t), UNCHANGED <<mainpc, mi, exit>>
  PROVE  Control'
  <1>1. UNCHANGED <<key, opt_sync>>
    BY DEF Unlock
  <1>2. ASSUME NEW u \in ThreadIds
        PROVE  ThreadOK(u)'
    <2>1. CASE u = t
      BY <1>1, <2>1, UnlockMoves DEF Control, ThreadOK, PcsOf, InsertPcs, LengthPcs, LookupPcs,
                                     EntryOf, UsesLock, Lists, startind
    <2>2. CASE u # t
      BY <1>1, <2>2, UnlockMoves DEF Control, ThreadOK, PcsOf, UsesLock, Lists, startind
    <2>3. QED
      BY <2>1, <2>2
  <1>3. mainpc = "create" => ~(t >= mi)
    BY DEF Control, Unlock
  <1>4. QED
    BY <1>1, <1>2, <1>3, UnlockMoves DEF Control, EntryOf, ListPcs

LEMMA DieControl ==
  ASSUME Control, NEW t \in ThreadIds, Die(t), UNCHANGED <<mainpc, mi>>
  PROVE  Control'
  BY DEF Control, Die, listVars, ThreadOK, UsesLock, Lists, startind

LEMMA MainControl ==
  ASSUME Control, Main
  PROVE  Control'
  <1> USE SizesAssumption
  <1>1. UNCHANGED <<key, opt_sync, phase, i>>
    BY DEF Main, CreateThread, CreateFails, AllCreated, JoinThread, AllJoined, Report, threadVars
  <1>2. CASE CreateThread
    <2>1. mi \in ThreadIds /\ pc[mi] = "unborn" /\ phase[mi] = "insert"
      <3>1. mi \in ThreadIds
        BY <1>2 DEF CreateThread, Control, ThreadIds
      <3>2. pc[mi] = "unborn"
        <4>1. \A t \in ThreadIds : t >= mi => pc[t] = "unborn"
          BY <1>2 DEF CreateThread, Control
        <4>2. mi >= mi
          BY <3>1 DEF ThreadIds
        <4>3. QED
          BY <3>1, <4>1, <4>2
      <3>3. pc[mi] \in PcsOf(phase[mi]) /\ phase[mi] \in {"insert", "length", "lookup", "done"}
        BY <3>1 DEF Control, ThreadOK
      <3>4. QED
        BY <3>1, <3>2, <3>3 DEF PcsOf, LengthPcs, LookupPcs, DeletePcs
    <2>2. pc' = [pc EXCEPT ![mi] = EntryOf("insert")] /\ mi' = mi + 1 /\ UNCHANGED <<mainpc, exit>>
      BY <1>2 DEF CreateThread, Goto
    <2>3. ASSUME NEW u \in ThreadIds
          PROVE  ThreadOK(u)'
      <3>1. CASE u = mi
        BY <1>1, <2>1, <2>2, <3>1 DEF Control, ThreadOK, PcsOf, InsertPcs, EntryOf, UsesLock, Lists, startind
      <3>2. CASE u # mi
        BY <1>1, <2>2, <3>2 DEF Control, ThreadOK, UsesLock, Lists, startind
      <3>3. QED
        BY <3>1, <3>2
    <2>4. mi' \in 0 .. threads /\ \A u \in ThreadIds : u >= mi' => u >= mi /\ u # mi
      BY <1>2, <2>2 DEF CreateThread, Control, ThreadIds
    <2>5. QED
      BY <1>1, <1>2, <2>1, <2>2, <2>3, <2>4 DEF Control, CreateThread, EntryOf, ListPcs
  <1>3. CASE CreateFails \/ AllCreated \/ JoinThread \/ AllJoined \/ Report
    <2>1. UNCHANGED pc /\ mi' \in 0 .. threads /\ exit' \in {Running, 0, 1, DeathByCorruption}
          /\ mainpc' \in {"create", "join", "report"}
          /\ (mainpc' = "create" => mainpc = "create" /\ mi' = mi)
      BY <1>3 DEF CreateFails, AllCreated, JoinThread, AllJoined, Report, Control
    <2>2. ASSUME NEW u \in ThreadIds
          PROVE  ThreadOK(u)'
      BY <1>1, <2>1 DEF Control, ThreadOK, UsesLock, Lists, startind
    <2>3. QED
      BY <1>1, <2>1, <2>2 DEF Control
  <1>4. QED
    BY <1>2, <1>3 DEF Main

LEMMA InitControl ==
  ASSUME Init
  PROVE  Control
  <1> USE SizesAssumption, ListSizesAssumption DEF Init, ListsInit
  <1>1. PICK k \in [Nodes -> Keys] : key = [c \in Cells |-> IF c \in Nodes THEN k[c] ELSE NULL]
    OBVIOUS
  <1>2. DOMAIN key = Cells /\ (\A n \in Nodes : key[n] \in Keys) /\ (\A c \in Heads : key[c] = NULL)
    BY <1>1, CellKinds DEF Heads, Lists
  <1>3. ASSUME NEW t \in ThreadIds
        PROVE  ThreadOK(t)
    BY DEF ThreadOK, PcsOf, startind, ThreadIds
  <1>4. 0 \in 0 .. threads /\ \A t \in ThreadIds : startind(t) \in Int
    BY DEF startind, ThreadIds
  <1>5. key \in [Cells -> Keys \cup {NULL}]
    BY <1>1
  <1>6. QED
    BY <1>2, <1>3, <1>4, <1>5 DEF Control

LEMMA StepControl == Control /\ [Next]_vars => Control'
  <1> SUFFICES ASSUME Control, [Next]_vars PROVE Control'
    OBVIOUS
  <1>1. CASE \E t \in ThreadIds : Thread(t)
    BY <1>1, LockControl, ListStepControl, DeleteFoundControl, UnlockControl, DieControl DEF Thread
  <1>2. CASE Main
    BY <1>2, MainControl
  <1>3. CASE UNCHANGED vars
    BY <1>3 DEF vars, listVars, clientVars, Control, ThreadOK, UsesLock, Lists, startind
  <1>4. QED
    BY <1>1, <1>2, <1>3 DEF Next, Ended

-----------------------------------------------------------------------------
(* The locks. *)

\* What OneThreadPerList needs of the types.
LocksTyped == locked \in [Lists -> BOOLEAN] /\ (~UsesLock => \A l \in Lists : ~locked[l])

\* Holds with the index of a thread's sublist unchanged.
LEMMA HoldsUnchanged ==
  ASSUME NEW u \in ThreadIds, NEW l,
         UNCHANGED <<key, opt_sync>>, i'[u] = i[u], phase'[u] = phase[u],
         pc'[u] \in ListPcs <=> pc[u] \in ListPcs
  PROVE  Holds(u, l)' <=> Holds(u, l)
  BY DEF Holds, UsesLock, listindex

\* Only the holder of a sublist's lock can release it.
LEMMA LockStep ==
  ASSUME Control, LocksTyped, OneThreadPerList, NEW t \in ThreadIds, Lock(t)
  PROVE  LocksTyped' /\ OneThreadPerList'
  <1> DEFINE m == listindex(t)
  <1>1. m \in Lists /\ ~locked[m] /\ locked' = [locked EXCEPT ![m] = TRUE] /\ UsesLock
    BY ListindexIsAList DEF Lock, Control, ThreadOK
  <1>2. UNCHANGED <<key, phase, i, opt_sync>> /\ pc' = [pc EXCEPT ![t] = phase[t]]
    BY DEF Lock, Goto
  <1>3. \A u \in ThreadIds \ {t}, l \in Lists : Holds(u, l)' <=> Holds(u, l)
    BY <1>2, HoldsUnchanged DEF Control
  <1>4. \A l \in Lists : ~Holds(t, l) /\ (Holds(t, l)' <=> l = m)
    BY <1>1, <1>2 DEF Holds, Lock, Control, ThreadOK, PcsOf, ListPcs, UsesLock, listindex
  <1>5. QED
    BY <1>1, <1>2, <1>3, <1>4 DEF OneThreadPerList, LocksTyped, UsesLock, Lists

LEMMA UnlockStep ==
  ASSUME Control, LocksTyped, OneThreadPerList, NEW t \in ThreadIds, Unlock(t)
  PROVE  LocksTyped' /\ OneThreadPerList'
  <1> DEFINE m == listindex(t)
  <1>1. m \in Lists /\ locked' = IF UsesLock THEN [locked EXCEPT ![m] = FALSE] ELSE locked
    BY ListindexIsAList DEF Unlock
  <1>2. UNCHANGED <<key, opt_sync>>
    BY DEF Unlock
  <1>3. \A u \in ThreadIds \ {t}, l \in Lists : Holds(u, l)' <=> Holds(u, l)
    BY <1>2, HoldsUnchanged, UnlockMoves DEF Control
  <1>4. \A l \in Lists : Holds(t, l) <=> l = m /\ UsesLock
    BY DEF Holds, Unlock, ListPcs
  <1>5. \A l \in Lists : ~Holds(t, l)'
    BY <1>2, UnlockMoves DEF Holds, Control, ListPcs, UsesLock, EntryOf
  <1>6. QED
    BY <1>1, <1>2, <1>3, <1>4, <1>5 DEF OneThreadPerList, LocksTyped, UsesLock, Lists

\* A step that takes and releases no lock and stays within the list operation.
LEMMA OtherStep ==
  ASSUME Control, LocksTyped, OneThreadPerList,
         UNCHANGED <<key, phase, i, opt_sync, locked>>,
         \A u \in ThreadIds : pc'[u] \in ListPcs <=> pc[u] \in ListPcs
  PROVE  LocksTyped' /\ OneThreadPerList'
  <1>1. \A u \in ThreadIds, l \in Lists : Holds(u, l)' <=> Holds(u, l)
    BY HoldsUnchanged
  <1>2. QED
    BY <1>1 DEF OneThreadPerList, LocksTyped, UsesLock, Lists

\* A new thread is at its first lock, or runs without locks.
LEMMA CreateThreadStep ==
  ASSUME Control, LocksTyped, OneThreadPerList, CreateThread
  PROVE  LocksTyped' /\ OneThreadPerList'
  <1>1. mi \in ThreadIds /\ pc[mi] = "unborn"
    BY SizesAssumption DEF CreateThread, Control, ThreadIds
  <1>2. UNCHANGED <<key, phase, i, opt_sync, locked>> /\ pc' = [pc EXCEPT ![mi] = EntryOf("insert")]
    BY DEF CreateThread, Goto, threadVars
  <1>3. CASE UsesLock
    BY <1>1, <1>2, <1>3, OtherStep DEF Control, EntryOf, ListPcs
  <1>4. CASE ~UsesLock
    BY <1>2, <1>4 DEF OneThreadPerList, LocksTyped, Holds, UsesLock, Lists
  <1>5. QED
    BY <1>3, <1>4

LEMMA StepLocks == Control /\ LocksTyped /\ OneThreadPerList /\ [Next]_vars
                     => LocksTyped' /\ OneThreadPerList'
  <1> SUFFICES ASSUME Control, LocksTyped, OneThreadPerList, [Next]_vars
               PROVE  LocksTyped' /\ OneThreadPerList'
    OBVIOUS
  <1>1. CASE \E t \in ThreadIds : Lock(t) \/ Unlock(t)
    BY <1>1, LockStep, UnlockStep
  <1>2. ASSUME NEW t \in ThreadIds, ListStep(t) PROVE LocksTyped' /\ OneThreadPerList'
    BY <1>2, ListStepMoves, OtherStep DEF Control
  <1>3. ASSUME NEW t \in ThreadIds, DeleteFound(t) PROVE LocksTyped' /\ OneThreadPerList'
    BY <1>3, OtherStep DEF DeleteFound, Goto, Control, ListPcs
  <1>4. ASSUME NEW t \in ThreadIds, Die(t) PROVE LocksTyped' /\ OneThreadPerList'
    BY <1>4, OtherStep DEF Die, listVars
  <1>5. CASE CreateThread
    BY <1>5, CreateThreadStep
  <1>6. CASE CreateFails \/ AllCreated \/ JoinThread \/ AllJoined \/ Report \/ UNCHANGED vars
    BY <1>6, OtherStep DEF CreateFails, AllCreated, JoinThread, AllJoined, Report, threadVars,
                           vars, listVars, clientVars
  <1>7. QED
    BY <1>1, <1>2, <1>3, <1>4, <1>5, <1>6 DEF Next, Thread, Main, Ended

\* One mutex or spin lock for each sublist (lab2_list.c:84, 110, 136): a sublist is
\* worked on by one thread at a time, however many threads and sublists there are,
\* and what is locked is the sublist that the thread works on.
THEOREM OneAtATime == Spec => []OneThreadPerList
  <1>1. Init => LocksTyped /\ OneThreadPerList
    BY DEF Init, LocksTyped, OneThreadPerList, Holds, ListPcs
  <1>2. QED
    BY InitControl, StepControl, StepLocks, <1>1, PTL DEF Spec

-----------------------------------------------------------------------------
(* The pointers: they stay within the cells of one sublist. *)

Pointers == Cells \cup {NULL, Wild}

\* The sublist that a cell belongs to when the keys are k.
ListOf(k, c) == IF c \in Nodes THEN k[c] % num_lists ELSE c - numNodes

\* A pointer that points to a cell of sublist l, or nowhere.
Within(k, p, l) == p \in Pointers /\ (p \in Cells => ListOf(k, p) = l)

NoTempPcs == {"unborn", "lock", "insert", "empty1", "empty2", "empty3", "empty4",
              "length", "lookup", "ret", "done"}
TempPcs == {"scan", "compare", "advance", "nextnode", "link1", "link2", "link3", "link4"} \cup DeletePcs
NextnodePcs == {"link1", "link2", "link3", "link4", "segv"}

\* The locals of a thread point into its sublist while it works on it, and
\* nowhere between two calls.
LocalsApart(t) ==
  /\ Within(key, temp[t], listindex(t)) /\ Within(key, nextnode[t], listindex(t))
  /\ pc[t] \in NoTempPcs => temp[t] = NULL
  /\ pc[t] \in TempPcs => temp[t] \in Cells
  /\ pc[t] \notin NextnodePcs => nextnode[t] = NULL

\* A pointer in each cell that stays within the cell's sublist.
LinksWithin(k, links) ==
  links \in [Cells -> Pointers] /\ \A c \in Cells : Within(k, links[c], ListOf(k, c))

Apart ==
  /\ LinksWithin(key, next) /\ LinksWithin(key, prev)
  /\ temp \in [ThreadIds -> Pointers] /\ nextnode \in [ThreadIds -> Pointers]
  /\ \A t \in ThreadIds : LocalsApart(t)

\* The node or the head that a thread passes to the list operations is a cell of
\* the sublist it works on.
LEMMA Arguments ==
  ASSUME Control, NEW t \in ThreadIds
  PROVE  /\ list(t) \in Cells /\ ListOf(key, list(t)) = listindex(t)
         /\ phase[t] # "length" => i[t] \in Nodes /\ i[t] \in Cells /\ ListOf(key, i[t]) = listindex(t)
  <1>1. listindex(t) \in Lists
    BY ListindexIsAList
  <1>2. list(t) \in Cells /\ list(t) \notin Nodes /\ list(t) = numNodes + listindex(t)
    BY <1>1, CellKinds DEF list, HeadOf
  <1>3. ListOf(key, list(t)) = listindex(t)
    BY <1>1, <1>2, CellKinds DEF ListOf, Lists
  <1>4. phase[t] # "length" => i[t] \in Nodes
    BY OwnNodes DEF Control, ThreadOK
  <1>5. QED
    BY <1>2, <1>3, <1>4, CellKinds DEF ListOf, listindex

\* A store of a pointer into the sublist of its cell.
LEMMA StoreWithin ==
  ASSUME NEW links, LinksWithin(key, links), NEW c \in Cells, NEW p, Within(key, p, ListOf(key, c))
  PROVE  LinksWithin(key, [links EXCEPT ![c] = p])
  BY DEF LinksWithin, Within

\* A step of a thread's list operation leaves every other thread's locals alone.
LEMMA ApartAfter ==
  ASSUME Control, Apart, NEW t \in ThreadIds, ListStep(t),
         LinksWithin(key, next') /\ LinksWithin(key, prev'),
         temp' = [temp EXCEPT ![t] = temp'[t]], nextnode' = [nextnode EXCEPT ![t] = nextnode'[t]],
         LocalsApart(t)'
  PROVE  Apart'
  <1>1. UNCHANGED <<key, phase, i>> /\ \A u \in ThreadIds \ {t} : pc'[u] = pc[u]
    BY ListStepMoves DEF Control
  <1>2. temp'[t] \in Pointers /\ nextnode'[t] \in Pointers
    BY DEF LocalsApart, Within
  <1>3. temp' \in [ThreadIds -> Pointers] /\ nextnode' \in [ThreadIds -> Pointers]
        /\ \A u \in ThreadIds \ {t} : temp'[u] = temp[u] /\ nextnode'[u] = nextnode[u]
    BY <1>2 DEF Apart
  <1>4. ASSUME NEW u \in ThreadIds \ {t}
        PROVE  LocalsApart(u)'
    BY <1>1, <1>3 DEF Apart, LocalsApart, listindex
  <1>5. QED
    BY <1>1, <1>3, <1>4 DEF Apart

LEMMA InsertApart ==
  ASSUME Control, Apart, NEW t \in ThreadIds, ListStep(t), InsertStep(t, list(t), i[t])
  PROVE  Apart'
  <1> DEFINE l == listindex(t)
             e == i[t]
             h == list(t)
  <1>1. phase[t] = "insert"
    BY DEF Control, ThreadOK, PcsOf, LengthPcs, LookupPcs, DeletePcs, InsertStep, Insert, EmptyLink,
           ScanHead, ScanCompare, ScanAdvance, TakeNextNode, Link
  <1>2. h \in Cells /\ ListOf(key, h) = l /\ e \in Cells /\ ListOf(key, e) = l
    BY <1>1, Arguments
  <1>3. UNCHANGED <<key, phase, i>> /\ listindex(t)' = l
    BY ListStepMoves DEF listindex
  <1>4. Cells \subseteq Pointers /\ NULL \in Pointers /\ NULL \notin Cells
    BY CellKinds DEF Pointers
  <1>5. Within(key, temp[t], l) /\ Within(key, nextnode[t], l)
    BY DEF Apart, LocalsApart
  <1>6. \A c \in Cells : ListOf(key, c) = l => Within(key, next[c], l) /\ Within(key, c, l)
    BY <1>4 DEF Apart, LinksWithin, Within
  <1> HIDE DEF l, e, h
  <1> USE DEF Goto
  <1>7. CASE Insert(t, h)
    <2>1. UNCHANGED <<next, prev, nextnode>> /\ temp' = [temp EXCEPT ![t] = temp'[t]]
      BY <1>7 DEF Insert, Apart
    <2>2. LocalsApart(t)'
      BY <1>2, <1>3, <1>4, <1>7 DEF Insert, Control, Apart, LocalsApart, Within, NoTempPcs, TempPcs,
                                    NextnodePcs, DeletePcs
    <2>3. QED
      BY <2>1, <2>2, ApartAfter DEF Apart
  <1>8. CASE EmptyLink(t, h, e)
    <2>1. LinksWithin(key, next') /\ LinksWithin(key, prev')
      BY <1>2, <1>6, <1>8, StoreWithin DEF EmptyLink, Apart
    <2>2. UNCHANGED <<temp, nextnode>>
      BY <1>8 DEF EmptyLink
    <2>3. pc[t] \in {"empty1", "empty2", "empty3", "empty4"} /\ pc'[t] \in {"empty2", "empty3", "empty4", "ret"}
      BY <1>8 DEF EmptyLink, Control
    <2>4. temp'[t] = NULL /\ nextnode'[t] = NULL
      BY <2>2, <2>3 DEF Apart, LocalsApart, NoTempPcs, NextnodePcs
    <2>5. LocalsApart(t)'
      BY <1>4, <2>3, <2>4 DEF LocalsApart, Within, TempPcs, DeletePcs
    <2>6. QED
      BY <2>1, <2>2, <2>5, ApartAfter DEF Apart
  <1>9. CASE ScanHead(t) \/ ScanCompare(t, e)
    <2>1. UNCHANGED <<next, prev, temp, nextnode>>
      BY <1>9 DEF ScanHead, ScanCompare
    <2>2. pc[t] \in {"scan", "compare"} /\ pc'[t] \in {"segv", "compare", "advance", "nextnode"}
      BY <1>9 DEF ScanHead, ScanCompare, Control
    <2>3. temp[t] \in Cells /\ nextnode[t] = NULL
      BY <2>2 DEF Apart, LocalsApart, TempPcs, NextnodePcs
    <2>4. LocalsApart(t)'
      BY <1>3, <1>5, <2>1, <2>2, <2>3 DEF LocalsApart, NoTempPcs
    <2>5. QED
      BY <2>1, <2>4, ApartAfter DEF Apart
  <1>10. CASE ScanAdvance(t)
    <2>1. UNCHANGED <<next, prev, nextnode>> /\ temp' = [temp EXCEPT ![t] = temp'[t]]
      BY <1>10 DEF ScanAdvance, Apart
    <2>2. temp[t] \in Cells /\ ListOf(key, temp[t]) = l
      BY <1>5, <1>10 DEF ScanAdvance, Apart, LocalsApart, TempPcs, Within
    <2>3. pc'[t] \in {"scan", "segv"} /\ nextnode'[t] = NULL
      BY <1>10 DEF ScanAdvance, Control, Apart, LocalsApart, NextnodePcs
    <2>4. Within(key, temp'[t], l) /\ temp'[t] \in Cells
      BY <1>5, <1>6, <1>10, <2>2 DEF ScanAdvance, Points, Apart
    <2>5. LocalsApart(t)'
      BY <1>3, <1>4, <2>3, <2>4 DEF LocalsApart, NoTempPcs, Within
    <2>6. QED
      BY <2>1, <2>5, ApartAfter DEF Apart
  <1>11. CASE TakeNextNode(t)
    <2>1. UNCHANGED <<next, prev, temp>> /\ nextnode' = [nextnode EXCEPT ![t] = nextnode'[t]]
      BY <1>11 DEF TakeNextNode, Apart
    <2>2. temp[t] \in Cells /\ ListOf(key, temp[t]) = l
      BY <1>5, <1>11 DEF TakeNextNode, Apart, LocalsApart, TempPcs, Within
    <2>3. LocalsApart(t)'
      BY <1>3, <1>6, <1>11, <2>2 DEF TakeNextNode, Control, Apart, LocalsApart, NoTempPcs, TempPcs,
                                     NextnodePcs, DeletePcs
    <2>4. QED
      BY <2>1, <2>3, ApartAfter DEF Apart
  <1>12. CASE Link(t, e)
    <2>1. temp[t] \in Cells /\ ListOf(key, temp[t]) = l
      BY <1>5, <1>12 DEF Link, Apart, LocalsApart, TempPcs, Within
    <2>2. LinksWithin(key, next') /\ LinksWithin(key, prev')
      BY <1>2, <1>5, <1>6, <1>12, <2>1, StoreWithin DEF Link, Apart, Points, Within
    <2>3. temp' = [temp EXCEPT ![t] = temp'[t]] /\ nextnode' = [nextnode EXCEPT ![t] = nextnode'[t]]
      BY <1>12 DEF Link, Apart
    <2>4. pc[t] = "link4" => pc'[t] = "ret" /\ temp'[t] = NULL /\ nextnode'[t] = NULL
      BY <1>12 DEF Link, Control, Apart
    <2>5. pc[t] # "link4" => pc'[t] \in {"link2", "link3", "link4", "segv"}
                             /\ UNCHANGED <<temp, nextnode>>
      BY <1>12 DEF Link, Control
    <2>6. LocalsApart(t)'
      BY <1>3, <1>4, <1>5, <2>1, <2>4, <2>5 DEF LocalsApart, NoTempPcs, TempPcs, NextnodePcs, DeletePcs, Within
    <2>7. QED
      BY <2>2, <2>3, <2>6, ApartAfter
  <1>13. QED
    BY <1>7, <1>8, <1>9, <1>10, <1>11, <1>12 DEF InsertStep, e, h

\* The walks of length and lookup: temp follows next from the head.
LEMMA WalkApart ==
  ASSUME Control, Apart, NEW t \in ThreadIds, ListStep(t),
         \/ Length(t, list(t)) \/ LengthStep(t, list(t))
         \/ Lookup(t, list(t)) \/ LookupStep(t, list(t), i[t])
  PROVE  Apart'
  <1> DEFINE l == listindex(t)
             e == i[t]
             h == list(t)
  <1>1. h \in Cells /\ ListOf(key, h) = l
    BY Arguments
  <1>2. UNCHANGED <<key, phase, i>> /\ listindex(t)' = l
    BY ListStepMoves DEF listindex
  <1>3. Cells \subseteq Pointers /\ NULL \in Pointers /\ NULL \notin Cells
    BY CellKinds DEF Pointers
  <1>4. Within(key, temp[t], l) /\ Within(key, nextnode[t], l)
    BY DEF Apart, LocalsApart
  <1>5. \A c \in Cells : ListOf(key, c) = l => Within(key, next[c], l)
    BY DEF Apart, LinksWithin
  <1> HIDE DEF l, e, h
  <1>6. Length(t, h) \/ LengthStep(t, h) \/ Lookup(t, h) \/ LookupStep(t, h, e)
    BY DEF h, e
  <1>7. UNCHANGED <<next, prev, nextnode>> /\ temp' = [temp EXCEPT ![t] = temp'[t]]
    BY <1>6 DEF Length, LengthStep, Lookup, LookupStep, Apart
  <1>8. pc[t] \in {"length", "count", "lookup", "look"}
        /\ pc'[t] \in {"count", "ret", "segv", "look", "found", "fail"}
    BY <1>6 DEF Length, LengthStep, Lookup, LookupStep, Goto, Control
  <1>9. nextnode[t] = NULL
    BY <1>8 DEF Apart, LocalsApart, NextnodePcs
  <1>10. Within(key, temp'[t], l)
    <2>1. CASE Length(t, h) \/ Lookup(t, h)
      BY <1>1, <1>5, <2>1 DEF Length, Lookup, Apart
    <2>2. CASE LengthStep(t, h)
      BY <1>3, <1>4, <1>5, <2>2 DEF LengthStep, Apart, Points, Within
    <2>3. CASE LookupStep(t, h, e)
      BY <1>3, <1>4, <1>5, <2>3 DEF LookupStep, Apart, Points, Within
    <2>4. QED
      BY <1>6, <2>1, <2>2, <2>3
  <1>11. pc'[t] = "ret" => temp'[t] = NULL
    BY <1>6 DEF Length, LengthStep, Lookup, LookupStep, Goto, Control, Apart
  <1>12. pc'[t] = "found" => temp'[t] \in Cells
    BY <1>6 DEF Length, LengthStep, Lookup, LookupStep, Goto, Control, Apart, Points
  <1>13. LocalsApart(t)'
    BY <1>2, <1>3, <1>4, <1>7, <1>8, <1>9, <1>10, <1>11, <1>12
       DEF LocalsApart, NoTempPcs, TempPcs, DeletePcs, Within
  <1>14. QED
    BY <1>7, <1>13, ApartAfter DEF Apart

LEMMA DeleteApart ==
  ASSUME Control, Apart, NEW t \in ThreadIds, ListStep(t), DeleteStep(t, temp[t])
  PROVE  Apart'
  <1> DEFINE l == listindex(t)
             e == temp[t]
  <1>1. UNCHANGED <<key, phase, i, nextnode>> /\ listindex(t)' = l
    BY ListStepMoves DEF listindex, DeleteStep, Delete, DeleteCheck, Unlink
  <1>2. NULL \in Pointers /\ NULL \notin Cells
    BY CellKinds DEF Pointers
  <1>3. pc[t] \in {"delete", "check", "unlink1", "unlink2"}
        /\ pc'[t] \in {"fail", "check", "segv", "unlink1", "unlink2", "ret"}
    BY DEF DeleteStep, Delete, DeleteCheck, Unlink, Goto, Control
  <1>4. Within(key, e, l) /\ e \in Cells /\ nextnode[t] = NULL /\ Within(key, nextnode[t], l)
    BY <1>3 DEF Apart, LocalsApart, TempPcs, DeletePcs, NextnodePcs
  <1>5. Within(key, next[e], l) /\ Within(key, prev[e], l)
    BY <1>4 DEF Apart, LinksWithin, Within
  <1>6. temp' = [temp EXCEPT ![t] = temp'[t]] /\ temp'[t] \in {e, NULL}
        /\ (pc'[t] \in {"ret", "unlink2", "unlink1", "check"} => temp'[t] = IF pc[t] = "unlink2" THEN NULL ELSE e)
    BY <1>3 DEF DeleteStep, Delete, DeleteCheck, Unlink, Goto, Control, Apart
  <1>7. pc'[t] = "ret" => pc[t] = "unlink2"
    BY <1>3 DEF DeleteStep, Delete, DeleteCheck, Unlink, Goto, Control
  <1>8. pc'[t] \in {"unlink2", "unlink1", "check"} => pc[t] # "unlink2"
    BY <1>3 DEF DeleteStep, Delete, DeleteCheck, Unlink, Goto, Control
  <1>9. LocalsApart(t)'
    BY <1>1, <1>2, <1>3, <1>4, <1>6, <1>7, <1>8 DEF LocalsApart, NoTempPcs, TempPcs, DeletePcs, Within
  <1>10. LinksWithin(key, next') /\ LinksWithin(key, prev')
    <2> HIDE DEF e, l
    <2>1. DeleteStep(t, e)
      BY DEF e
    <2>2. CASE Delete(t, e) \/ DeleteCheck(t, e)
      BY <2>2 DEF Delete, DeleteCheck, Apart
    <2>3. CASE Unlink(t, e)
      BY <1>4, <1>5, <2>3, StoreWithin DEF Unlink, Apart, Points, Within
    <2>4. QED
      BY <2>1, <2>2, <2>3 DEF DeleteStep
  <1>11. QED
    BY <1>1, <1>4, <1>6, <1>9, <1>10, ApartAfter DEF Apart

\* Between two list operations the locals point nowhere.
LEMMA OtherApart ==
  ASSUME Control, Apart, UNCHANGED <<next, prev, key, temp, nextnode>>,
         \A t \in ThreadIds :
           \/ listindex(t)' = listindex(t) /\ pc'[t] = pc[t]
           \/ temp[t] = NULL /\ nextnode[t] = NULL /\ pc'[t] \in NoTempPcs
           \/ listindex(t)' = listindex(t) /\ pc[t] = "found" /\ pc'[t] = "delete"
  PROVE  Apart'
  <1>1. NULL \in Pointers /\ NULL \notin Cells
    BY CellKinds DEF Pointers
  <1>2. ASSUME NEW t \in ThreadIds
        PROVE  LocalsApart(t)'
    BY <1>1, <1>2 DEF Apart, LocalsApart, Within, NoTempPcs, TempPcs, DeletePcs, NextnodePcs
  <1>3. QED
    BY <1>2 DEF Apart

LEMMA InitApart ==
  ASSUME Init
  PROVE  Apart
  <1>1. {NULL, Wild} \subseteq Pointers /\ NULL \notin Cells /\ Wild \notin Cells
    BY CellKinds DEF Pointers
  <1>2. next \in [Cells -> {NULL, Wild}] /\ prev \in [Cells -> {NULL, Wild}]
    BY DEF Init, ListsInit
  <1>3. temp = [t \in ThreadIds |-> NULL] /\ nextnode = [t \in ThreadIds |-> NULL]
        /\ pc = [t \in ThreadIds |-> "unborn"]
    BY DEF Init, ListsInit
  <1>4. QED
    BY <1>1, <1>2, <1>3 DEF Apart, LinksWithin, Within, LocalsApart, TempPcs, DeletePcs

LEMMA ListStepApart ==
  ASSUME Control, Apart, NEW t \in ThreadIds, ListStep(t)
  PROVE  Apart'
  BY InsertApart, WalkApart, DeleteApart DEF ListStep

LEMMA StepApart == Control /\ Apart /\ [Next]_vars => Apart'
  <1> SUFFICES ASSUME Control, Apart, [Next]_vars PROVE Apart'
    OBVIOUS
  <1>1. ASSUME NEW t \in ThreadIds, ListStep(t) PROVE Apart'
    BY <1>1, ListStepApart
  <1>2. ASSUME NEW t \in ThreadIds, Lock(t) \/ Unlock(t) PROVE Apart'
    <2>1. pc[t] \in {"lock", "ret"} /\ temp[t] = NULL /\ nextnode[t] = NULL
      BY <1>2 DEF Lock, Unlock, Apart, LocalsApart, NoTempPcs, NextnodePcs
    <2>2. pc'[t] \in NoTempPcs /\ UNCHANGED <<next, prev, key, temp, nextnode>>
      <3>1. CASE Lock(t)
        BY <3>1 DEF Lock, Goto, Control, ThreadOK, PcsOf, NoTempPcs
      <3>2. CASE Unlock(t)
        BY <3>2, UnlockMoves DEF Unlock, Control, EntryOf, NoTempPcs
      <3>3. QED
        BY <1>2, <3>1, <3>2
    <2>3. ASSUME NEW u \in ThreadIds \ {t}
          PROVE  pc'[u] = pc[u] /\ phase'[u] = phase[u] /\ i'[u] = i[u]
      BY <1>2, UnlockMoves DEF Lock, Goto, Control
    <2>4. ASSUME NEW u \in ThreadIds \ {t}
          PROVE  listindex(u)' = listindex(u)
      BY <2>2, <2>3 DEF listindex
    <2>5. QED
      BY <2>1, <2>2, <2>3, <2>4, OtherApart
  <1>3. ASSUME NEW t \in ThreadIds, DeleteFound(t) PROVE Apart'
    <2>1. UNCHANGED <<next, prev, key, temp, nextnode, phase, i>>
      BY <1>3 DEF DeleteFound
    <2>2. \A u \in ThreadIds : listindex(u)' = listindex(u)
      BY <2>1 DEF listindex
    <2>3. pc[t] = "found" /\ pc' = [pc EXCEPT ![t] = "delete"]
      BY <1>3 DEF DeleteFound, Goto
    <2>4. QED
      BY <2>1, <2>2, <2>3, OtherApart DEF Control
  <1>4. CASE CreateThread
    <2>1. mi \in ThreadIds /\ pc[mi] = "unborn"
      BY <1>4, SizesAssumption DEF CreateThread, Control, ThreadIds
    <2>2. temp[mi] = NULL /\ nextnode[mi] = NULL
      BY <2>1 DEF Apart, LocalsApart, NoTempPcs, NextnodePcs
    <2>3. UNCHANGED <<next, prev, key, temp, nextnode, phase, i>> /\ pc' = [pc EXCEPT ![mi] = EntryOf("insert")]
      BY <1>4 DEF CreateThread, Goto, threadVars
    <2>4. EntryOf("insert") \in NoTempPcs
      BY DEF EntryOf, NoTempPcs
    <2>5. \A u \in ThreadIds : listindex(u)' = listindex(u)
      BY <2>3 DEF listindex
    <2>6. QED
      BY <2>1, <2>2, <2>3, <2>4, <2>5, OtherApart DEF Control
  <1>5. CASE \/ CreateFails \/ AllCreated \/ JoinThread \/ AllJoined \/ Report \/ UNCHANGED vars
             \/ \E t \in ThreadIds : Die(t)
    <2>1. UNCHANGED <<next, prev, key, temp, nextnode, phase, i, pc>>
      BY <1>5 DEF CreateFails, AllCreated, JoinThread, AllJoined, Report, threadVars, vars, listVars,
                  clientVars, Die
    <2>2. \A u \in ThreadIds : listindex(u)' = listindex(u)
      BY <2>1 DEF listindex
    <2>3. QED
      BY <2>1, <2>2, OtherApart
  <1>6. QED
    BY <1>1, <1>2, <1>3, <1>4, <1>5 DEF Next, Thread, Main, Ended

LEMMA AlwaysApart == Spec => [](Control /\ Apart)
  BY InitControl, InitApart, StepControl, StepApart, PTL DEF Spec

\* Type correctness: no pointer of lab2_list.c:270-288 ever points anywhere but to a
\* node, a head or where malloc left it, and every thread stays within its own nodes.
THEOREM TypeCorrect == Spec => []TypeOK
  <1>1. Init => LocksTyped /\ OneThreadPerList
    BY DEF Init, LocksTyped, OneThreadPerList, Holds, ListPcs
  <1>2. Control /\ LocksTyped /\ Apart => TypeOK
    <2>1. Control /\ Apart => ListsTypeOK
      BY CellKinds DEF Control, Apart, LinksWithin, ListsTypeOK, Pointers, Cells
    <2>2. QED
      BY <2>1 DEF Control, ThreadOK, LocksTyped, TypeOK
  <1>3. QED
    BY InitControl, InitApart, StepControl, StepApart, StepLocks, <1>1, <1>2, PTL DEF Spec

\* The recursive definition of Walk defines what it says.
LEMMA WalkRecursion ==
  ASSUME NEW l
  PROVE  \E r : /\ Walk(l) = r[numNodes] /\ r[0] = {HeadOf(l)}
                /\ \A k \in 1 .. numNodes : r[k] = r[k - 1] \cup ({next[c] : c \in r[k - 1]} \cap Cells)
  <1> DEFINE Step(S) == S \cup ({next[c] : c \in S} \cap Cells)
             Def(r, n) == r = [k \in 0 .. n |-> IF k = 0 THEN {HeadOf(l)} ELSE Step(r[k - 1])]
             Defined == {n \in Nat : \E r : Def(r, n)}
  <1> HIDE DEF Step
  <1>1. 0 \in Defined
    <2>1. Def([k \in 0 .. 0 |-> {HeadOf(l)}], 0)
      OBVIOUS
    <2>2. QED
      BY <2>1
  <1>2. \A n \in Nat : n \in Defined => n + 1 \in Defined
    <2> SUFFICES ASSUME NEW n \in Nat, n \in Defined
                 PROVE  n + 1 \in Defined
      OBVIOUS
    <2>1. PICK r : Def(r, n)
      OBVIOUS
    <2> DEFINE s == [k \in 0 .. n + 1 |-> IF k <= n THEN r[k] ELSE Step(r[n])]
    <2>2. \A k \in 0 .. n : s[k] = r[k]
      OBVIOUS
    <2>3. s[n + 1] = Step(r[n])
      OBVIOUS
    <2>4. s = [k \in 0 .. n + 1 |-> s[k]]
      OBVIOUS
    <2> HIDE DEF s
    <2>5. \A k \in 0 .. n + 1 : s[k] = IF k = 0 THEN {HeadOf(l)} ELSE Step(s[k - 1])
      <3>1. TAKE k \in 0 .. n + 1
      <3>2. CASE k = n + 1
        BY <2>2, <2>3, <3>2
      <3>3. CASE k # n + 1
        <4>1. k \in 0 .. n /\ (k # 0 => k - 1 \in 0 .. n)
          BY <3>3
        <4>2. r[k] = IF k = 0 THEN {HeadOf(l)} ELSE Step(r[k - 1])
          BY <2>1, <4>1
        <4>3. QED
          BY <2>2, <4>1, <4>2
      <3>4. QED
        BY <3>2, <3>3
    <2>6. Def(s, n + 1)
      BY <2>4, <2>5, Zenon
    <2>7. QED
      BY <2>6
  <1> HIDE DEF Defined
  <1>3. numNodes \in Defined
    BY <1>1, <1>2, SetInduction, CellKinds
  <1> DEFINE reached == CHOOSE r : Def(r, numNodes)
  <1>4. Def(reached, numNodes)
    BY <1>3 DEF Defined
  <1>5. Walk(l) = reached[numNodes]
    BY DEF Walk, Step
  <1> HIDE DEF reached
  <1>6. \A k \in 0 .. numNodes :
          reached[k] = IF k = 0 THEN {HeadOf(l)} ELSE Step(reached[k - 1])
    BY <1>4
  <1>7. reached[0] = {HeadOf(l)} /\ \A k \in 1 .. numNodes : reached[k] = Step(reached[k - 1])
    BY <1>6, CellKinds
  <1>8. QED
    BY <1>5, <1>7 DEF Step

\* A set with the head that next does not leave holds all that is reached.
LEMMA WalkWithin ==
  ASSUME NEW l, NEW S, HeadOf(l) \in S, \A c \in S : next[c] \in Cells => next[c] \in S
  PROVE  Walk(l) \subseteq S
  <1>1. PICK r : /\ Walk(l) = r[numNodes] /\ r[0] = {HeadOf(l)}
                 /\ \A k \in 1 .. numNodes : r[k] = r[k - 1] \cup ({next[c] : c \in r[k - 1]} \cap Cells)
    BY WalkRecursion
  <1> DEFINE Good == {k \in Nat : k <= numNodes => r[k] \subseteq S}
  <1>2. 0 \in Good
    BY <1>1
  <1>3. \A k \in Nat : k \in Good => k + 1 \in Good
    <2>1. SUFFICES ASSUME NEW k \in Nat, k + 1 <= numNodes, r[k] \subseteq S
                   PROVE  r[k + 1] \subseteq S
      BY CellKinds
    <2>2. k + 1 \in 1 .. numNodes /\ k + 1 - 1 = k
      BY <2>1, CellKinds
    <2>3. r[k + 1] = r[k] \cup ({next[c] : c \in r[k]} \cap Cells)
      BY <1>1, <2>2
    <2>4. QED
      BY <2>1, <2>3
  <1> HIDE DEF Good
  <1>4. numNodes \in Good
    BY <1>2, <1>3, SetInduction, CellKinds
  <1>5. QED
    BY <1>1, <1>4, CellKinds DEF Good

\* The sublists never mix (key[0] % num_lists picks the list at lab2_list.c:78, 130),
\* with locks or without: what can be reached from a head are nodes whose keys hash
\* to its sublist, and no other head.
THEOREM NeverMixed == Spec => []SublistsApart
  <1>1. ASSUME Control, Apart, NEW l \in Lists
        PROVE  \A c \in Walk(l) \ {HeadOf(l)} : c \in Nodes /\ key[c] % num_lists = l
    <2> DEFINE S == {c \in Cells : ListOf(key, c) = l}
    <2>1. HeadOf(l) \in S
      BY CellKinds DEF ListOf, HeadOf, Lists
    <2>2. \A c \in S : next[c] \in Cells => next[c] \in S
      BY <1>1 DEF Apart, LinksWithin, Within
    <2>3. Walk(l) \subseteq S
      BY <2>1, <2>2, WalkWithin
    <2>4. \A c \in S \ {HeadOf(l)} : c \in Nodes /\ key[c] % num_lists = l
      BY CellKinds DEF ListOf, HeadOf, Lists
    <2>5. QED
      BY <2>3, <2>4
  <1>2. Control /\ Apart => SublistsApart
    BY <1>1 DEF SublistsApart
  <1>3. QED
    BY AlwaysApart, <1>2, PTL

-----------------------------------------------------------------------------
(* What the locked sublists look like while threads insert, look up and    *)
(* delete: each is a sorted circular chain of cells, but for the pointers  *)
(* that the holder of its lock is changing.                                *)


\* The cells of sublist l in order: c[1] to c[n] between the head and itself.
Chain(l, n, c) ==
  /\ n \in Nat /\ c \in [0 .. n + 1 -> Cells]
  /\ c[0] = HeadOf(l) /\ c[n + 1] = HeadOf(l)
  /\ \A k \in 1 .. n : c[k] \in Nodes /\ key[c[k]] % num_lists = l
  /\ \A j, k \in 1 .. n : c[j] = c[k] => j = k
  /\ \A j, k \in 1 .. n : j <= k => key[c[j]] <= key[c[k]]

On(n, c, x) == \E k \in 1 .. n : c[k] = x

\* The nodes on the chain are those of the sublist that a neighbour points back at.
Members(l, n, c) ==
  \A x \in Nodes : key[x] % num_lists = l => (Linked(x) <=> On(n, c, x))

Forward(n, c) == \A k \in 0 .. n : next[c[k]] = c[k + 1]
Backward(n, c) == \A k \in 1 .. n + 1 : prev[c[k]] = c[k - 1]
ForwardBut(n, c, p) == \A k \in 0 .. n : k # p => next[c[k]] = c[k + 1]
BackwardBut(n, c, p) == \A k \in 1 .. n + 1 : k # p => prev[c[k]] = c[k - 1]

\* A sublist that nothing was ever inserted into has no links.
Unused(l, n) == n = 0 /\ next[HeadOf(l)] = NULL /\ prev[HeadOf(l)] = NULL
Circular(n, c) == Forward(n, c) /\ Backward(n, c)
Quiet(l, n, c) == Unused(l, n) \/ Circular(n, c)

\* Into an empty list: the four stores.
AtEmpty(t, l, n, c) ==
  LET e == i[t] h == HeadOf(l) IN
  /\ pc[t] = "empty1" => Unused(l, n)
  /\ pc[t] \in {"empty2", "empty3"} => n = 0 /\ next[h] = e /\ prev[h] = NULL
  /\ pc[t] = "empty3" => next[e] = h /\ prev[e] \notin Cells
  /\ pc[t] = "empty4" => n = 1 /\ c[1] = e /\ Forward(n, c) /\ prev[e] = h

\* The scan has passed p nodes, with smaller keys.
AtScan(t, n, c, p) ==
  LET e == i[t] IN
  /\ pc[t] \in {"scan", "compare", "advance", "nextnode", "link1", "link2", "link3"} =>
       p \in 0 .. n /\ temp[t] = c[p] /\ \A k \in 1 .. p : key[c[k]] < key[e]
  /\ pc[t] \in {"scan", "compare", "advance", "nextnode", "link1"} => Circular(n, c)
  /\ pc[t] \in {"compare", "advance"} => p < n
  /\ pc[t] = "advance" => key[c[p + 1]] < key[e]

\* The node goes between places p and p + 1.
AtLink(t, n, c, p) ==
  LET e == i[t] IN
  /\ pc[t] \in {"nextnode", "link1", "link2", "link3"} => \A k \in p + 1 .. n : key[e] <= key[c[k]]
  /\ pc[t] \in {"link1", "link2", "link3"} => nextnode[t] = c[p + 1]
  /\ pc[t] \in {"link2", "link3"} => next[c[p]] = e /\ ForwardBut(n, c, p)
  /\ pc[t] = "link2" => Backward(n, c)
  /\ pc[t] = "link3" => prev[c[p + 1]] = e /\ BackwardBut(n, c, p + 1)
  /\ pc[t] = "link4" => /\ p \in 0 .. n - 1 /\ temp[t] = c[p] /\ c[p + 1] = e
                        /\ Forward(n, c) /\ BackwardBut(n, c, p + 1)

\* The walks of length and lookup have come to place p.
AtWalk(t, l, n, c, p) ==
  /\ pc[t] \in {"count", "look"} => /\ Quiet(l, n, c)
                                    /\ \/ temp[t] = NULL /\ n = 0
                                       \/ Circular(n, c) /\ p \in 1 .. n + 1 /\ temp[t] = c[p]
  /\ pc[t] = "look" => \A k \in 1 .. n : temp[t] = NULL \/ k < p => key[c[k]] # key[i[t]]
  /\ pc[t] = "fail" => Quiet(l, n, c) /\ \A k \in 1 .. n : key[c[k]] # key[i[t]]

\* The node to take out is at place p.
AtDelete(t, n, c, p) ==
  /\ pc[t] \in DeletePcs => p \in 1 .. n /\ temp[t] = c[p] /\ key[c[p]] = key[i[t]]
  /\ pc[t] \in DeletePcs \ {"unlink2"} => Circular(n, c)
  /\ pc[t] = "unlink2" => Forward(n, c) /\ prev[c[p + 1]] = c[p - 1] /\ BackwardBut(n, c, p + 1)

\* What the thread that works on sublist l has made of it.
At(t, l, n, c, p) ==
  /\ pc[t] \in {"insert", "length", "lookup", "ret"} => Quiet(l, n, c)
  /\ AtEmpty(t, l, n, c) /\ AtScan(t, n, c, p) /\ AtLink(t, n, c, p)
  /\ AtWalk(t, l, n, c, p) /\ AtDelete(t, n, c, p)
  /\ pc[t] # "segv"

ShapeIs(l, n, c, p) ==
  /\ Chain(l, n, c) /\ Members(l, n, c)
  /\ \A t \in ThreadIds : Holds(t, l) => At(t, l, n, c, p)
  /\ (\A t \in ThreadIds : ~Holds(t, l)) => Quiet(l, n, c)

Shape(l) == \E n \in Nat : \E c \in [0 .. n + 1 -> Cells] : \E p \in Nat : ShapeIs(l, n, c, p)

\* A node that is not inserted yet has the links that malloc left.
Raw(x) == next[x] \notin Cells /\ prev[x] \notin Cells

Own(t) == {x \in Int : x - startind(t) \in 0 .. iterations - 1}

StillRaw(t) ==
  phase[t] = "insert" =>
    \A x \in Own(t) : x >= i[t] /\ ~(x = i[t] /\ pc[t] \in {"empty3", "empty4", "link4", "ret"}) => Raw(x)

Shaped == UsesLock => (\A l \in Lists : Shape(l)) /\ (\A t \in ThreadIds : StillRaw(t))

-----------------------------------------------------------------------------
(* Chains. *)

\* The chain goes through different cells of the sublist.
LEMMA ChainCells ==
  ASSUME Control, NEW l \in Lists, NEW n \in Nat, NEW c, Chain(l, n, c)
  PROVE  /\ \A k \in 0 .. n + 1 : c[k] \in Cells /\ ListOf(key, c[k]) = l
         /\ \A k \in 1 .. n : c[k] \in Nodes /\ key[c[k]] \in Keys
         /\ c[0] = HeadOf(l) /\ c[n + 1] = HeadOf(l) /\ HeadOf(l) \notin Nodes
         /\ key[HeadOf(l)] = NULL
         /\ \A j, k \in 0 .. n : c[j] = c[k] => j = k
         /\ \A j, k \in 1 .. n + 1 : c[j] = c[k] => j = k
  <1>1. /\ c \in [0 .. n + 1 -> Cells] /\ c[0] = HeadOf(l) /\ c[n + 1] = HeadOf(l)
        /\ \A k \in 1 .. n : c[k] \in Nodes /\ key[c[k]] % num_lists = l
        /\ \A j, k \in 1 .. n : c[j] = c[k] => j = k
    BY DEF Chain
  <1>2. HeadOf(l) \notin Nodes /\ HeadOf(l) \in Heads /\ HeadOf(l) - numNodes = l
    BY CellKinds DEF HeadOf, Lists
  <1>3. \A k \in 0 .. n + 1 : k = 0 \/ k = n + 1 \/ k \in 1 .. n
    OBVIOUS
  <1>4. \A k \in 0 .. n + 1 : c[k] \in Cells /\ ListOf(key, c[k]) = l
    BY <1>1, <1>2, <1>3 DEF ListOf
  <1>5. \A k \in 1 .. n : key[c[k]] \in Keys
    BY <1>1 DEF Control
  <1>6. key[HeadOf(l)] = NULL
    BY <1>2 DEF Control
  <1>7. \A j, k \in 0 .. n : c[j] = c[k] => j = k
    BY <1>1, <1>2, <1>3
  <1>8. \A j, k \in 1 .. n + 1 : c[j] = c[k] => j = k
    BY <1>1, <1>2, <1>3
  <1>9. QED
    BY <1>1, <1>2, <1>4, <1>5, <1>6, <1>7, <1>8

\* What a single store can link: the cell written to and the cell pointed to.
LEMMA NewNextLink ==
  ASSUME Apart, NEW d \in Cells, NEW v, NEW x \in Nodes,
         next' = [next EXCEPT ![d] = v], prev' = prev, Linked(x)', ~Linked(x)
  PROVE  x \in {d, v} /\ v \in Cells /\ prev[v] = d
  <1>1. x \in Cells /\ next \in [Cells -> Pointers] /\ prev \in [Cells -> Pointers]
    BY CellKinds DEF Apart, LinksWithin
  <1>2. \A y \in Cells : next'[y] = IF y = d THEN v ELSE next[y]
    BY <1>1
  <1>3. QED
    BY <1>1, <1>2 DEF Linked, Points

LEMMA NewPrevLink ==
  ASSUME Apart, NEW d \in Cells, NEW v, NEW x \in Nodes,
         prev' = [prev EXCEPT ![d] = v], next' = next, Linked(x)', ~Linked(x)
  PROVE  x \in {d, v} /\ v \in Cells /\ next[v] = d
  <1>1. x \in Cells /\ next \in [Cells -> Pointers] /\ prev \in [Cells -> Pointers]
    BY CellKinds DEF Apart, LinksWithin
  <1>2. \A y \in Cells : prev'[y] = IF y = d THEN v ELSE prev[y]
    BY <1>1
  <1>3. QED
    BY <1>1, <1>2 DEF Linked, Points

\* Place p of a chain is where the node e goes.
Fits(l, n, c, p, e) ==
  /\ e \in Nodes /\ key[e] % num_lists = l /\ p \in 0 .. n /\ ~On(n, c, e)
  /\ \A k \in 1 .. p : key[c[k]] <= key[e]
  /\ \A k \in p + 1 .. n : key[e] <= key[c[k]]

\* The chain d is c with e behind place p.
IsInserted(l, n, c, p, e, d) ==
  /\ Chain(l, n + 1, d) /\ d[p + 1] = e
  /\ \A k \in 0 .. p : d[k] = c[k]
  /\ \A k \in p + 1 .. n + 1 : d[k + 1] = c[k]
  /\ \A x : On(n + 1, d, x) <=> On(n, c, x) \/ x = e

LEMMA InsertIntoChain ==
  ASSUME Control, NEW l \in Lists, NEW n \in Nat, NEW c, Chain(l, n, c), NEW p, NEW e,
         Fits(l, n, c, p, e)
  PROVE  \E d \in [0 .. n + 2 -> Cells] : IsInserted(l, n, c, p, e, d)
  <1> DEFINE d == [k \in 0 .. n + 2 |-> IF k <= p THEN c[k] ELSE IF k = p + 1 THEN e ELSE c[k - 1]]
  <1>1. /\ \A k \in 0 .. n + 1 : c[k] \in Cells
        /\ \A k \in 1 .. n : c[k] \in Nodes /\ key[c[k]] % num_lists = l /\ key[c[k]] \in Nat
        /\ c[0] = HeadOf(l) /\ c[n + 1] = HeadOf(l)
        /\ \A j, k \in 1 .. n : c[j] = c[k] => j = k
        /\ \A j, k \in 1 .. n : j <= k => key[c[j]] <= key[c[k]]
        /\ e \in Nodes /\ key[e] % num_lists = l /\ p \in 0 .. n /\ ~On(n, c, e)
        /\ \A k \in 1 .. p : key[c[k]] <= key[e]
        /\ \A k \in p + 1 .. n : key[e] <= key[c[k]]
    BY ChainCells, ListSizesAssumption DEF Chain, Fits
  <1>2. e \in Cells /\ key[e] \in Nat
    BY <1>1, CellKinds, ListSizesAssumption DEF Control
  <1>3. d \in [0 .. n + 2 -> Cells]
    BY <1>1, <1>2
  <1>4. /\ \A k \in 0 .. p : d[k] = c[k]
        /\ d[p + 1] = e
        /\ \A k \in p + 2 .. n + 2 : d[k] = c[k - 1]
    BY <1>1
  <1> HIDE DEF d
  <1>5. \A k \in p + 1 .. n + 1 : d[k + 1] = c[k]
    BY <1>1, <1>4
  <1>6. \A k \in 1 .. n + 1 : \/ k \in 1 .. p /\ k \in 1 .. n /\ d[k] = c[k]
                              \/ k = p + 1 /\ d[k] = e
                              \/ k \in p + 2 .. n + 1 /\ k - 1 \in 1 .. n /\ k - 1 \in p + 1 .. n /\ d[k] = c[k - 1]
    BY <1>1, <1>4
  <1>7. d[0] = HeadOf(l) /\ d[n + 1 + 1] = HeadOf(l)
    BY <1>1, <1>4
  <1>8. \A k \in 1 .. n + 1 : d[k] \in Nodes /\ key[d[k]] % num_lists = l
    BY <1>1, <1>6
  <1>9. \A j, k \in 1 .. n + 1 : d[j] = d[k] => j = k
    BY <1>1, <1>6 DEF On
  <1>10. \A j, k \in 1 .. n + 1 : j <= k => key[d[j]] <= key[d[k]]
    <2>1. TAKE j, k \in 1 .. n + 1
    <2>2. HAVE j <= k
    <2>3. CASE j \in 1 .. p /\ d[j] = c[j]
      BY <1>1, <1>2, <1>6, <2>2, <2>3
    <2>4. CASE j = p + 1 /\ d[j] = e
      BY <1>1, <1>2, <1>6, <2>2, <2>4
    <2>5. CASE j \in p + 2 .. n + 1 /\ d[j] = c[j - 1]
      BY <1>1, <1>2, <1>6, <2>2, <2>5
    <2>6. QED
      BY <1>6, <2>3, <2>4, <2>5
  <1>11. n + 1 + 1 = n + 2
    OBVIOUS
  <1>12. Chain(l, n + 1, d)
    BY <1>3, <1>7, <1>8, <1>9, <1>10, <1>11 DEF Chain
  <1>13. ASSUME NEW x PROVE On(n + 1, d, x) <=> On(n, c, x) \/ x = e
    <2>1. On(n + 1, d, x) => On(n, c, x) \/ x = e
      BY <1>6 DEF On
    <2>2. On(n, c, x) => On(n + 1, d, x)
      <3>1. SUFFICES ASSUME NEW k \in 1 .. n, c[k] = x PROVE On(n + 1, d, x)
        BY DEF On
      <3>2. CASE k <= p
        BY <1>1, <1>4, <3>1, <3>2 DEF On
      <3>3. CASE k > p
        <4>1. k + 1 \in 1 .. n + 1 /\ d[k + 1] = c[k]
          BY <1>1, <1>5, <3>3
        <4>2. QED
          BY <3>1, <4>1 DEF On
      <3>4. QED
        BY <1>1, <3>2, <3>3
    <2>3. x = e => On(n + 1, d, x)
      <3>1. p + 1 \in 1 .. n + 1
        BY <1>1
      <3>2. QED
        BY <1>4, <3>1 DEF On
    <2>4. QED
      BY <2>1, <2>2, <2>3
  <1>14. QED
    BY <1>3, <1>4, <1>5, <1>12, <1>13 DEF IsInserted

\* The chain d is c without the node at place p.
IsRemoved(l, n, c, p, d) ==
  /\ Chain(l, n - 1, d)
  /\ \A k \in 0 .. p - 1 : d[k] = c[k]
  /\ \A k \in p .. n : d[k] = c[k + 1]
  /\ \A x : On(n - 1, d, x) <=> On(n, c, x) /\ x # c[p]

\* A node comes out of a chain at place p.
LEMMA RemoveFromChain ==
  ASSUME Control, NEW l \in Lists, NEW n \in Nat, NEW c, Chain(l, n, c), NEW p \in 1 .. n
  PROVE  \E d \in [0 .. n -> Cells] : IsRemoved(l, n, c, p, d)
  <1> DEFINE d == [k \in 0 .. n |-> IF k < p THEN c[k] ELSE c[k + 1]]
  <1>1. /\ \A k \in 0 .. n + 1 : c[k] \in Cells
        /\ \A k \in 1 .. n : c[k] \in Nodes /\ key[c[k]] % num_lists = l
        /\ c[0] = HeadOf(l) /\ c[n + 1] = HeadOf(l)
        /\ \A j, k \in 1 .. n : c[j] = c[k] => j = k
        /\ \A j, k \in 1 .. n : j <= k => key[c[j]] <= key[c[k]]
    BY ChainCells DEF Chain
  <1>2. d \in [0 .. n -> Cells]
    BY <1>1
  <1>3. (\A k \in 0 .. p - 1 : d[k] = c[k]) /\ (\A k \in p .. n : d[k] = c[k + 1])
    OBVIOUS
  <1> HIDE DEF d
  <1>4. \A k \in 1 .. n - 1 : \/ k \in 1 .. n /\ k < p /\ d[k] = c[k]
                              \/ k + 1 \in 1 .. n /\ k >= p /\ d[k] = c[k + 1]
    BY <1>3
  <1>5. d[0] = HeadOf(l) /\ d[n - 1 + 1] = HeadOf(l) /\ n - 1 + 1 = n /\ n - 1 \in Nat
    BY <1>1, <1>3
  <1>6. \A k \in 1 .. n - 1 : d[k] \in Nodes /\ key[d[k]] % num_lists = l
    BY <1>1, <1>4
  <1>7. \A j, k \in 1 .. n - 1 : d[j] = d[k] => j = k
    BY <1>1, <1>4
  <1>8. \A j, k \in 1 .. n - 1 : j <= k => key[d[j]] <= key[d[k]]
    BY <1>1, <1>4
  <1>9. Chain(l, n - 1, d)
    BY <1>2, <1>5, <1>6, <1>7, <1>8 DEF Chain
  <1>10. ASSUME NEW x PROVE On(n - 1, d, x) <=> On(n, c, x) /\ x # c[p]
    <2>1. On(n - 1, d, x) => On(n, c, x) /\ x # c[p]
      BY <1>1, <1>4 DEF On
    <2>2. ASSUME NEW k \in 1 .. n, c[k] = x, x # c[p] PROVE On(n - 1, d, x)
      <3>1. CASE k < p
        BY <1>3, <2>2, <3>1 DEF On
      <3>2. CASE k > p
        <4>1. k - 1 \in 1 .. n - 1 /\ d[k - 1] = c[k]
          BY <1>3, <3>2
        <4>2. QED
          BY <2>2, <4>1 DEF On
      <3>3. QED
        BY <2>2, <3>1, <3>2
    <2>3. QED
      BY <2>1, <2>2 DEF On
  <1>11. QED
    BY <1>2, <1>3, <1>9, <1>10 DEF IsRemoved

-----------------------------------------------------------------------------
(* The steps of the thread that works on sublist l. *)

Working(t, l, n, c, p) ==
  /\ Control /\ Apart /\ UsesLock /\ StillRaw(t)
  /\ pc[t] \in ListPcs /\ listindex(t) = l
  /\ Chain(l, n, c) /\ Members(l, n, c) /\ At(t, l, n, c, p)

WorksOn(t, l) ==
  \E n \in Nat : \E c \in [0 .. n + 1 -> Cells] : \E p \in Nat :
    Chain(l, n, c) /\ Members(l, n, c) /\ At(t, l, n, c, p)

\* What a step of thread t does to the links of the nodes of sublist l.
Joins(t, x) == pc[t] \in {"empty3", "link3"} /\ x = i[t]
Leaves(t, x) == pc[t] = "unlink2" /\ x = temp[t]
Touches(t, x) == pc[t] \in {"empty2", "empty3", "link3", "link4"} /\ x = i[t]

RelinksIn(t, l) ==
  \A x \in Nodes : ListOf(key, x) = l =>
    /\ Linked(x)' <=> Joins(t, x) \/ (Linked(x) /\ ~Leaves(t, x))
    /\ Raw(x) /\ ~Touches(t, x) => Raw(x)'

LEMMA SameLinks ==
  ASSUME UNCHANGED <<next, prev, key>>, NEW t, NEW l, NEW n \in Nat, NEW c \in [0 .. n + 1 -> Cells],
         Chain(l, n, c), Members(l, n, c), NEW q \in Nat, At(t, l, n, c, q)',
         pc[t] \notin {"empty3", "link3", "unlink2"}
  PROVE  WorksOn(t, l)' /\ RelinksIn(t, l)
  <1>1. Chain(l, n, c)'
    BY DEF Chain
  <1>2. \A x : Linked(x)' <=> Linked(x)
    BY DEF Linked
  <1>3. Members(l, n, c)'
    BY <1>2 DEF Members
  <1>4. RelinksIn(t, l)
    BY <1>2 DEF RelinksIn, Joins, Leaves, Raw
  <1>5. QED
    BY <1>1, <1>3, <1>4 DEF WorksOn

\* Deciding where the new node goes: nothing is written.
LEMMA ScanSteps ==
  ASSUME NEW t \in ThreadIds, NEW l \in Lists, NEW n \in Nat, NEW c \in [0 .. n + 1 -> Cells], NEW p \in Nat,
         Working(t, l, n, c, p),
         \/ Insert(t, HeadOf(l)) \/ ScanHead(t) \/ ScanCompare(t, i[t]) \/ ScanAdvance(t) \/ TakeNextNode(t),
         ListStep(t)
  PROVE  WorksOn(t, l)' /\ RelinksIn(t, l)
  <1> DEFINE e == i[t]
             h == HeadOf(l)
  <1>1. UNCHANGED <<next, prev, key, phase, i>>
    BY ListStepMoves DEF Working, Insert, ScanHead, ScanCompare, ScanAdvance, TakeNextNode
  <1>2. pc[t] \in {"insert", "scan", "compare", "advance", "nextnode"} /\ phase[t] = "insert" /\ e \in Nodes
    <2>1. pc[t] \in {"insert", "scan", "compare", "advance", "nextnode"}
      BY DEF Insert, ScanHead, ScanCompare, ScanAdvance, TakeNextNode
    <2>2. phase[t] = "insert"
      BY <2>1 DEF Working, Control, ThreadOK, PcsOf, LengthPcs, LookupPcs, DeletePcs
    <2>3. QED
      BY <2>1, <2>2, Arguments DEF Working
  <1>3. /\ \A k \in 0 .. n + 1 : c[k] \in Cells
        /\ \A k \in 1 .. n : key[c[k]] \in Keys
        /\ c[0] = h /\ c[n + 1] = h /\ key[h] = NULL
        /\ key[e] \in Keys
        /\ \A k \in Keys : k \in Nat /\ k # NULL
        /\ NULL \notin Cells
    <2>1. Control /\ Chain(l, n, c)
      BY DEF Working
    <2>2. \A k \in Keys : k \in Nat /\ k # NULL
      BY ListSizesAssumption, PointersAssumption
    <2>3. key[e] \in Keys /\ NULL \notin Cells
      BY <1>2, <2>1, PointersAssumption DEF Control
    <2>4. QED
      BY <2>1, <2>2, <2>3, ChainCells
  <1>4. At(t, l, n, c, p) /\ Chain(l, n, c) /\ Members(l, n, c)
    BY DEF Working
  <1>5. pc \in [ThreadIds -> ListPcs \cup {"unborn", "lock", "done"}]
        /\ temp \in [ThreadIds -> Pointers] /\ nextnode \in [ThreadIds -> Pointers]
    BY DEF Working, Control, Apart
  <1> HIDE DEF e, h
  <1>6. ASSUME NEW q \in Nat, At(t, l, n, c, q)'
        PROVE  WorksOn(t, l)' /\ RelinksIn(t, l)
    BY <1>1, <1>2, <1>4, <1>6, SameLinks
  <1>7. i'[t] = e /\ next' = next /\ prev' = prev /\ key' = key
    BY <1>1 DEF e
  <1>8. CASE Insert(t, h)
    <2>1. pc[t] = "insert" /\ Quiet(l, n, c)
      BY <1>4, <1>8 DEF Insert, At
    <2>2. CASE next[h] = NULL
      <3>1. Unused(l, n)
        BY <1>3, <2>1, <2>2 DEF Quiet, Circular, Forward
      <3>2. pc'[t] = "empty1"
        BY <1>5, <1>8, <2>2 DEF Insert, Goto
      <3>3. Unused(l, n)'
        BY <3>1, <1>7 DEF Unused, HeadOf, numNodes
      <3>4. At(t, l, n, c, 0)'
        BY <3>2, <3>3 DEF At, AtEmpty, AtScan, AtLink, AtWalk, AtDelete, DeletePcs
      <3>5. QED
        BY <3>4, <1>6
    <2>3. CASE next[h] # NULL
      <3>1. Circular(n, c)
        BY <2>1, <2>3 DEF Quiet, Unused, h
      <3>2. pc'[t] = "scan" /\ temp'[t] = c[0]
        BY <1>3, <1>5, <1>8, <2>3 DEF Insert, Goto
      <3>3. Circular(n, c)'
        BY <3>1, <1>7 DEF Circular, Forward, Backward
      <3>4. At(t, l, n, c, 0)'
        BY <3>2, <3>3 DEF At, AtEmpty, AtScan, AtLink, AtWalk, AtDelete, DeletePcs
      <3>5. QED
        BY <3>4, <1>6
    <2>4. QED
      BY <2>2, <2>3
  <1>9. pc[t] # "insert" =>
          /\ Circular(n, c) /\ p \in 0 .. n /\ temp[t] = c[p]
          /\ \A k \in 1 .. p : key[c[k]] < key[e]
          /\ next[temp[t]] = c[p + 1] /\ p + 1 \in 0 .. n + 1 /\ Circular(n, c)'
    <2>1. pc[t] # "insert" => /\ Circular(n, c) /\ p \in 0 .. n /\ temp[t] = c[p]
                              /\ \A k \in 1 .. p : key[c[k]] < key[e]
      BY <1>2, <1>4 DEF At, AtScan, e
    <2>2. p \in 0 .. n => p + 1 \in 0 .. n + 1
      OBVIOUS
    <2>3. Circular(n, c) => Circular(n, c)'
      BY <1>7 DEF Circular, Forward, Backward
    <2>4. Circular(n, c) /\ p \in 0 .. n => next[c[p]] = c[p + 1]
      BY DEF Circular, Forward
    <2>5. QED
      BY <2>1, <2>2, <2>3, <2>4
  <1>10. CASE ScanHead(t)
    <2>1. pc[t] = "scan" /\ temp'[t] = temp[t]
      BY <1>10 DEF ScanHead
    <2>2. pc'[t] = IF key[c[p + 1]] = NULL THEN "nextnode" ELSE "compare"
      BY <1>3, <1>5, <1>9, <1>10, <2>1 DEF ScanHead, Goto, Points
    <2>3. key[c[p + 1]] = NULL <=> p = n
      BY <1>3, <1>9, <2>1
    <2>4. pc'[t] = "nextnode" => \A k \in p + 1 .. n : key[e] <= key[c[k]]
      BY <1>9, <2>1, <2>2, <2>3
    <2>5. At(t, l, n, c, p)'
      BY <1>7, <1>9, <2>1, <2>2, <2>3, <2>4 DEF At, AtEmpty, AtScan, AtLink, AtWalk, AtDelete, DeletePcs
    <2>6. QED
      BY <2>5, <1>6
  <1>11. CASE ScanCompare(t, e)
    <2>1. pc[t] = "compare" /\ temp'[t] = temp[t] /\ p < n
      BY <1>4, <1>11 DEF ScanCompare, At, AtScan
    <2>2. p + 1 \in 1 .. n /\ key[c[p + 1]] \in Nat /\ key[c[p + 1]] # NULL
      BY <1>3, <1>9, <2>1
    <2>3. pc'[t] = IF key[c[p + 1]] < key[e] THEN "advance" ELSE "nextnode"
      BY <1>3, <1>5, <1>9, <1>11, <2>1, <2>2 DEF ScanCompare, Goto, Points
    <2>4. pc'[t] = "nextnode" => \A k \in p + 1 .. n : key[e] <= key[c[k]]
      <3>1. SUFFICES ASSUME pc'[t] = "nextnode", NEW k \in p + 1 .. n
                     PROVE  key[e] <= key[c[k]]
        OBVIOUS
      <3>2. k \in 1 .. n /\ p + 1 <= k
        BY <2>2, <3>1
      <3>3. key[c[p + 1]] <= key[c[k]] /\ key[c[k]] \in Nat /\ key[e] \in Nat
        BY <1>3, <1>4, <2>2, <3>2 DEF Chain
      <3>4. ~(key[c[p + 1]] < key[e])
        BY <2>3, <3>1
      <3>5. QED
        BY <2>2, <3>3, <3>4
    <2>5. At(t, l, n, c, p)'
      BY <1>7, <1>9, <2>1, <2>2, <2>3, <2>4 DEF At, AtEmpty, AtScan, AtLink, AtWalk, AtDelete, DeletePcs
    <2>6. QED
      BY <2>5, <1>6
  <1>12. CASE ScanAdvance(t)
    <2>1. pc[t] = "advance" /\ p < n /\ key[c[p + 1]] < key[e]
      BY <1>4, <1>12 DEF ScanAdvance, At, AtScan, e
    <2>2. pc'[t] = "scan" /\ temp'[t] = c[p + 1]
      BY <1>3, <1>5, <1>9, <1>12, <2>1 DEF ScanAdvance, Goto, Points
    <2>3. p + 1 \in 0 .. n /\ \A k \in 1 .. p + 1 : key[c[k]] < key[e]
      <3>1. \A k \in 1 .. p + 1 : k \in 1 .. p \/ k = p + 1
        OBVIOUS
      <3>2. QED
        BY <1>9, <2>1, <3>1
    <2>4. At(t, l, n, c, p + 1)'
      BY <1>7, <1>9, <2>1, <2>2, <2>3 DEF At, AtEmpty, AtScan, AtLink, AtWalk, AtDelete, DeletePcs
    <2>5. QED
      BY <2>4, <1>6
  <1>13. CASE TakeNextNode(t)
    <2>1. pc[t] = "nextnode" /\ temp'[t] = temp[t] /\ pc'[t] = "link1" /\ nextnode'[t] = c[p + 1]
      BY <1>5, <1>9, <1>13 DEF TakeNextNode, Goto
    <2>2. \A k \in p + 1 .. n : key[e] <= key[c[k]]
      BY <1>4, <2>1 DEF At, AtLink, e
    <2>3. At(t, l, n, c, p)'
      BY <1>7, <1>9, <2>1, <2>2 DEF At, AtEmpty, AtScan, AtLink, AtWalk, AtDelete, DeletePcs
    <2>4. QED
      BY <2>3, <1>6
  <1>14. QED
    BY <1>8, <1>10, <1>11, <1>12, <1>13 DEF e, h

\* The walks of length and lookup: nothing is written.
LEMMA WalkSteps ==
  ASSUME NEW t \in ThreadIds, NEW l \in Lists, NEW n \in Nat, NEW c \in [0 .. n + 1 -> Cells], NEW p \in Nat,
         Working(t, l, n, c, p),
         \/ Length(t, HeadOf(l)) \/ LengthStep(t, HeadOf(l))
         \/ Lookup(t, HeadOf(l)) \/ LookupStep(t, HeadOf(l), i[t]),
         ListStep(t)
  PROVE  WorksOn(t, l)' /\ RelinksIn(t, l)
  <1> DEFINE e == i[t]
             h == HeadOf(l)
  <1>1. UNCHANGED <<next, prev, key, phase, i>>
    BY ListStepMoves DEF Working, Length, LengthStep, Lookup, LookupStep
  <1>2. pc[t] \in {"length", "count", "lookup", "look"}
    BY DEF Length, LengthStep, Lookup, LookupStep
  <1>3. /\ \A k \in 0 .. n + 1 : c[k] \in Cells
        /\ \A k \in 1 .. n : key[c[k]] \in Keys /\ c[k] \in Nodes
        /\ c[0] = h /\ c[n + 1] = h /\ h \notin Nodes
        /\ \A k \in Keys : k # NULL
        /\ NULL \notin Cells
    BY ChainCells, PointersAssumption DEF Working
  <1>4. At(t, l, n, c, p) /\ Chain(l, n, c) /\ Members(l, n, c)
    BY DEF Working
  <1>5. pc \in [ThreadIds -> ListPcs \cup {"unborn", "lock", "done"}]
        /\ temp \in [ThreadIds -> Pointers]
    BY DEF Working, Control, Apart
  <1> HIDE DEF e, h
  <1>6. ASSUME NEW q \in Nat, At(t, l, n, c, q)'
        PROVE  WorksOn(t, l)' /\ RelinksIn(t, l)
    BY <1>1, <1>2, <1>4, <1>6, SameLinks
  <1>7. i'[t] = e /\ next' = next /\ prev' = prev /\ key' = key
    BY <1>1 DEF e
  <1>8. Quiet(l, n, c) /\ Quiet(l, n, c)'
    <2>1. Quiet(l, n, c)
      BY <1>2, <1>4 DEF At, AtWalk
    <2>2. QED
      BY <1>7, <2>1 DEF Quiet, Unused, Circular, Forward, Backward, HeadOf, numNodes
  <1>9. Circular(n, c) => Circular(n, c)'
    BY <1>7 DEF Circular, Forward, Backward
  <1>10. ASSUME \/ Length(t, h) \/ Lookup(t, h)
         PROVE  WorksOn(t, l)' /\ RelinksIn(t, l)
    <2>1. temp'[t] = next[h] /\ pc'[t] \in {"count", "look"}
      BY <1>5, <1>10 DEF Length, Lookup, Goto
    <2>2. \/ temp'[t] = NULL /\ n = 0
          \/ Circular(n, c)' /\ 1 \in 1 .. n + 1 /\ temp'[t] = c[1]
      BY <1>3, <1>8, <1>9, <2>1 DEF Quiet, Unused, Circular, Forward, h
    <2>3. \A k \in 1 .. n : ~(temp'[t] = NULL \/ k < 1)
      BY <1>3, <2>2
    <2>4. At(t, l, n, c, 1)'
      BY <1>8, <2>1, <2>2, <2>3 DEF At, AtEmpty, AtScan, AtLink, AtWalk, AtDelete, DeletePcs
    <2>5. QED
      BY <2>4, <1>6
  <1>11. pc[t] \in {"count", "look"} => \/ temp[t] = NULL /\ n = 0
                                        \/ Circular(n, c) /\ p \in 1 .. n + 1 /\ temp[t] = c[p]
    BY <1>4 DEF At, AtWalk
  <1>12. pc[t] \in {"count", "look"} =>
           \/ temp[t] \in {NULL, h} /\ (n = 0 \/ p = n + 1)
           \/ /\ temp[t] \notin {NULL, h} /\ Points(temp[t])
              /\ Circular(n, c) /\ p \in 1 .. n /\ temp[t] = c[p] /\ next[temp[t]] = c[p + 1]
              /\ Circular(n, c)'
    <2>1. ASSUME Circular(n, c), p \in 1 .. n, temp[t] = c[p]
          PROVE  /\ temp[t] \notin {NULL, h} /\ Points(temp[t]) /\ next[temp[t]] = c[p + 1]
      <3>1. p \in 0 .. n /\ p \in 0 .. n + 1
        BY <2>1
      <3>2. QED
        BY <1>3, <2>1, <3>1 DEF Circular, Forward, Points
    <2>2. p \in 1 .. n + 1 => p \in 1 .. n \/ p = n + 1
      OBVIOUS
    <2>3. QED
      BY <1>3, <1>9, <1>11, <2>1, <2>2
  <1>13. CASE LengthStep(t, h)
    <2>1. pc[t] = "count"
      BY <1>13 DEF LengthStep
    <2>2. CASE temp[t] \in {NULL, h}
      <3>1. pc'[t] = "ret"
        BY <1>5, <1>13, <2>2 DEF LengthStep, Goto
      <3>2. At(t, l, n, c, p)'
        BY <1>8, <3>1 DEF At, AtEmpty, AtScan, AtLink, AtWalk, AtDelete, DeletePcs
      <3>3. QED
        BY <3>2, <1>6
    <2>3. CASE temp[t] \notin {NULL, h}
      <3>1. pc'[t] = "count" /\ temp'[t] = c[p + 1] /\ p \in 1 .. n
        BY <1>5, <1>12, <1>13, <2>1, <2>3 DEF LengthStep, Goto
      <3>2. p + 1 \in 1 .. n + 1 /\ Circular(n, c)'
        BY <1>12, <2>1, <2>3, <3>1
      <3>3. At(t, l, n, c, p + 1)'
        BY <1>8, <3>1, <3>2 DEF At, AtEmpty, AtScan, AtLink, AtWalk, AtDelete, DeletePcs
      <3>4. QED
        BY <3>3, <1>6
    <2>4. QED
      BY <2>2, <2>3
  <1>14. CASE LookupStep(t, h, e)
    <2>1. pc[t] = "look" /\ \A k \in 1 .. n : temp[t] = NULL \/ k < p => key[c[k]] # key[e]
      BY <1>4, <1>14 DEF LookupStep, At, AtWalk, e
    <2>2. CASE temp[t] \in {NULL, h}
      <3>1. pc'[t] = "fail"
        BY <1>5, <1>14, <2>2 DEF LookupStep, Goto
      <3>2. \A k \in 1 .. n : key[c[k]] # key[e]
        BY <1>12, <2>1, <2>2
      <3>3. At(t, l, n, c, p)'
        BY <1>7, <1>8, <3>1, <3>2 DEF At, AtEmpty, AtScan, AtLink, AtWalk, AtDelete, DeletePcs
      <3>4. QED
        BY <3>3, <1>6
    <2>3. CASE temp[t] \notin {NULL, h}
      <3>1. /\ Points(temp[t]) /\ p \in 1 .. n /\ temp[t] = c[p] /\ next[temp[t]] = c[p + 1]
            /\ Circular(n, c)' /\ key[temp[t]] # NULL
        BY <1>3, <1>12, <2>1, <2>3
      <3>2. CASE key[temp[t]] = key[e]
        <4>1. pc'[t] = "found" /\ temp'[t] = temp[t]
          BY <1>5, <1>14, <2>3, <3>1, <3>2 DEF LookupStep, Goto
        <4>2. At(t, l, n, c, p)'
          BY <1>7, <3>1, <3>2, <4>1 DEF At, AtEmpty, AtScan, AtLink, AtWalk, AtDelete, DeletePcs
        <4>3. QED
          BY <4>2, <1>6
      <3>3. CASE key[temp[t]] # key[e]
        <4>1. pc'[t] = "look" /\ temp'[t] = c[p + 1]
          BY <1>5, <1>14, <2>3, <3>1, <3>3 DEF LookupStep, Goto
        <4>2. p + 1 \in 1 .. n + 1
          BY <3>1
        <4>3. \A k \in 1 .. n : k < p + 1 => key[c[k]] # key[e]
          BY <2>1, <3>1, <3>3
        <4>4. temp'[t] # NULL
          BY <1>3, <4>1, <4>2
        <4>5. At(t, l, n, c, p + 1)'
          BY <1>7, <1>8, <3>1, <4>1, <4>2, <4>3, <4>4 DEF At, AtEmpty, AtScan, AtLink, AtWalk, AtDelete, DeletePcs
        <4>6. QED
          BY <4>5, <1>6
      <3>4. QED
        BY <3>2, <3>3
    <2>4. QED
      BY <2>2, <2>3
  <1>15. QED
    BY <1>10, <1>13, <1>14 DEF e, h

\* What is left to show of a store, once it is known what chain it leaves.
LEMMA StoreIn ==
  ASSUME NEW t \in ThreadIds, NEW l \in Lists, NEW n \in Nat, NEW c \in [0 .. n + 1 -> Cells], NEW p \in Nat,
         Working(t, l, n, c, p), UNCHANGED key,
         NEW m \in Nat, NEW d \in [0 .. m + 1 -> Cells], NEW r \in Nat, NEW q \in Int,
         Chain(l, m, d), m = 0 \/ (ForwardBut(m, d, q) /\ BackwardBut(m, d, q + 1))', At(t, l, m, d, r)',
         \A x \in Nodes : On(m, d, x) <=> Joins(t, x) \/ (On(n, c, x) /\ ~Leaves(t, x)),
         \A x \in Nodes : ListOf(key, x) = l /\ ~On(m, d, x) => ~Linked(x)',
         NEW g \in Cells, g = HeadOf(l) \/ On(n, c, g) \/ Touches(t, g),
         \A y \in Cells \ {g} : next'[y] = next[y] /\ prev'[y] = prev[y]
  PROVE  WorksOn(t, l)' /\ RelinksIn(t, l)
  <1>1. Chain(l, m, d)'
    BY DEF Chain
  <1>2. \A k \in 1 .. m : Linked(d[k])'
    <2>1. SUFFICES ASSUME NEW k \in 1 .. m PROVE Linked(d[k])'
      OBVIOUS
    <2>2. (ForwardBut(m, d, q) /\ BackwardBut(m, d, q + 1))'
      BY <2>1
    <2>3. k \in 0 .. m /\ k + 1 \in 0 .. m + 1 /\ k + 1 \in 1 .. m + 1 /\ k - 1 \in 0 .. m /\ k \in 1 .. m + 1
          /\ k - 1 \in 0 .. m + 1 /\ k + 1 - 1 = k /\ k - 1 + 1 = k
      BY <2>1
    <2>4. d[k + 1] \in Cells /\ d[k - 1] \in Cells
      BY <2>3
    <2>5. CASE k # q
      BY <2>2, <2>3, <2>4, <2>5 DEF ForwardBut, BackwardBut, Linked, Points
    <2>6. CASE k = q
      BY <2>2, <2>3, <2>4, <2>6 DEF ForwardBut, BackwardBut, Linked, Points
    <2>7. QED
      BY <2>5, <2>6
  <1>3. \A x \in Nodes : ListOf(key, x) = l => (Linked(x)' <=> On(m, d, x))
    BY <1>2 DEF On
  <1>4. \A x \in Nodes : ListOf(key, x) = key[x] % num_lists
    BY DEF ListOf
  <1>5. Members(l, m, d)'
    BY <1>3, <1>4 DEF Members
  <1>6. \A x \in Nodes : ListOf(key, x) = l => (Linked(x) <=> On(n, c, x))
    BY <1>4 DEF Working, Members
  <1>7. \A x \in Nodes : ListOf(key, x) = l => (Linked(x)' <=> Joins(t, x) \/ (Linked(x) /\ ~Leaves(t, x)))
    BY <1>3, <1>6
  <1>8. ASSUME NEW x \in Nodes, ListOf(key, x) = l, Raw(x), ~Touches(t, x)
        PROVE  Raw(x)'
    <2>1. ~Linked(x)
      BY <1>8 DEF Raw, Linked, Points
    <2>2. x # g
      BY <1>6, <1>8, <2>1, CellKinds
    <2>3. x \in Cells
      BY CellKinds
    <2>4. QED
      BY <1>8, <2>2, <2>3 DEF Raw
  <1>9. RelinksIn(t, l)
    BY <1>7, <1>8 DEF RelinksIn
  <1>10. QED
    BY <1>1, <1>5, <1>9 DEF WorksOn

\* The node to insert is a node of the thread that no list holds.
LEMMA NewNode ==
  ASSUME NEW t \in ThreadIds, NEW l \in Lists, NEW n \in Nat, NEW c, NEW p,
         Working(t, l, n, c, p), pc[t] \in InsertPcs
  PROVE  /\ phase[t] = "insert" /\ i[t] \in Nodes /\ i[t] \in Cells /\ ListOf(key, i[t]) = l
         /\ key[i[t]] % num_lists = l /\ key[i[t]] \in Nat
         /\ pc[t] \notin {"empty3", "empty4", "link4"} => Raw(i[t])
         /\ pc[t] = "empty3" => ~Linked(i[t])
  <1>1. phase[t] = "insert"
    BY DEF Working, Control, ThreadOK, PcsOf, InsertPcs, LengthPcs, LookupPcs, DeletePcs
  <1>2. i[t] \in Nodes /\ i[t] \in Cells /\ ListOf(key, i[t]) = l
    BY <1>1, Arguments DEF Working
  <1>3. key[i[t]] % num_lists = l /\ key[i[t]] \in Nat
    BY <1>2, ListSizesAssumption DEF ListOf, Working, Control
  <1>4. i[t] \in Own(t) /\ i[t] >= i[t]
    BY <1>1 DEF Working, Control, ThreadOK, Own
  <1>5. pc[t] \notin {"empty3", "empty4", "link4"} => Raw(i[t])
    BY <1>1, <1>4 DEF Working, StillRaw, InsertPcs
  <1>6. pc[t] = "empty3" => ~Linked(i[t])
    <2>1. SUFFICES ASSUME pc[t] = "empty3" PROVE ~Linked(i[t])
      OBVIOUS
    <2>2. next[i[t]] = HeadOf(l) /\ prev[i[t]] \notin Cells /\ prev[HeadOf(l)] = NULL
      BY <2>1 DEF Working, At, AtEmpty
    <2>3. QED
      BY <1>2, <2>2, CellKinds DEF Linked, Points
  <1>7. QED
    BY <1>1, <1>2, <1>3, <1>5, <1>6

\* Into an empty list.
LEMMA EmptySteps ==
  ASSUME NEW t \in ThreadIds, NEW l \in Lists, NEW n \in Nat, NEW c \in [0 .. n + 1 -> Cells], NEW p \in Nat,
         Working(t, l, n, c, p), EmptyLink(t, HeadOf(l), i[t]), ListStep(t)
  PROVE  WorksOn(t, l)' /\ RelinksIn(t, l)
  <1> DEFINE e == i[t]
             h == HeadOf(l)
  <1>1. pc[t] \in {"empty1", "empty2", "empty3", "empty4"} /\ key' = key
    BY DEF EmptyLink
  <1>2. e \in Nodes /\ e \in Cells /\ ListOf(key, e) = l /\ key[e] % num_lists = l /\ key[e] \in Nat
        /\ (pc[t] \in {"empty1", "empty2"} => Raw(e)) /\ (pc[t] = "empty3" => ~Linked(e))
    BY <1>1, NewNode DEF InsertPcs
  <1>3. At(t, l, n, c, p) /\ Chain(l, n, c) /\ Members(l, n, c) /\ Control /\ Apart
    BY DEF Working
  <1>4. /\ h \in Cells /\ h \notin Nodes /\ c[0] = h /\ c[n + 1] = h /\ NULL \notin Cells
    BY <1>3, ChainCells, CellKinds
  <1>5. pc \in [ThreadIds -> ListPcs \cup {"unborn", "lock", "done"}]
        /\ next \in [Cells -> Pointers] /\ prev \in [Cells -> Pointers]
    BY <1>3 DEF Control, Apart, LinksWithin
  <1>6. i'[t] = e
    BY ListStepMoves DEF Working
  <1>7. \A x : Leaves(t, x) <=> FALSE
    BY <1>1 DEF Leaves
  <1>8. \A x \in Nodes : ListOf(key, x) = l => (Linked(x) <=> On(n, c, x))
    BY <1>3 DEF Members, ListOf
  <1> HIDE DEF e, h
  <1>9. EmptyLink(t, h, e)
    BY DEF e, h
  <1>10. CASE pc[t] = "empty1"
    <2>1. pc'[t] = "empty2" /\ next' = [next EXCEPT ![h] = e] /\ prev' = prev
      BY <1>5, <1>10, <1>9 DEF EmptyLink, Goto
    <2>2. n = 0 /\ prev[h] = NULL
      BY <1>3, <1>10 DEF At, AtEmpty, Unused, h
    <2>3. At(t, l, n, c, p)'
      BY <1>4, <1>5, <1>6, <2>1, <2>2 DEF At, AtEmpty, AtScan, AtLink, AtWalk, AtDelete, DeletePcs, h, HeadOf, numNodes
    <2>4. \A x \in Nodes : On(n, c, x) <=> Joins(t, x) \/ (On(n, c, x) /\ ~Leaves(t, x))
      BY <1>7, <1>10 DEF Joins
    <2>5. ASSUME NEW x \in Nodes, ListOf(key, x) = l, ~On(n, c, x), Linked(x)' PROVE FALSE
      <3>1. x \in {h, e} /\ prev[e] = h
        BY <1>3, <1>4, <1>8, <2>1, <2>5, NewNextLink
      <3>2. QED
        BY <1>2, <1>4, <1>10, <3>1 DEF Raw
    <2>6. \A y \in Cells \ {h} : next'[y] = next[y] /\ prev'[y] = prev[y]
      BY <1>5, <2>1
    <2>7. PICK q \in Int : n = 0 \/ (ForwardBut(n, c, q) /\ BackwardBut(n, c, q + 1))'
      BY <2>2
    <2>8. QED
      BY <1>1, <1>3, <1>4, <2>3, <2>4, <2>5, <2>6, <2>7, StoreIn DEF h
  <1>11. CASE pc[t] = "empty2"
    <2>1. pc'[t] = "empty3" /\ next' = [next EXCEPT ![e] = h] /\ prev' = prev
      BY <1>5, <1>11, <1>9 DEF EmptyLink, Goto
    <2>2. n = 0 /\ next[h] = e /\ prev[h] = NULL
      BY <1>3, <1>11 DEF At, AtEmpty, h, e
    <2>3. next'[h] = e /\ next'[e] = h /\ prev'[h] = NULL /\ prev'[e] \notin Cells
      BY <1>2, <1>4, <1>5, <1>11, <2>1, <2>2 DEF Raw
    <2>4. At(t, l, n, c, p)'
      BY <1>6, <2>1, <2>2, <2>3 DEF At, AtEmpty, AtScan, AtLink, AtWalk, AtDelete, DeletePcs, h, HeadOf, numNodes
    <2>5. \A x \in Nodes : On(n, c, x) <=> Joins(t, x) \/ (On(n, c, x) /\ ~Leaves(t, x))
      BY <1>7, <1>11 DEF Joins
    <2>6. ASSUME NEW x \in Nodes, ListOf(key, x) = l, ~On(n, c, x), Linked(x)' PROVE FALSE
      <3>1. prev[h] = e
        BY <1>2, <1>3, <1>8, <2>1, <2>6, NewNextLink
      <3>2. QED
        BY <1>2, <1>4, <2>2, <3>1
    <2>7. \A y \in Cells \ {e} : next'[y] = next[y] /\ prev'[y] = prev[y]
      BY <1>5, <2>1
    <2>8. Touches(t, e)
      BY <1>11 DEF Touches, e
    <2>9. PICK q \in Int : n = 0 \/ (ForwardBut(n, c, q) /\ BackwardBut(n, c, q + 1))'
      BY <2>2
    <2>10. QED
      BY <1>1, <1>2, <1>3, <2>4, <2>5, <2>6, <2>7, <2>8, <2>9, StoreIn
  <1>12. CASE pc[t] = "empty3"
    <2>1. pc'[t] = "empty4" /\ prev' = [prev EXCEPT ![e] = h] /\ next' = next
      BY <1>5, <1>12, <1>9 DEF EmptyLink, Goto
    <2>2. n = 0 /\ next[h] = e /\ prev[h] = NULL /\ next[e] = h
      BY <1>3, <1>12 DEF At, AtEmpty, h, e
    <2>3. PICK q \in 0 .. n : q = 0
      BY <2>2
    <2>4. Fits(l, n, c, q, e)
      BY <1>2, <2>2, <2>3 DEF Fits, On
    <2>5. PICK d \in [0 .. n + 2 -> Cells] : IsInserted(l, n, c, q, e, d)
      BY <1>3, <2>4, InsertIntoChain
    <2>6. PICK m \in Nat : m = n + 1
      OBVIOUS
    <2>7. Chain(l, n + 1, d) /\ d[q + 1] = e /\ \A x : On(n + 1, d, x) <=> On(n, c, x) \/ x = e
      BY <2>5 DEF IsInserted
    <2>8. m = 1 /\ d \in [0 .. m + 1 -> Cells] /\ Chain(l, m, d) /\ \A x : On(m, d, x) <=> On(n, c, x) \/ x = e
      BY <2>2, <2>6, <2>7
    <2>9. d[0] = h /\ d[1] = e /\ d[2] = h
      BY <2>2, <2>3, <2>8, <2>7 DEF Chain, h
    <2>10. next'[h] = e /\ next'[e] = h /\ prev'[e] = h
      BY <1>2, <1>5, <2>1, <2>2
    <2>11. Forward(m, d)'
      <3>1. \A k \in 0 .. m : k = 0 \/ k = 1
        BY <2>8
      <3>2. QED
        BY <2>9, <2>10, <3>1 DEF Forward
    <2>12. (ForwardBut(m, d, m) /\ BackwardBut(m, d, m + 1))'
      <3>1. \A k \in 1 .. m + 1 : k # m + 1 => k = 1
        BY <2>8
      <3>2. prev'[d[1]] = d[1 - 1]
        BY <2>9, <2>10
      <3>3. BackwardBut(m, d, m + 1)'
        BY <3>1, <3>2 DEF BackwardBut
      <3>4. ForwardBut(m, d, m)'
        BY <2>11 DEF Forward, ForwardBut
      <3>5. QED
        BY <3>3, <3>4
    <2>13. At(t, l, m, d, p)'
      BY <1>6, <2>1, <2>8, <2>9, <2>10, <2>11
         DEF At, AtEmpty, AtScan, AtLink, AtWalk, AtDelete, DeletePcs, h, HeadOf, numNodes
    <2>14. \A x \in Nodes : On(m, d, x) <=> Joins(t, x) \/ (On(n, c, x) /\ ~Leaves(t, x))
      BY <1>7, <1>12, <2>8 DEF Joins, e
    <2>15. ASSUME NEW x \in Nodes, ListOf(key, x) = l, ~On(m, d, x), Linked(x)' PROVE FALSE
      <3>1. x \in {e, h} /\ ~On(n, c, x) /\ x # e
        BY <1>2, <1>3, <1>8, <2>1, <2>8, <2>15, NewPrevLink
      <3>2. QED
        BY <1>4, <3>1
    <2>16. \A y \in Cells \ {e} : next'[y] = next[y] /\ prev'[y] = prev[y]
      BY <1>5, <2>1
    <2>17. Touches(t, e)
      BY <1>12 DEF Touches, e
    <2>18. QED
      <3>1. Chain(l, m, d) /\ d \in [0 .. m + 1 -> Cells] /\ e \in Cells
        BY <1>2, <2>8
      <3>2. PICK r \in Int : (ForwardBut(m, d, r) /\ BackwardBut(m, d, r + 1))'
        BY <2>12
      <3>3. QED
        BY <1>1, <2>13, <2>14, <2>15, <2>16, <2>17, <3>1, <3>2, StoreIn
  <1>13. CASE pc[t] = "empty4"
    <2>1. pc'[t] = "ret" /\ prev' = [prev EXCEPT ![h] = e] /\ next' = next
      BY <1>5, <1>13, <1>9 DEF EmptyLink, Goto
    <2>2. n = 1 /\ c[1] = e /\ Forward(n, c) /\ prev[e] = h
      BY <1>3, <1>13 DEF At, AtEmpty, h, e
    <2>3. prev'[h] = e /\ prev'[e] = h
      BY <1>2, <1>4, <1>5, <2>1, <2>2
    <2>4. Forward(n, c)'
      BY <2>1, <2>2 DEF Forward
    <2>5. Backward(n, c)'
      <3>1. \A k \in 1 .. n + 1 : k = 1 \/ k = 2
        BY <2>2
      <3>2. QED
        BY <1>4, <2>2, <2>3, <3>1 DEF Backward
    <2>6. At(t, l, n, c, p)'
      BY <2>1, <2>4, <2>5 DEF At, AtEmpty, AtScan, AtLink, AtWalk, AtDelete, DeletePcs, Quiet, Circular
    <2>7. (ForwardBut(n, c, -1) /\ BackwardBut(n, c, -1 + 1))'
      BY <2>4, <2>5 DEF Forward, Backward, ForwardBut, BackwardBut
    <2>8. \A x \in Nodes : On(n, c, x) <=> Joins(t, x) \/ (On(n, c, x) /\ ~Leaves(t, x))
      BY <1>7, <1>13 DEF Joins
    <2>9. ASSUME NEW x \in Nodes, ListOf(key, x) = l, ~On(n, c, x), Linked(x)' PROVE FALSE
      <3>1. x \in {h, e}
        BY <1>3, <1>4, <1>8, <2>1, <2>9, NewPrevLink
      <3>2. On(n, c, e)
        BY <2>2 DEF On
      <3>3. QED
        BY <1>4, <2>9, <3>1, <3>2
    <2>10. \A y \in Cells \ {h} : next'[y] = next[y] /\ prev'[y] = prev[y]
      BY <1>5, <2>1
    <2>11. PICK q \in Int : (ForwardBut(n, c, q) /\ BackwardBut(n, c, q + 1))'
      BY <2>7
    <2>12. h \in Cells
      BY <1>4
    <2>13. QED
      BY <1>1, <1>3, <2>6, <2>8, <2>9, <2>10, <2>11, <2>12, StoreIn DEF h
  <1>14. QED
    BY <1>1, <1>10, <1>11, <1>12, <1>13

\* Between two nodes, or at an end of a list that is not empty.
LEMMA LinkSteps ==
  ASSUME NEW t \in ThreadIds, NEW l \in Lists, NEW n \in Nat, NEW c \in [0 .. n + 1 -> Cells], NEW p \in Nat,
         Working(t, l, n, c, p), Link(t, i[t]), ListStep(t)
  PROVE  WorksOn(t, l)' /\ RelinksIn(t, l)
  <1> DEFINE e == i[t]
             h == HeadOf(l)
  <1>1. pc[t] \in {"link1", "link2", "link3", "link4"} /\ key' = key
    BY DEF Link
  <1>2. e \in Nodes /\ e \in Cells /\ ListOf(key, e) = l /\ key[e] % num_lists = l /\ key[e] \in Nat
        /\ (pc[t] # "link4" => Raw(e) /\ ~Linked(e))
    <2>1. Raw(e) => ~Linked(e)
      BY DEF Raw, Linked, Points
    <2>2. QED
      BY <1>1, <2>1, NewNode DEF InsertPcs
  <1>3. At(t, l, n, c, p) /\ Chain(l, n, c) /\ Members(l, n, c) /\ Control /\ Apart
    BY DEF Working
  <1>4. /\ h \in Cells /\ h \notin Nodes /\ c[0] = h /\ c[n + 1] = h /\ NULL \notin Cells
        /\ \A k \in 0 .. n + 1 : c[k] \in Cells
        /\ \A k \in 1 .. n : key[c[k]] \in Nat
        /\ \A j, k \in 0 .. n : c[j] = c[k] => j = k
        /\ \A j, k \in 1 .. n + 1 : c[j] = c[k] => j = k
    <2>1. h \in Cells /\ NULL \notin Cells
      BY CellKinds
    <2>2. Keys \subseteq Nat
      BY ListSizesAssumption
    <2>3. /\ h \notin Nodes /\ c[0] = h /\ c[n + 1] = h
          /\ \A k \in 0 .. n + 1 : c[k] \in Cells /\ ListOf(key, c[k]) = l
          /\ \A k \in 1 .. n : c[k] \in Nodes /\ key[c[k]] \in Keys
          /\ \A j, k \in 0 .. n : c[j] = c[k] => j = k
          /\ \A j, k \in 1 .. n + 1 : c[j] = c[k] => j = k
      BY <1>3, ChainCells
    <2>4. QED
      BY <2>1, <2>2, <2>3
  <1>5. pc \in [ThreadIds -> ListPcs \cup {"unborn", "lock", "done"}]
        /\ next \in [Cells -> Pointers] /\ prev \in [Cells -> Pointers]
        /\ temp \in [ThreadIds -> Pointers] /\ nextnode \in [ThreadIds -> Pointers]
    BY <1>3 DEF Control, Apart, LinksWithin
  <1>6. i'[t] = e
    BY ListStepMoves DEF Working
  <1>7. \A x : Leaves(t, x) <=> FALSE
    BY <1>1 DEF Leaves
  <1>8. \A x \in Nodes : ListOf(key, x) = l => (Linked(x) <=> On(n, c, x))
    BY <1>3 DEF Members, ListOf
  <1>9. \A k \in 0 .. n + 1 : c[k] = h \/ On(n, c, c[k])
    <2>1. \A k \in 0 .. n + 1 : k = 0 \/ k = n + 1 \/ k \in 1 .. n
      OBVIOUS
    <2>2. QED
      BY <1>4, <2>1 DEF On
  <1> HIDE DEF e, h
  <1>10. Link(t, e)
    BY DEF e
  <1>11. pc[t] # "link4" =>
           /\ p \in 0 .. n /\ temp[t] = c[p] /\ \A k \in 1 .. p : key[c[k]] < key[e]
           /\ \A k \in p + 1 .. n : key[e] <= key[c[k]]
           /\ nextnode[t] = c[p + 1] /\ p \in 0 .. n + 1 /\ p + 1 \in 0 .. n + 1 /\ p + 1 \in 1 .. n + 1
           /\ c[p] \in Cells /\ c[p + 1] \in Cells
    <2>1. pc[t] # "link4" => /\ p \in 0 .. n /\ temp[t] = c[p] /\ \A k \in 1 .. p : key[c[k]] < key[e]
                             /\ \A k \in p + 1 .. n : key[e] <= key[c[k]]
                             /\ nextnode[t] = c[p + 1]
      BY <1>1, <1>3 DEF At, AtScan, AtLink, e
    <2>2. p \in 0 .. n => p \in 0 .. n + 1 /\ p + 1 \in 0 .. n + 1 /\ p + 1 \in 1 .. n + 1
      OBVIOUS
    <2>3. QED
      BY <1>4, <2>1, <2>2
  <1>12. CASE pc[t] = "link1"
    <2>1. pc'[t] = "link2" /\ next' = [next EXCEPT ![c[p]] = e] /\ prev' = prev
          /\ temp'[t] = temp[t] /\ nextnode'[t] = nextnode[t]
      BY <1>5, <1>10, <1>11, <1>12 DEF Link, Goto
    <2>2. Forward(n, c) /\ Backward(n, c)
      BY <1>3, <1>12 DEF At, AtScan, Circular
    <2>3. ForwardBut(n, c, p)' /\ next'[c[p]] = e
      <3>1. \A k \in 0 .. n : k # p => next'[c[k]] = next[c[k]]
        BY <1>4, <1>5, <1>11, <1>12, <2>1
      <3>2. QED
        BY <1>5, <1>11, <1>12, <2>1, <2>2, <3>1 DEF Forward, ForwardBut
    <2>4. Backward(n, c)' /\ BackwardBut(n, c, p + 1)'
      BY <2>1, <2>2 DEF Backward, BackwardBut
    <2>5. At(t, l, n, c, p)'
      BY <1>1, <1>6, <1>11, <1>12, <2>1, <2>3, <2>4
         DEF At, AtEmpty, AtScan, AtLink, AtWalk, AtDelete, DeletePcs
    <2>6. \A x \in Nodes : On(n, c, x) <=> Joins(t, x) \/ (On(n, c, x) /\ ~Leaves(t, x))
      BY <1>7, <1>12 DEF Joins
    <2>7. ASSUME NEW x \in Nodes, ListOf(key, x) = l, ~On(n, c, x), Linked(x)' PROVE FALSE
      <3>1. x \in {c[p], e} /\ prev[e] = c[p]
        BY <1>3, <1>8, <1>11, <1>12, <2>1, <2>7, NewNextLink
      <3>2. QED
        BY <1>2, <1>11, <1>12, <3>1 DEF Raw
    <2>8. \A y \in Cells \ {c[p]} : next'[y] = next[y] /\ prev'[y] = prev[y]
      BY <1>5, <2>1
    <2>9. c[p] \in Cells /\ (c[p] = HeadOf(l) \/ On(n, c, c[p]))
      BY <1>9, <1>11, <1>12 DEF h
    <2>10. PICK q \in Int : (ForwardBut(n, c, q) /\ BackwardBut(n, c, q + 1))'
      BY <2>3, <2>4
    <2>11. QED
      BY <1>1, <1>3, <2>5, <2>6, <2>7, <2>8, <2>9, <2>10, StoreIn
  <1>13. CASE pc[t] = "link2"
    <2>1. pc'[t] = "link3" /\ prev' = [prev EXCEPT ![c[p + 1]] = e] /\ next' = next
          /\ temp'[t] = temp[t] /\ nextnode'[t] = nextnode[t]
      BY <1>5, <1>10, <1>11, <1>13 DEF Link, Goto, Points
    <2>2. next[c[p]] = e /\ ForwardBut(n, c, p) /\ Backward(n, c)
      BY <1>3, <1>13 DEF At, AtLink, e
    <2>3. ForwardBut(n, c, p)' /\ next'[c[p]] = e
      BY <2>1, <2>2 DEF ForwardBut
    <2>4. BackwardBut(n, c, p + 1)' /\ prev'[c[p + 1]] = e
      <3>1. \A k \in 1 .. n + 1 : k # p + 1 => prev'[c[k]] = prev[c[k]]
        BY <1>4, <1>5, <1>11, <1>13, <2>1
      <3>2. QED
        BY <1>5, <1>11, <1>13, <2>1, <2>2, <3>1 DEF Backward, BackwardBut
    <2>5. At(t, l, n, c, p)'
      BY <1>1, <1>6, <1>11, <1>13, <2>1, <2>3, <2>4
         DEF At, AtEmpty, AtScan, AtLink, AtWalk, AtDelete, DeletePcs
    <2>6. \A x \in Nodes : On(n, c, x) <=> Joins(t, x) \/ (On(n, c, x) /\ ~Leaves(t, x))
      BY <1>7, <1>13 DEF Joins
    <2>7. ASSUME NEW x \in Nodes, ListOf(key, x) = l, ~On(n, c, x), Linked(x)' PROVE FALSE
      <3>1. x \in {c[p + 1], e} /\ next[e] = c[p + 1]
        BY <1>3, <1>8, <1>11, <1>13, <2>1, <2>7, NewPrevLink
      <3>2. QED
        BY <1>2, <1>11, <1>13, <3>1 DEF Raw
    <2>8. \A y \in Cells \ {c[p + 1]} : next'[y] = next[y] /\ prev'[y] = prev[y]
      BY <1>5, <2>1
    <2>9. c[p + 1] \in Cells /\ (c[p + 1] = HeadOf(l) \/ On(n, c, c[p + 1]))
      BY <1>9, <1>11, <1>13 DEF h
    <2>10. PICK q \in Int : (ForwardBut(n, c, q) /\ BackwardBut(n, c, q + 1))'
      BY <2>3, <2>4
    <2>11. QED
      BY <1>1, <1>3, <2>5, <2>6, <2>7, <2>8, <2>9, <2>10, StoreIn
  <1>14. CASE pc[t] = "link3"
    <2>1. pc'[t] = "link4" /\ next' = [next EXCEPT ![e] = c[p + 1]] /\ prev' = prev
          /\ temp'[t] = temp[t]
      BY <1>5, <1>10, <1>11, <1>14 DEF Link, Goto
    <2>2. next[c[p]] = e /\ ForwardBut(n, c, p) /\ prev[c[p + 1]] = e /\ BackwardBut(n, c, p + 1)
      BY <1>3, <1>14 DEF At, AtLink, e
    <2>3. ~On(n, c, e) /\ \A k \in 0 .. n + 1 : c[k] # e
      BY <1>2, <1>4, <1>8, <1>9, <1>14
    <2>4. \A k \in 1 .. p : key[c[k]] <= key[e]
      <3>1. \A k \in 1 .. p : k \in 1 .. n
        BY <1>11, <1>14
      <3>2. QED
        BY <1>2, <1>4, <1>11, <1>14, <3>1
    <2>5. Fits(l, n, c, p, e)
      BY <1>2, <1>11, <1>14, <2>3, <2>4 DEF Fits
    <2>6. PICK d \in [0 .. n + 2 -> Cells] : IsInserted(l, n, c, p, e, d)
      BY <1>3, <2>5, InsertIntoChain
    <2>7. /\ Chain(l, n + 1, d) /\ d[p + 1] = e
          /\ \A k \in 0 .. p : d[k] = c[k]
          /\ \A k \in p + 1 .. n + 1 : d[k + 1] = c[k]
          /\ \A x : On(n + 1, d, x) <=> On(n, c, x) \/ x = e
      BY <2>6 DEF IsInserted
    <2>8. PICK m \in Nat : m = n + 1
      OBVIOUS
    <2>9. d \in [0 .. m + 1 -> Cells] /\ Chain(l, m, d) /\ \A x : On(m, d, x) <=> On(n, c, x) \/ x = e
      BY <2>7, <2>8
    <2>10. \A y \in Cells : next'[y] = IF y = e THEN c[p + 1] ELSE next[y]
      BY <1>5, <2>1
    <2>11. ASSUME NEW k \in 0 .. m PROVE next'[d[k]] = d[k + 1]
      <3>1. CASE k < p
        <4>1. k \in 0 .. n /\ k \in 0 .. n + 1 /\ k # p /\ k \in 0 .. p /\ k + 1 \in 0 .. p
          BY <1>11, <1>14, <2>8, <2>11, <3>1
        <4>2. d[k] = c[k] /\ d[k + 1] = c[k + 1] /\ next[c[k]] = c[k + 1] /\ c[k] \in Cells \ {e}
          BY <1>4, <2>2, <2>3, <2>7, <4>1 DEF ForwardBut
        <4>3. QED
          BY <2>10, <4>2
      <3>2. CASE k = p
        <4>1. p \in 0 .. p
          OBVIOUS
        <4>2. d[k] = c[p] /\ d[k + 1] = e
          BY <2>7, <3>2, <4>1
        <4>3. c[p] \in Cells \ {e}
          BY <1>11, <1>14, <2>3
        <4>4. QED
          BY <2>2, <2>10, <4>2, <4>3
      <3>3. CASE k = p + 1
        <4>1. p + 1 \in p + 1 .. n + 1
          BY <1>11, <1>14
        <4>2. d[k] = e /\ d[k + 1] = c[p + 1]
          BY <2>7, <3>3, <4>1
        <4>3. QED
          BY <1>2, <2>10, <4>2
      <3>4. CASE k > p + 1
        <4>1. k - 1 \in p + 1 .. n + 1 /\ k \in p + 1 .. n + 1 /\ k - 1 \in 0 .. n /\ k - 1 # p
              /\ k - 1 + 1 = k /\ k - 1 \in 0 .. n + 1
          BY <1>11, <1>14, <2>8, <2>11, <3>4
        <4>2. d[k] = c[k - 1] /\ d[k + 1] = c[k]
          BY <2>7, <4>1
        <4>3. next[c[k - 1]] = c[k] /\ c[k - 1] \in Cells \ {e}
          BY <1>4, <2>2, <2>3, <4>1 DEF ForwardBut
        <4>4. QED
          BY <2>10, <4>2, <4>3
      <3>5. QED
        BY <2>11, <3>1, <3>2, <3>3, <3>4
    <2>12. ASSUME NEW k \in 1 .. m + 1, k # p + 1 PROVE prev[d[k]] = d[k - 1]
      <3>1. CASE k < p + 1
        <4>1. k \in 1 .. n + 1 /\ k # p + 1 /\ k \in 0 .. p /\ k - 1 \in 0 .. p
          BY <1>11, <1>14, <2>8, <2>12, <3>1
        <4>2. QED
          BY <2>2, <2>7, <4>1 DEF BackwardBut
      <3>2. CASE k = p + 2
        <4>1. p + 1 \in p + 1 .. n + 1 /\ p + 1 + 1 = k /\ k - 1 = p + 1
          BY <1>11, <1>14, <3>2
        <4>2. d[k] = c[p + 1] /\ d[k - 1] = e
          BY <2>7, <4>1
        <4>3. QED
          BY <2>2, <4>2
      <3>3. CASE k > p + 2
        <4>1. k - 1 \in p + 1 .. n + 1 /\ k - 2 \in p + 1 .. n + 1 /\ k - 1 \in 1 .. n + 1 /\ k - 1 # p + 1
              /\ k - 1 + 1 = k /\ k - 2 + 1 = k - 1 /\ k - 1 - 1 = k - 2
          BY <1>11, <1>14, <2>8, <2>12, <3>3
        <4>2. d[k] = c[k - 1] /\ d[k - 1] = c[k - 2]
          BY <2>7, <4>1
        <4>3. prev[c[k - 1]] = c[k - 2]
          BY <2>2, <4>1 DEF BackwardBut
        <4>4. QED
          BY <4>2, <4>3
      <3>4. QED
        BY <2>12, <3>1, <3>2, <3>3
    <2>13. Forward(m, d)' /\ ForwardBut(m, d, p)' /\ BackwardBut(m, d, p + 1)'
      BY <2>1, <2>11, <2>12 DEF Forward, ForwardBut, BackwardBut
    <2>14. p \in 0 .. m - 1 /\ temp'[t] = d[p] /\ d[p + 1] = e
      <3>1. p \in 0 .. p /\ p \in 0 .. m - 1
        BY <1>11, <1>14, <2>8
      <3>2. QED
        BY <1>11, <1>14, <2>1, <2>7, <3>1
    <2>15. At(t, l, m, d, p)'
      BY <1>6, <2>1, <2>13, <2>14 DEF At, AtEmpty, AtScan, AtLink, AtWalk, AtDelete, DeletePcs
    <2>16. \A x \in Nodes : On(m, d, x) <=> Joins(t, x) \/ (On(n, c, x) /\ ~Leaves(t, x))
      BY <1>7, <1>14, <2>9 DEF Joins, e
    <2>17. next' = [next EXCEPT ![e] = c[p + 1]] /\ prev' = prev
      BY <2>1
    <2>18. ASSUME NEW x \in Nodes, ListOf(key, x) = l, ~On(m, d, x), Linked(x)' PROVE FALSE
      <3>1. x \in {e, c[p + 1]} /\ ~On(n, c, x) /\ x # e
        <4>1. ~On(n, c, x) /\ x # e
          BY <2>9, <2>18
        <4>2. ~Linked(x)
          BY <1>8, <2>18, <4>1
        <4>3. Apart /\ e \in Cells
          BY <1>2, <1>3
        <4>4. x \in {e, c[p + 1]}
          <5>1. PICK v : v = c[p + 1]
            OBVIOUS
          <5>2. next' = [next EXCEPT ![e] = v] /\ prev' = prev
            BY <2>17, <5>1
          <5>3. x \in {e, v}
            BY <2>18, <4>2, <4>3, <5>2, NewNextLink
          <5>4. QED
            BY <5>1, <5>3
        <4>5. QED
          BY <4>1, <4>4
      <3>2. QED
        BY <1>4, <1>9, <1>11, <1>14, <3>1
    <2>19. \A y \in Cells \ {e} : next'[y] = next[y] /\ prev'[y] = prev[y]
      BY <1>5, <2>1
    <2>20. Touches(t, e) /\ e \in Cells
      BY <1>2, <1>14 DEF Touches, e
    <2>21. PICK q \in Int : (ForwardBut(m, d, q) /\ BackwardBut(m, d, q + 1))'
      BY <2>13
    <2>22. Chain(l, m, d) /\ d \in [0 .. m + 1 -> Cells]
      BY <2>9
    <2>23. QED
      BY <1>1, <2>15, <2>16, <2>18, <2>19, <2>20, <2>21, <2>22, StoreIn
  <1>15. CASE pc[t] = "link4"
    <2>1. p \in 0 .. n - 1 /\ temp[t] = c[p] /\ c[p + 1] = e /\ Forward(n, c) /\ BackwardBut(n, c, p + 1)
      BY <1>3, <1>15 DEF At, AtLink, e
    <2>2. p + 1 \in 1 .. n /\ p + 1 \in 1 .. n + 1 /\ p \in 0 .. n + 1 /\ p + 1 - 1 = p
      BY <2>1
    <2>3. pc'[t] = "ret" /\ prev' = [prev EXCEPT ![e] = c[p]] /\ next' = next
      BY <1>5, <1>10, <1>15, <2>1 DEF Link, Goto
    <2>4. Forward(n, c)'
      BY <2>1, <2>3 DEF Forward
    <2>5. \A k \in 1 .. n + 1 : prev'[c[k]] = c[k - 1]
      <3>1. TAKE k \in 1 .. n + 1
      <3>2. CASE k = p + 1
        BY <1>2, <1>5, <2>1, <2>2, <2>3, <3>2
      <3>3. CASE k # p + 1
        <4>1. c[k] # e
          BY <1>4, <2>1, <2>2, <3>3
        <4>2. prev[c[k]] = c[k - 1]
          BY <2>1, <3>3 DEF BackwardBut
        <4>3. c[k] \in Cells
          BY <1>4
        <4>4. QED
          BY <1>5, <2>3, <4>1, <4>2, <4>3
      <3>4. QED
        BY <3>2, <3>3
    <2>6. Backward(n, c)'
      BY <2>5 DEF Backward
    <2>7. At(t, l, n, c, p)'
      BY <2>3, <2>4, <2>6 DEF At, AtEmpty, AtScan, AtLink, AtWalk, AtDelete, DeletePcs, Quiet, Circular
    <2>8. PICK q \in Int : (ForwardBut(n, c, q) /\ BackwardBut(n, c, q + 1))'
      <3>1. (ForwardBut(n, c, -1) /\ BackwardBut(n, c, -1 + 1))'
        BY <2>4, <2>6 DEF Forward, Backward, ForwardBut, BackwardBut
      <3>2. QED
        BY <3>1
    <2>9. \A x \in Nodes : On(n, c, x) <=> Joins(t, x) \/ (On(n, c, x) /\ ~Leaves(t, x))
      BY <1>7, <1>15 DEF Joins
    <2>10. ASSUME NEW x \in Nodes, ListOf(key, x) = l, ~On(n, c, x), Linked(x)' PROVE FALSE
      <3>1. x \in {e, c[p]}
        BY <1>2, <1>3, <1>8, <2>3, <2>10, NewPrevLink
      <3>2. On(n, c, e)
        BY <2>1, <2>2 DEF On
      <3>3. QED
        BY <1>4, <1>9, <2>2, <2>10, <3>1, <3>2
    <2>11. \A y \in Cells \ {e} : next'[y] = next[y] /\ prev'[y] = prev[y]
      BY <1>5, <2>3
    <2>12. Touches(t, e) /\ e \in Cells
      BY <1>2, <1>15 DEF Touches, e
    <2>13. QED
      BY <1>1, <1>3, <2>7, <2>8, <2>9, <2>10, <2>11, <2>12, StoreIn
  <1>16. QED
    BY <1>1, <1>12, <1>13, <1>14, <1>15

\* Taking out the node that the lookup found.
LEMMA DeleteSteps ==
  ASSUME NEW t \in ThreadIds, NEW l \in Lists, NEW n \in Nat, NEW c \in [0 .. n + 1 -> Cells], NEW p \in Nat,
         Working(t, l, n, c, p), DeleteStep(t, temp[t]), ListStep(t)
  PROVE  WorksOn(t, l)' /\ RelinksIn(t, l)
  <1> DEFINE e == temp[t]
             h == HeadOf(l)
  <1>1. pc[t] \in {"delete", "check", "unlink1", "unlink2"} /\ key' = key
    BY DEF DeleteStep, Delete, DeleteCheck, Unlink
  <1>2. At(t, l, n, c, p) /\ Chain(l, n, c) /\ Members(l, n, c) /\ Control /\ Apart
    BY DEF Working
  <1>3. p \in 1 .. n /\ e = c[p] /\ key[c[p]] = key[i[t]] /\ (pc[t] # "unlink2" => Circular(n, c))
    BY <1>1, <1>2 DEF At, AtDelete, DeletePcs
  <1>4. p \in 0 .. n + 1 /\ p - 1 \in 0 .. n + 1 /\ p + 1 \in 0 .. n + 1 /\ p \in 0 .. n /\ p - 1 \in 0 .. n
        /\ p \in 1 .. n + 1 /\ p + 1 \in 1 .. n + 1 /\ p - 1 + 1 = p /\ p + 1 - 1 = p
    BY <1>3
  <1>5. /\ c[0] = h /\ c[n + 1] = h /\ h \notin Nodes /\ h \in Cells
        /\ \A k \in 0 .. n + 1 : c[k] \in Cells
        /\ \A k \in 1 .. n : c[k] \in Nodes
        /\ \A j, k \in 0 .. n : c[j] = c[k] => j = k
        /\ \A j, k \in 1 .. n + 1 : c[j] = c[k] => j = k
    <2>1. /\ c[0] = h /\ c[n + 1] = h /\ h \notin Nodes
          /\ \A k \in 0 .. n + 1 : c[k] \in Cells /\ ListOf(key, c[k]) = l
          /\ \A k \in 1 .. n : c[k] \in Nodes /\ key[c[k]] \in Keys
          /\ \A j, k \in 0 .. n : c[j] = c[k] => j = k
          /\ \A j, k \in 1 .. n + 1 : c[j] = c[k] => j = k
      BY <1>2, ChainCells
    <2>2. h \in Cells
      BY CellKinds
    <2>3. QED
      BY <2>1, <2>2
  <1>6. pc \in [ThreadIds -> ListPcs \cup {"unborn", "lock", "done"}]
        /\ next \in [Cells -> Pointers] /\ prev \in [Cells -> Pointers] /\ temp \in [ThreadIds -> Pointers]
        /\ NULL \notin Cells
    BY <1>2, CellKinds DEF Control, Apart, LinksWithin
  <1>7. i'[t] = i[t]
    BY <1>2, ListStepMoves
  <1>8. \A x : Joins(t, x) <=> FALSE
    BY <1>1 DEF Joins
  <1>9. \A x \in Nodes : ListOf(key, x) = l => (Linked(x) <=> On(n, c, x))
    BY <1>2 DEF Members, ListOf
  <1>10. \A k \in 0 .. n + 1 : c[k] = h \/ On(n, c, c[k])
    <2>1. \A k \in 0 .. n + 1 : k = 0 \/ k = n + 1 \/ k \in 1 .. n
      OBVIOUS
    <2>2. QED
      BY <1>5, <2>1 DEF On
  <1>11. c[p - 1] \in Cells /\ c[p] \in Cells /\ c[p + 1] \in Cells /\ c[p] \in Nodes
    BY <1>3, <1>4, <1>5
  <1>12. next[e] = c[p + 1] /\ (pc[t] # "unlink2" => next[c[p - 1]] = c[p])
         /\ prev[e] = c[p - 1] /\ (pc[t] # "unlink2" => prev[c[p + 1]] = c[p])
    <2>1. Circular(n, c) => /\ next[c[p]] = c[p + 1] /\ next[c[p - 1]] = c[p]
                            /\ prev[c[p]] = c[p - 1] /\ prev[c[p + 1]] = c[p]
      BY <1>4 DEF Circular, Forward, Backward
    <2>2. pc[t] = "unlink2" => Forward(n, c) /\ BackwardBut(n, c, p + 1)
      BY <1>2 DEF At, AtDelete
    <2>3. pc[t] = "unlink2" => next[c[p]] = c[p + 1] /\ prev[c[p]] = c[p - 1]
      BY <1>4, <2>2 DEF Forward, BackwardBut
    <2>4. QED
      BY <1>3, <2>1, <2>3
  <1> HIDE DEF h
  <1>13. CASE pc[t] \in {"delete", "check"}
    <2>1. Delete(t, e) \/ DeleteCheck(t, e)
      BY <1>13 DEF DeleteStep, Unlink
    <2>2. UNCHANGED <<next, prev, key, temp>> /\ pc'[t] \in {"check", "unlink1"}
      BY <1>6, <1>11, <1>12, <1>13, <2>1 DEF Delete, DeleteCheck, Goto, Points
    <2>3. Circular(n, c)'
      BY <1>3, <1>13, <2>2 DEF Circular, Forward, Backward
    <2>4. At(t, l, n, c, p)'
      BY <1>3, <1>7, <2>2, <2>3 DEF At, AtEmpty, AtScan, AtLink, AtWalk, AtDelete, DeletePcs
    <2>5. QED
      BY <1>2, <1>13, <2>2, <2>4, SameLinks
  <1>14. CASE pc[t] = "unlink1"
    <2>1. Unlink(t, e)
      BY <1>14 DEF DeleteStep, Delete, DeleteCheck
    <2>2. pc'[t] = "unlink2" /\ prev' = [prev EXCEPT ![c[p + 1]] = c[p - 1]] /\ next' = next
          /\ temp'[t] = temp[t]
      BY <1>6, <1>11, <1>12, <1>14, <2>1 DEF Unlink, Goto, Points
    <2>3. Forward(n, c) /\ Backward(n, c)
      BY <1>3, <1>14 DEF Circular
    <2>4. Forward(n, c)' /\ ForwardBut(n, c, p)'
      BY <2>2, <2>3 DEF Forward, ForwardBut
    <2>5. BackwardBut(n, c, p + 1)' /\ prev'[c[p + 1]] = c[p - 1]
      <3>1. \A k \in 1 .. n + 1 : k # p + 1 => prev'[c[k]] = prev[c[k]]
        BY <1>4, <1>5, <1>6, <2>2
      <3>2. QED
        BY <1>6, <1>11, <2>2, <2>3, <3>1 DEF Backward, BackwardBut
    <2>6. At(t, l, n, c, p)'
      BY <1>1, <1>3, <1>7, <2>2, <2>4, <2>5
         DEF At, AtEmpty, AtScan, AtLink, AtWalk, AtDelete, DeletePcs
    <2>7. \A x \in Nodes : On(n, c, x) <=> Joins(t, x) \/ (On(n, c, x) /\ ~Leaves(t, x))
      BY <1>8, <1>14 DEF Leaves
    <2>8. ASSUME NEW x \in Nodes, ListOf(key, x) = l, ~On(n, c, x), Linked(x)' PROVE FALSE
      <3>1. prev' = [prev EXCEPT ![c[p + 1]] = c[p - 1]] /\ next' = next /\ ~Linked(x)
        BY <1>9, <2>2, <2>8
      <3>2. x \in {c[p + 1], c[p - 1]}
        <4>1. PICK g \in Cells, v \in Cells : g = c[p + 1] /\ v = c[p - 1]
          BY <1>11
        <4>2. prev' = [prev EXCEPT ![g] = v] /\ next' = next
          BY <3>1, <4>1
        <4>3. x \in {g, v}
          BY <1>2, <2>8, <3>1, <4>2, NewPrevLink
        <4>4. QED
          BY <4>1, <4>3
      <3>3. QED
        BY <1>4, <1>5, <1>10, <2>8, <3>2
    <2>9. \A y \in Cells \ {c[p + 1]} : next'[y] = next[y] /\ prev'[y] = prev[y]
      BY <1>6, <2>2
    <2>10. c[p + 1] \in Cells /\ (c[p + 1] = HeadOf(l) \/ On(n, c, c[p + 1]))
      BY <1>4, <1>10, <1>11 DEF h
    <2>11. PICK q \in Int : (ForwardBut(n, c, q) /\ BackwardBut(n, c, q + 1))'
      BY <2>4, <2>5
    <2>12. QED
      BY <1>1, <1>2, <2>6, <2>7, <2>8, <2>9, <2>10, <2>11, StoreIn
  <1>15. CASE pc[t] = "unlink2"
    <2>1. Unlink(t, e)
      BY <1>15 DEF DeleteStep, Delete, DeleteCheck
    <2>2. pc'[t] = "ret" /\ next' = [next EXCEPT ![c[p - 1]] = c[p + 1]] /\ prev' = prev
      BY <1>6, <1>11, <1>12, <1>15, <2>1 DEF Unlink, Goto, Points
    <2>3. Forward(n, c) /\ prev[c[p + 1]] = c[p - 1] /\ BackwardBut(n, c, p + 1)
      BY <1>2, <1>15 DEF At, AtDelete
    <2>4. PICK d \in [0 .. n -> Cells] : IsRemoved(l, n, c, p, d)
      BY <1>2, <1>3, RemoveFromChain
    <2>5. /\ Chain(l, n - 1, d)
          /\ \A k \in 0 .. p - 1 : d[k] = c[k]
          /\ \A k \in p .. n : d[k] = c[k + 1]
          /\ \A x : On(n - 1, d, x) <=> On(n, c, x) /\ x # c[p]
      BY <2>4 DEF IsRemoved
    <2>6. PICK m \in Nat : m = n - 1
      BY <1>3
    <2>7. d \in [0 .. m + 1 -> Cells] /\ Chain(l, m, d) /\ \A x : On(m, d, x) <=> On(n, c, x) /\ x # c[p]
      BY <2>5, <2>6
    <2>8. \A y \in Cells : next'[y] = IF y = c[p - 1] THEN c[p + 1] ELSE next[y]
      BY <1>6, <2>2
    <2>9. ASSUME NEW k \in 0 .. m PROVE next'[d[k]] = d[k + 1]
      <3>1. CASE k < p - 1
        <4>1. k \in 0 .. n /\ k \in 0 .. n + 1 /\ k # p - 1 /\ k \in 0 .. p - 1 /\ k + 1 \in 0 .. p - 1
          BY <1>3, <2>6, <2>9, <3>1
        <4>2. d[k] = c[k] /\ d[k + 1] = c[k + 1] /\ next[c[k]] = c[k + 1] /\ c[k] \in Cells \ {c[p - 1]}
          BY <1>4, <1>5, <2>3, <2>5, <4>1 DEF Forward
        <4>3. QED
          BY <2>8, <4>2
      <3>2. CASE k = p - 1
        <4>1. k \in 0 .. p - 1 /\ k + 1 \in p .. n /\ k + 1 + 1 = p + 1
          BY <1>3, <2>6, <2>9, <3>2
        <4>2. d[k] = c[p - 1] /\ d[k + 1] = c[p + 1]
          BY <2>5, <3>2, <4>1
        <4>3. QED
          BY <1>11, <2>8, <4>2
      <3>3. CASE k > p - 1
        <4>1. k \in p .. n /\ k + 1 \in p .. n /\ k + 1 \in 0 .. n /\ k + 1 \in 0 .. n + 1 /\ k + 1 # p - 1
              /\ k + 1 + 1 \in 0 .. n + 1
          BY <1>3, <2>6, <2>9, <3>3
        <4>2. d[k] = c[k + 1] /\ d[k + 1] = c[k + 1 + 1]
          BY <2>5, <4>1
        <4>3. next[c[k + 1]] = c[k + 1 + 1] /\ c[k + 1] \in Cells \ {c[p - 1]}
          BY <1>4, <1>5, <2>3, <4>1 DEF Forward
        <4>4. QED
          BY <2>8, <4>2, <4>3
      <3>4. QED
        BY <1>3, <2>9, <3>1, <3>2, <3>3
    <2>10. ASSUME NEW k \in 1 .. m + 1 PROVE prev[d[k]] = d[k - 1]
      <3>1. CASE k < p
        <4>1. k \in 1 .. n + 1 /\ k # p + 1 /\ k \in 0 .. p - 1 /\ k - 1 \in 0 .. p - 1
          BY <1>3, <2>6, <2>10, <3>1
        <4>2. QED
          BY <2>3, <2>5, <4>1 DEF BackwardBut
      <3>2. CASE k = p
        <4>1. k \in p .. n /\ k - 1 \in 0 .. p - 1
          BY <1>3, <2>6, <2>10, <3>2
        <4>2. d[k] = c[p + 1] /\ d[k - 1] = c[p - 1]
          BY <2>5, <3>2, <4>1
        <4>3. QED
          BY <2>3, <4>2
      <3>3. CASE k > p
        <4>1. k \in p .. n /\ k - 1 \in p .. n /\ k + 1 \in 1 .. n + 1 /\ k + 1 # p + 1
              /\ k + 1 - 1 = k /\ k - 1 + 1 = k
          BY <1>3, <2>6, <2>10, <3>3
        <4>2. d[k] = c[k + 1] /\ d[k - 1] = c[k]
          BY <2>5, <4>1
        <4>3. prev[c[k + 1]] = c[k]
          BY <2>3, <4>1 DEF BackwardBut
        <4>4. QED
          BY <4>2, <4>3
      <3>4. QED
        BY <1>3, <2>10, <3>1, <3>2, <3>3
    <2>11. Forward(m, d)' /\ Backward(m, d)'
      BY <2>2, <2>9, <2>10 DEF Forward, Backward
    <2>12. At(t, l, m, d, p)'
      BY <2>2, <2>11 DEF At, AtEmpty, AtScan, AtLink, AtWalk, AtDelete, DeletePcs, Quiet, Circular
    <2>13. PICK q \in Int : (ForwardBut(m, d, q) /\ BackwardBut(m, d, q + 1))'
      <3>1. (ForwardBut(m, d, -1) /\ BackwardBut(m, d, -1 + 1))'
        BY <2>11 DEF Forward, Backward, ForwardBut, BackwardBut
      <3>2. QED
        BY <3>1
    <2>14. \A x \in Nodes : On(m, d, x) <=> Joins(t, x) \/ (On(n, c, x) /\ ~Leaves(t, x))
      BY <1>3, <1>8, <1>15, <2>7 DEF Leaves
    <2>15. ASSUME NEW x \in Nodes, ListOf(key, x) = l, ~On(m, d, x), Linked(x)' PROVE FALSE
      <3>1. CASE x # c[p]
        <4>1. ~On(n, c, x) /\ ~Linked(x)
          BY <1>9, <2>7, <2>15, <3>1
        <4>2. next' = [next EXCEPT ![c[p - 1]] = c[p + 1]] /\ prev' = prev
          BY <2>2
        <4>3. x \in {c[p - 1], c[p + 1]}
          BY <1>2, <1>11, <2>15, <4>1, <4>2, NewNextLink
        <4>4. QED
          BY <1>4, <1>5, <1>10, <4>1, <4>3
      <3>2. CASE x = c[p]
        <4>1. c[p - 1] # c[p] /\ c[p + 1] # c[p]
          <5>1. p - 1 # p /\ p + 1 # p
            BY <1>3
          <5>2. QED
            BY <1>4, <1>5, <5>1
        <4>2. next'[x] = c[p + 1] /\ prev'[x] = c[p - 1]
          BY <1>3, <1>11, <1>12, <2>2, <2>8, <3>2, <4>1
        <4>3. prev'[c[p + 1]] = c[p - 1] /\ next'[c[p - 1]] = c[p + 1]
          BY <1>11, <2>2, <2>3, <2>8
        <4>4. QED
          BY <2>15, <3>2, <4>1, <4>2, <4>3 DEF Linked
      <3>3. QED
        BY <3>1, <3>2
    <2>16. \A y \in Cells \ {c[p - 1]} : next'[y] = next[y] /\ prev'[y] = prev[y]
      BY <1>6, <2>2
    <2>17. c[p - 1] \in Cells /\ (c[p - 1] = HeadOf(l) \/ On(n, c, c[p - 1]))
      BY <1>4, <1>10, <1>11 DEF h
    <2>18. Chain(l, m, d) /\ d \in [0 .. m + 1 -> Cells]
      BY <2>7
    <2>19. QED
      BY <1>1, <2>12, <2>13, <2>14, <2>15, <2>16, <2>17, <2>18, StoreIn
  <1>16. QED
    BY <1>1, <1>13, <1>14, <1>15

-----------------------------------------------------------------------------
(* Every step keeps the shape of every sublist. *)

LEMMA ListStepWorks ==
  ASSUME NEW t \in ThreadIds, NEW l \in Lists, NEW n \in Nat, NEW c \in [0 .. n + 1 -> Cells], NEW p \in Nat,
         Working(t, l, n, c, p), ListStep(t)
  PROVE  WorksOn(t, l)' /\ RelinksIn(t, l)
  <1>1. list(t) = HeadOf(l)
    BY DEF list, Working
  <1>2. CASE InsertStep(t, list(t), i[t])
    BY <1>1, <1>2, ScanSteps, EmptySteps, LinkSteps DEF InsertStep
  <1>3. CASE \/ Length(t, list(t)) \/ LengthStep(t, list(t))
             \/ Lookup(t, list(t)) \/ LookupStep(t, list(t), i[t])
    BY <1>1, <1>3, WalkSteps
  <1>4. CASE DeleteStep(t, temp[t])
    BY <1>4, DeleteSteps
  <1>5. QED
    BY <1>2, <1>3, <1>4 DEF ListStep

\* A thread writes to cells of the sublist it works on only.
LEMMA WritesOwnList ==
  ASSUME Control, Apart, NEW t \in ThreadIds, ListStep(t)
  PROVE  \A y \in Cells : ListOf(key, y) # listindex(t) => next'[y] = next[y] /\ prev'[y] = prev[y]
  <1> DEFINE l == listindex(t)
             h == list(t)
             e == i[t]
  <1>1. h \in Cells /\ ListOf(key, h) = l /\ (phase[t] # "length" => e \in Cells /\ ListOf(key, e) = l)
    BY Arguments
  <1>2. Within(key, temp[t], l) /\ Within(key, nextnode[t], l)
    BY DEF Apart, LocalsApart
  <1>3. next \in [Cells -> Pointers] /\ prev \in [Cells -> Pointers]
    BY DEF Apart, LinksWithin
  <1>4. \A y \in Cells : ListOf(key, y) = l => Within(key, next[y], l) /\ Within(key, prev[y], l)
    BY DEF Apart, LinksWithin
  <1>5. pc[t] \in TempPcs => temp[t] \in Cells /\ ListOf(key, temp[t]) = l
    BY <1>2 DEF Apart, LocalsApart, Within
  <1>6. pc[t] \in InsertPcs => phase[t] # "length"
    BY DEF Control, ThreadOK, PcsOf, InsertPcs, LengthPcs
  <1> HIDE DEF h, e
  <1>7. CASE InsertStep(t, h, e)
    <2>1. CASE Insert(t, h) \/ ScanHead(t) \/ ScanCompare(t, e) \/ ScanAdvance(t) \/ TakeNextNode(t)
      BY <2>1 DEF Insert, ScanHead, ScanCompare, ScanAdvance, TakeNextNode
    <2>2. CASE EmptyLink(t, h, e)
      <3>1. pc[t] \in InsertPcs
        BY <2>2 DEF EmptyLink, InsertPcs
      <3>2. QED
        <4>1. \A y \in Cells \ {h, e} : next'[y] = next[y] /\ prev'[y] = prev[y]
          BY <1>3, <2>2 DEF EmptyLink
        <4>2. QED
          BY <1>1, <1>6, <3>1, <4>1
    <2>3. CASE Link(t, e)
      <3>1. pc[t] \in InsertPcs /\ pc[t] \in TempPcs
        BY <2>3 DEF Link, InsertPcs, TempPcs
      <3>2. nextnode[t] \in Cells => ListOf(key, nextnode[t]) = l
        BY <1>2 DEF Within
      <3>3. QED
        <4>1. \A y \in Cells \ {temp[t], nextnode[t], e} : next'[y] = next[y] /\ prev'[y] = prev[y]
          BY <1>3, <2>3 DEF Link, Points
        <4>2. QED
          BY <1>1, <1>5, <1>6, <3>1, <3>2, <4>1
    <2>4. QED
      BY <1>7, <2>1, <2>2, <2>3 DEF InsertStep
  <1>8. CASE Length(t, h) \/ LengthStep(t, h) \/ Lookup(t, h) \/ LookupStep(t, h, e)
    BY <1>8 DEF Length, LengthStep, Lookup, LookupStep
  <1>9. CASE Delete(t, temp[t]) \/ DeleteCheck(t, temp[t])
    BY <1>9 DEF Delete, DeleteCheck
  <1>10. CASE Unlink(t, temp[t])
    <2>1. temp[t] \in Cells /\ ListOf(key, temp[t]) = l
      BY <1>5, <1>10 DEF Unlink, TempPcs, DeletePcs
    <2>2. /\ next[temp[t]] \in Cells => ListOf(key, next[temp[t]]) = l
          /\ prev[temp[t]] \in Cells => ListOf(key, prev[temp[t]]) = l
      BY <1>4, <2>1 DEF Within
    <2>3. QED
      <3>1. \A y \in Cells \ {next[temp[t]], prev[temp[t]]} : next'[y] = next[y] /\ prev'[y] = prev[y]
        BY <1>3, <1>10 DEF Unlink, Points
      <3>2. QED
        BY <2>2, <3>1
  <1>11. QED
    BY <1>7, <1>8, <1>9, <1>10 DEF ListStep, DeleteStep, h, e

\* A sublist whose links and whose holder's locals stay the same keeps its shape.
LEMMA SameShape ==
  ASSUME Control, Apart, UNCHANGED <<key, opt_sync>>, NEW l \in Lists, Shape(l),
         \A y \in Cells : ListOf(key, y) = l => next'[y] = next[y] /\ prev'[y] = prev[y],
         \A u \in ThreadIds : /\ Holds(u, l)' <=> Holds(u, l)
                              /\ Holds(u, l) => /\ (pc'[u] = pc[u] \/ (pc[u] = "found" /\ pc'[u] = "delete"))
                                                /\ temp'[u] = temp[u] /\ nextnode'[u] = nextnode[u] /\ i'[u] = i[u]
  PROVE  Shape(l)'
  <1>1. PICK n, c, p : n \in Nat /\ c \in [0 .. n + 1 -> Cells] /\ p \in Nat /\ ShapeIs(l, n, c, p)
    BY DEF Shape
  <1> DEFINE h == HeadOf(l)
  <1>2. Chain(l, n, c) /\ Members(l, n, c)
    BY <1>1 DEF ShapeIs
  <1>3. Chain(l, n, c)'
    BY <1>2 DEF Chain
  <1>4. h \in Cells /\ ListOf(key, h) = l
    BY CellKinds DEF ListOf, HeadOf, Lists
  <1>5. \A k \in 0 .. n + 1 : c[k] \in Cells /\ ListOf(key, c[k]) = l
    BY <1>1, <1>2, ChainCells
  <1>6. next'[h] = next[h] /\ prev'[h] = prev[h]
    BY <1>4
  <1>7. \A k \in 0 .. n + 1 : next'[c[k]] = next[c[k]] /\ prev'[c[k]] = prev[c[k]]
    BY <1>5
  <1>8. \A x \in Nodes : key[x] % num_lists = l => (Linked(x)' <=> Linked(x))
    <2>1. SUFFICES ASSUME NEW x \in Nodes, ListOf(key, x) = l
                   PROVE  Linked(x)' <=> Linked(x)
      BY DEF ListOf
    <2>2. x \in Cells /\ next'[x] = next[x] /\ prev'[x] = prev[x]
      BY <2>1, CellKinds
    <2>3. Within(key, next[x], l) /\ Within(key, prev[x], l)
      BY <2>1, <2>2 DEF Apart, LinksWithin
    <2>4. QED
      BY <2>2, <2>3 DEF Linked, Points, Within
  <1>9. Members(l, n, c)'
    BY <1>2, <1>8 DEF Members
  <1>10. Unused(l, n)' <=> Unused(l, n)
    BY <1>6 DEF Unused, HeadOf, numNodes, h
  <1>11. /\ Forward(n, c)' <=> Forward(n, c)
         /\ \A q : ForwardBut(n, c, q)' <=> ForwardBut(n, c, q)
    <2>1. \A k \in 0 .. n : k \in 0 .. n + 1
      BY <1>1
    <2>2. QED
      BY <1>7, <2>1 DEF Forward, ForwardBut
  <1>12. /\ Backward(n, c)' <=> Backward(n, c)
         /\ \A q : BackwardBut(n, c, q)' <=> BackwardBut(n, c, q)
    <2>1. \A k \in 1 .. n + 1 : k \in 0 .. n + 1
      BY <1>1
    <2>2. QED
      BY <1>7, <2>1 DEF Backward, BackwardBut
  <1>13. (Circular(n, c)' <=> Circular(n, c)) /\ (Quiet(l, n, c)' <=> Quiet(l, n, c))
    BY <1>10, <1>11, <1>12 DEF Quiet, Circular
  <1>14. ASSUME NEW u \in ThreadIds, Holds(u, l)
         PROVE  At(u, l, n, c, p)'
    <2>1. At(u, l, n, c, p)
      BY <1>1, <1>14 DEF ShapeIs
    <2>2. temp'[u] = temp[u] /\ nextnode'[u] = nextnode[u] /\ i'[u] = i[u] /\ key' = key
      BY <1>14
    <2>3. pc[u] \in InsertPcs => next'[i[u]] = next[i[u]] /\ prev'[i[u]] = prev[i[u]]
      <3>1. pc[u] \in InsertPcs => phase[u] # "length"
        BY DEF Control, ThreadOK, PcsOf, InsertPcs, LengthPcs
      <3>2. QED
        BY <1>14, <3>1, Arguments DEF Holds
    <2>4. CASE pc[u] = "found" /\ pc'[u] = "delete"
      BY <1>13, <2>1, <2>2, <2>4 DEF At, AtEmpty, AtScan, AtLink, AtWalk, AtDelete, DeletePcs
    <2>5. CASE pc'[u] = pc[u]
      <3>1. pc'[u] # "segv" /\ (pc'[u] \in {"insert", "length", "lookup", "ret"} => Quiet(l, n, c)')
        BY <1>13, <2>1, <2>5 DEF At
      <3>2. AtEmpty(u, l, n, c)'
        BY <1>6, <1>10, <1>11, <2>1, <2>2, <2>3, <2>5 DEF At, AtEmpty, InsertPcs, HeadOf, numNodes, h
      <3>3. AtScan(u, n, c, p)'
        BY <1>13, <2>1, <2>2, <2>5 DEF At, AtScan
      <3>4. AtLink(u, n, c, p)'
        <4>1. AtLink(u, n, c, p)
          BY <2>1 DEF At
        <4>2. pc[u] \in {"link2", "link3"} => p \in 0 .. n + 1 /\ p + 1 \in 0 .. n + 1
          <5>1. pc[u] \in {"link2", "link3"} => p \in 0 .. n
            BY <2>1 DEF At, AtScan
          <5>2. QED
            BY <1>1, <5>1
        <4>3. pc[u] \in {"link2", "link3"} => next'[c[p]] = next[c[p]] /\ prev'[c[p + 1]] = prev[c[p + 1]]
          BY <1>7, <4>2
        <4>4. QED
          BY <1>11, <1>12, <2>2, <2>5, <4>1, <4>3 DEF AtLink
      <3>5. AtWalk(u, l, n, c, p)'
        BY <1>13, <2>1, <2>2, <2>5 DEF At, AtWalk
      <3>6. AtDelete(u, n, c, p)'
        <4>1. AtDelete(u, n, c, p)
          BY <2>1 DEF At
        <4>2. pc[u] = "unlink2" => p + 1 \in 0 .. n + 1
          <5>1. pc[u] = "unlink2" => p \in 1 .. n
            BY <4>1 DEF AtDelete, DeletePcs
          <5>2. QED
            BY <1>1, <5>1
        <4>3. pc[u] = "unlink2" => prev'[c[p + 1]] = prev[c[p + 1]]
          BY <1>7, <4>2
        <4>4. QED
          BY <1>11, <1>12, <1>13, <2>2, <2>5, <4>1, <4>3 DEF AtDelete, DeletePcs
      <3>7. QED
        BY <3>1, <3>2, <3>3, <3>4, <3>5, <3>6 DEF At
    <2>6. QED
      BY <1>14, <2>4, <2>5
  <1>15. (\A u \in ThreadIds : ~Holds(u, l)') => Quiet(l, n, c)'
    BY <1>1, <1>13 DEF ShapeIs
  <1>16. ShapeIs(l, n, c, p)'
    BY <1>3, <1>9, <1>14, <1>15 DEF ShapeIs
  <1>17. QED
    BY <1>1, <1>16 DEF Shape

\* What the only holder of a sublist has made of it is its shape.
LEMMA ShapeOfHolder ==
  ASSUME NEW t \in ThreadIds, NEW l \in Lists, OneThreadPerList', UNCHANGED key, Holds(t, l)', WorksOn(t, l)'
  PROVE  Shape(l)'
  <1>1. \A u \in ThreadIds : Holds(u, l)' => u = t
    BY DEF OneThreadPerList, Lists
  <1>2. PICK n, c, p : /\ n \in Nat /\ c \in [0 .. n + 1 -> Cells] /\ p \in Nat
                        /\ (Chain(l, n, c) /\ Members(l, n, c) /\ At(t, l, n, c, p))'
    BY DEF WorksOn
  <1>3. ShapeIs(l, n, c, p)'
    BY <1>1, <1>2 DEF ShapeIs
  <1>4. QED
    BY <1>2, <1>3 DEF Shape

\* A list operation changes the locals of no other thread.
LEMMA OthersLocals ==
  ASSUME Control, Apart, NEW t \in ThreadIds, ListStep(t), NEW u \in ThreadIds, u # t
  PROVE  temp'[u] = temp[u] /\ nextnode'[u] = nextnode[u]
  <1>1. temp \in [ThreadIds -> Pointers] /\ nextnode \in [ThreadIds -> Pointers]
    BY DEF Apart
  <1>2. CASE InsertStep(t, list(t), i[t])
    BY <1>1, <1>2 DEF InsertStep, Insert, EmptyLink, ScanHead, ScanCompare, ScanAdvance, TakeNextNode, Link
  <1>3. CASE \/ Length(t, list(t)) \/ LengthStep(t, list(t))
             \/ Lookup(t, list(t)) \/ LookupStep(t, list(t), i[t])
    BY <1>1, <1>3 DEF Length, LengthStep, Lookup, LookupStep
  <1>4. CASE DeleteStep(t, temp[t])
    BY <1>1, <1>4 DEF DeleteStep, Delete, DeleteCheck, Unlink
  <1>5. QED
    BY <1>2, <1>3, <1>4 DEF ListStep

LEMMA OwnNodesDisjoint ==
  ASSUME NEW t \in ThreadIds, NEW u \in ThreadIds, t # u
  PROVE  Own(t) \cap Own(u) = {}
  <1>1. ASSUME NEW a \in ThreadIds, NEW b \in ThreadIds, a < b, NEW x \in Own(a), x \in Own(b)
        PROVE  FALSE
    <2>1. a \in Nat /\ b - a - 1 \in Nat /\ iterations \in Nat
      BY <1>1, SizesAssumption DEF ThreadIds
    <2>2. (b - a - 1) * iterations >= 0 /\ a * iterations \in Int
      BY <2>1
    <2>3. b * iterations = a * iterations + iterations + (b - a - 1) * iterations
      BY <2>1
    <2>4. x - a * iterations \in 0 .. iterations - 1 /\ x - b * iterations \in 0 .. iterations - 1 /\ x \in Int
      BY <1>1 DEF Own, startind
    <2>5. QED
      BY <2>1, <2>2, <2>3, <2>4
  <1>2. t < u \/ u < t
    BY SizesAssumption DEF ThreadIds
  <1>3. QED
    BY <1>1, <1>2

\* A list operation on one thread's node leaves the nodes to come as they are.
LEMMA ListStepRaw ==
  ASSUME Control, Apart, NEW t \in ThreadIds, ListStep(t), RelinksIn(t, listindex(t)),
         \A u \in ThreadIds : StillRaw(u)
  PROVE  \A u \in ThreadIds : StillRaw(u)'
  <1>1. UNCHANGED <<phase, i>> /\ pc[t] \in ListPcs
    BY ListStepMoves
  <1>2. ASSUME NEW x \in Nodes, Raw(x), ~Touches(t, x)
        PROVE  Raw(x)'
    <2>1. CASE ListOf(key, x) = listindex(t)
      BY <1>2, <2>1 DEF RelinksIn
    <2>2. CASE ListOf(key, x) # listindex(t)
      <3>1. x \in Cells /\ next'[x] = next[x] /\ prev'[x] = prev[x]
        BY <2>2, CellKinds, WritesOwnList
      <3>2. QED
        BY <1>2, <3>1 DEF Raw
    <2>3. QED
      BY <2>1, <2>2
  <1>3. Touches(t, i[t]) => phase[t] = "insert"
    BY DEF Touches, Control, ThreadOK, PcsOf, LengthPcs, LookupPcs, DeletePcs
  <1>4. phase[t] = "insert" => i[t] \in Own(t)
    BY DEF Control, ThreadOK, Own
  <1>5. \A u \in ThreadIds : \A x \in Own(u) : x \in Nodes
    BY OwnNodes DEF Own
  <1>6. ASSUME NEW u \in ThreadIds, u # t
        PROVE  StillRaw(u)'
    <2>1. SUFFICES ASSUME phase[u] = "insert", NEW x \in Own(u), x >= i[u],
                          ~(x = i[u] /\ pc[u] \in {"empty3", "empty4", "link4", "ret"})
                   PROVE  Raw(x)'
      <3>1. pc'[u] = pc[u]
        BY <1>6, ListStepMoves DEF Control
      <3>2. QED
        BY <1>1, <3>1 DEF StillRaw, Own, startind
    <2>2. Raw(x) /\ x \in Nodes
      BY <1>5, <2>1 DEF StillRaw
    <2>3. ~Touches(t, x)
      <3>1. Own(t) \cap Own(u) = {}
        BY <1>6, OwnNodesDisjoint
      <3>2. QED
        BY <1>3, <1>4, <2>1, <3>1 DEF Touches
    <2>4. QED
      BY <1>2, <2>2, <2>3
  <1>7. StillRaw(t)'
    <2>1. SUFFICES ASSUME phase[t] = "insert", NEW x \in Own(t), x >= i[t],
                          ~(x = i[t] /\ pc'[t] \in {"empty3", "empty4", "link4", "ret"})
                   PROVE  Raw(x)'
      BY <1>1 DEF StillRaw, Own, startind
    <2>2. pc[t] \in {"empty2", "empty3", "empty4", "link3", "link4"}
            => pc'[t] \in {"empty3", "empty4", "link4", "ret"}
      <3>1. SUFFICES ASSUME pc[t] \in {"empty2", "empty3", "empty4", "link3", "link4"}
                     PROVE  pc'[t] \in {"empty3", "empty4", "link4", "ret"}
        OBVIOUS
      <3>2. EmptyLink(t, list(t), i[t]) \/ Link(t, i[t])
        BY <3>1 DEF ListStep, InsertStep, Insert, ScanHead, ScanCompare, ScanAdvance, TakeNextNode,
                    Length, LengthStep, Lookup, LookupStep, DeleteStep, Delete, DeleteCheck, Unlink
      <3>3. CASE EmptyLink(t, list(t), i[t])
        BY <3>1, <3>3 DEF EmptyLink, Goto, Control
      <3>4. CASE Link(t, i[t])
        BY <3>1, <3>4 DEF Link, Goto, Control
      <3>5. QED
        BY <3>2, <3>3, <3>4
    <2>3. pc[t] # "ret"
      BY ListStepMoves
    <2>4. Raw(x) /\ x \in Nodes
      BY <1>5, <2>1, <2>2, <2>3 DEF StillRaw
    <2>5. ~Touches(t, x)
      BY <2>1, <2>2 DEF Touches
    <2>6. QED
      BY <1>2, <2>4, <2>5
  <1>8. QED
    BY <1>6, <1>7

\* The inductive invariant of the locked lists.
Locked == Control /\ Apart /\ LocksTyped /\ OneThreadPerList

LEMMA ListStepShaped ==
  ASSUME Locked, Locked', UsesLock, Shaped, NEW t \in ThreadIds, ListStep(t)
  PROVE  /\ (\A l \in Lists : Shape(l)') /\ (\A u \in ThreadIds : StillRaw(u)')
         /\ RelinksIn(t, listindex(t)) /\ WorksOn(t, listindex(t))
  <1>1. PICK l \in Lists : l = listindex(t)
    BY ListindexIsAList DEF Locked
  <1>2. pc[t] \in ListPcs /\ Control /\ Apart /\ OneThreadPerList
        /\ \E label \in ListPcs : pc' = [pc EXCEPT ![t] = label]
    BY ListStepMoves DEF Locked
  <1>3. UNCHANGED <<key, phase, i, opt_sync, locked>>
    BY <1>2, ListStepMoves
  <1>4. Holds(t, l) /\ Holds(t, l)' /\ pc'[t] \in ListPcs
    <2>1. pc'[t] \in ListPcs
      BY <1>2 DEF Control
    <2>2. QED
      BY <1>1, <1>2, <1>3, <2>1 DEF Holds, UsesLock, listindex
  <1>5. PICK n, c, p : n \in Nat /\ c \in [0 .. n + 1 -> Cells] /\ p \in Nat /\ ShapeIs(l, n, c, p)
    BY <1>2 DEF Shaped, Shape
  <1>6. Working(t, l, n, c, p) /\ WorksOn(t, l)
    BY <1>1, <1>2, <1>4, <1>5 DEF Shaped, ShapeIs, Working, WorksOn, Holds
  <1>7. WorksOn(t, l)' /\ RelinksIn(t, l)
    BY <1>2, <1>5, <1>6, ListStepWorks
  <1>8. Shape(l)'
    BY <1>2, <1>3, <1>4, <1>7, ShapeOfHolder DEF Locked
  <1>9. ASSUME NEW m \in Lists, m # l
        PROVE  Shape(m)'
    <2>1. \A y \in Cells : ListOf(key, y) = m => next'[y] = next[y] /\ prev'[y] = prev[y]
      BY <1>2, <1>9, <1>1, WritesOwnList
    <2>2. ASSUME NEW u \in ThreadIds
          PROVE  /\ Holds(u, m)' <=> Holds(u, m)
                 /\ Holds(u, m) => /\ (pc'[u] = pc[u] \/ (pc[u] = "found" /\ pc'[u] = "delete"))
                                   /\ temp'[u] = temp[u] /\ nextnode'[u] = nextnode[u] /\ i'[u] = i[u]
      <3>1. CASE u = t
        BY <1>4, <1>9, <3>1 DEF Holds
      <3>2. CASE u # t
        <4>1. pc'[u] = pc[u] /\ i'[u] = i[u] /\ phase'[u] = phase[u]
          BY <1>2, <1>3, <3>2 DEF Control
        <4>2. Holds(u, m)' <=> Holds(u, m)
          BY <1>3, <4>1, HoldsUnchanged
        <4>3. temp'[u] = temp[u] /\ nextnode'[u] = nextnode[u]
          BY <1>2, <3>2, OthersLocals
        <4>4. QED
          BY <4>1, <4>2, <4>3
      <3>3. QED
        BY <3>1, <3>2
    <2>3. QED
      <3>1. Shape(m)
        BY DEF Shaped
      <3>2. QED
        BY <1>2, <1>3, <2>1, <2>2, <3>1, SameShape
  <1>10. \A u \in ThreadIds : StillRaw(u)'
    BY <1>1, <1>2, <1>7, ListStepRaw DEF Shaped
  <1>11. QED
    BY <1>1, <1>6, <1>7, <1>8, <1>9, <1>10

LEMMA SameChain ==
  ASSUME UNCHANGED <<next, prev, key>>, NEW l, NEW n, NEW c, Chain(l, n, c), Members(l, n, c)
  PROVE  Chain(l, n, c)' /\ Members(l, n, c)' /\ (Quiet(l, n, c) => Quiet(l, n, c)')
  <1>1. Chain(l, n, c)'
    BY DEF Chain
  <1>2. \A x : Linked(x)' <=> Linked(x)
    BY DEF Linked
  <1>3. Members(l, n, c)'
    BY <1>2 DEF Members
  <1>4. Quiet(l, n, c) => Quiet(l, n, c)'
    BY DEF Quiet, Unused, Circular, Forward, Backward, HeadOf, numNodes
  <1>5. QED
    BY <1>1, <1>3, <1>4

LEMMA LockShaped ==
  ASSUME Locked, Locked', UsesLock, Shaped, NEW t \in ThreadIds, Lock(t)
  PROVE  Shaped'
  <1>1. PICK l \in Lists : l = listindex(t)
    BY ListindexIsAList DEF Locked
  <1>2. UNCHANGED <<next, prev, key, temp, nextnode, opt_sync, phase, i>>
        /\ pc[t] = "lock" /\ pc' = [pc EXCEPT ![t] = phase[t]] /\ ~locked[l]
    BY <1>1 DEF Lock, Goto
  <1>3. phase[t] \in {"insert", "length", "lookup"} /\ pc'[t] = phase[t]
        /\ \A u \in ThreadIds \ {t} : pc'[u] = pc[u]
    BY <1>2 DEF Locked, Control, ThreadOK, PcsOf
  <1>4. \A u \in ThreadIds : ~Holds(u, l)
    BY <1>2 DEF Locked, OneThreadPerList
  <1>5. PICK n, c, p : n \in Nat /\ c \in [0 .. n + 1 -> Cells] /\ p \in Nat /\ ShapeIs(l, n, c, p)
    BY DEF Shaped, Shape
  <1>6. Chain(l, n, c)' /\ Members(l, n, c)' /\ Quiet(l, n, c)'
    BY <1>2, <1>4, <1>5, SameChain DEF ShapeIs
  <1>7. At(t, l, n, c, p)'
    BY <1>3, <1>6 DEF At, AtEmpty, AtScan, AtLink, AtWalk, AtDelete, DeletePcs
  <1>8. WorksOn(t, l)'
    BY <1>5, <1>6, <1>7 DEF WorksOn
  <1>9. Holds(t, l)'
    BY <1>1, <1>2, <1>3 DEF Holds, ListPcs, UsesLock, listindex
  <1>10. Shape(l)'
    BY <1>2, <1>8, <1>9, ShapeOfHolder DEF Locked
  <1>11. ASSUME NEW m \in Lists, m # l
         PROVE  Shape(m)'
    <2>1. ASSUME NEW u \in ThreadIds
          PROVE  /\ Holds(u, m)' <=> Holds(u, m)
                 /\ Holds(u, m) => /\ (pc'[u] = pc[u] \/ (pc[u] = "found" /\ pc'[u] = "delete"))
                                   /\ temp'[u] = temp[u] /\ nextnode'[u] = nextnode[u] /\ i'[u] = i[u]
      <3>1. CASE u = t
        BY <1>1, <1>2, <1>11, <3>1 DEF Holds, listindex, ListPcs
      <3>2. CASE u # t
        BY <1>2, <1>3, <3>2, HoldsUnchanged
      <3>3. QED
        BY <3>1, <3>2
    <2>2. Shape(m)
      BY DEF Shaped
    <2>3. QED
      BY <1>2, <2>1, <2>2, SameShape DEF Locked
  <1>12. ASSUME NEW u \in ThreadIds
         PROVE  StillRaw(u)'
    <2>1. StillRaw(u) /\ (pc'[u] = pc[u] \/ pc[u] = "lock")
      BY <1>2, <1>3 DEF Shaped
    <2>2. QED
      BY <1>2, <2>1 DEF StillRaw, Own, startind, Raw
  <1>13. QED
    BY <1>10, <1>11, <1>12 DEF Shaped

LEMMA UnlockShaped ==
  ASSUME Locked, Locked', UsesLock, Shaped, NEW t \in ThreadIds, Unlock(t)
  PROVE  Shaped'
  <1>1. PICK l \in Lists : l = listindex(t)
    BY ListindexIsAList DEF Locked
  <1>2. UNCHANGED <<next, prev, key, temp, nextnode, opt_sync>> /\ pc[t] = "ret" /\ Holds(t, l)
        /\ locked' = [locked EXCEPT ![l] = FALSE]
    BY <1>1 DEF Unlock, Holds, ListPcs
  <1>3. pc'[t] \in {"lock", "done"} /\ \A u \in ThreadIds \ {t} : pc'[u] = pc[u] /\ i'[u] = i[u] /\ phase'[u] = phase[u]
    BY UnlockMoves DEF Locked, Control, EntryOf
  <1>4. PICK n, c, p : n \in Nat /\ c \in [0 .. n + 1 -> Cells] /\ p \in Nat /\ ShapeIs(l, n, c, p)
    BY DEF Shaped, Shape
  <1>5. Quiet(l, n, c)
    BY <1>2, <1>4 DEF ShapeIs, At
  <1>6. Chain(l, n, c)' /\ Members(l, n, c)' /\ Quiet(l, n, c)'
    BY <1>2, <1>4, <1>5, SameChain DEF ShapeIs
  <1>7. \A u \in ThreadIds : ~Holds(u, l)'
    <2>1. ~locked'[l]
      BY <1>2 DEF Locked, LocksTyped
    <2>2. QED
      BY <2>1 DEF Locked, OneThreadPerList
  <1>8. Shape(l)'
    BY <1>4, <1>6, <1>7 DEF ShapeIs, Shape
  <1>9. ASSUME NEW m \in Lists, m # l
        PROVE  Shape(m)'
    <2>1. ASSUME NEW u \in ThreadIds
          PROVE  /\ Holds(u, m)' <=> Holds(u, m)
                 /\ Holds(u, m) => /\ (pc'[u] = pc[u] \/ (pc[u] = "found" /\ pc'[u] = "delete"))
                                   /\ temp'[u] = temp[u] /\ nextnode'[u] = nextnode[u] /\ i'[u] = i[u]
      <3>1. CASE u = t
        BY <1>1, <1>3, <1>9, <3>1 DEF Holds, ListPcs
      <3>2. CASE u # t
        BY <1>2, <1>3, <3>2, HoldsUnchanged
      <3>3. QED
        BY <3>1, <3>2
    <2>2. Shape(m)
      BY DEF Shaped
    <2>3. QED
      BY <1>2, <2>1, <2>2, SameShape DEF Locked
  <1>10. StillRaw(t)'
    <2>1. SUFFICES ASSUME phase'[t] = "insert"
                   PROVE  StillRaw(t)'
      BY DEF StillRaw
    <2>2. phase[t] = "insert" /\ i'[t] = i[t] + 1 /\ i[t] \in Int
      <3>1. phase[t] \in {"insert", "length", "lookup"} /\ i[t] \in Int
        BY <1>2 DEF Locked, Control, ThreadOK, PcsOf
      <3>2. phase \in [ThreadIds -> {"insert", "length", "lookup", "done"}] /\ i \in [ThreadIds -> Int]
        BY DEF Locked, Control
      <3>3. i[t] < LastIndex(t)
        BY <2>1, <3>1, <3>2 DEF Unlock, NextCall
      <3>4. i' = [i EXCEPT ![t] = @ + 1] /\ phase' = phase
        BY <3>3 DEF Unlock, NextCall
      <3>5. QED
        BY <2>1, <3>2, <3>4
    <2>3. StillRaw(t)
      BY DEF Shaped
    <2>4. ASSUME NEW x \in Own(t), x >= i[t] + 1
          PROVE  Raw(x)'
      <3>1. x >= i[t] /\ x # i[t]
        BY <2>2, <2>4 DEF Own
      <3>2. Raw(x)
        BY <2>2, <2>3, <2>4, <3>1 DEF StillRaw
      <3>3. QED
        BY <1>2, <3>2 DEF Raw
    <2>5. QED
      BY <2>2, <2>4 DEF StillRaw, Own, startind
  <1>11. ASSUME NEW u \in ThreadIds, u # t
         PROVE  StillRaw(u)'
    BY <1>2, <1>3, <1>11 DEF Shaped, StillRaw, Own, startind, Raw
  <1>12. QED
    BY <1>8, <1>9, <1>10, <1>11 DEF Shaped

\* The other steps neither touch the lists nor enter or leave them.
LEMMA OtherShaped ==
  ASSUME Locked, UsesLock, Shaped, UNCHANGED <<next, prev, key, temp, nextnode, opt_sync, phase, i>>,
         \A u \in ThreadIds : \/ pc'[u] = pc[u]
                              \/ pc[u] = "found" /\ pc'[u] = "delete"
                              \/ pc[u] = "unborn" /\ pc'[u] = "lock"
  PROVE  Shaped'
  <1>1. ASSUME NEW m \in Lists
        PROVE  Shape(m)'
    <2>1. ASSUME NEW u \in ThreadIds
          PROVE  /\ Holds(u, m)' <=> Holds(u, m)
                 /\ Holds(u, m) => /\ (pc'[u] = pc[u] \/ (pc[u] = "found" /\ pc'[u] = "delete"))
                                   /\ temp'[u] = temp[u] /\ nextnode'[u] = nextnode[u] /\ i'[u] = i[u]
      BY DEF Holds, UsesLock, listindex, ListPcs
    <2>2. Shape(m)
      BY DEF Shaped
    <2>3. QED
      BY <2>1, <2>2, SameShape DEF Locked
  <1>2. ASSUME NEW u \in ThreadIds
        PROVE  StillRaw(u)'
    BY DEF Shaped, StillRaw, Own, startind, Raw
  <1>3. QED
    BY <1>1, <1>2 DEF Shaped

LEMMA StepShaped == Locked /\ Locked' /\ Shaped /\ [Next]_vars => Shaped'
  <1> SUFFICES ASSUME Locked, Locked', Shaped, [Next]_vars
               PROVE  Shaped'
    OBVIOUS
  <1>1. opt_sync' = opt_sync
    BY UnlockMoves, ListStepMoves
       DEF Locked, Next, Thread, Main, Ended, Lock, DeleteFound, Unlock, Die, vars, clientVars, threadVars,
           CreateThread, CreateFails, AllCreated, JoinThread, AllJoined, Report
  <1>2. SUFFICES ASSUME UsesLock PROVE Shaped'
    BY <1>1 DEF Shaped, UsesLock
  <1>3. ASSUME NEW t \in ThreadIds, ListStep(t) PROVE Shaped'
    BY <1>2, <1>3, ListStepShaped DEF Shaped
  <1>4. ASSUME NEW t \in ThreadIds, Lock(t) PROVE Shaped'
    BY <1>2, <1>4, LockShaped
  <1>5. ASSUME NEW t \in ThreadIds, Unlock(t) PROVE Shaped'
    BY <1>2, <1>5, UnlockShaped
  <1>6. ASSUME NEW t \in ThreadIds, DeleteFound(t) PROVE Shaped'
    BY <1>2, <1>6, OtherShaped DEF DeleteFound, Goto, Locked, Control
  <1>7. CASE CreateThread
    <2>1. mi \in ThreadIds /\ pc[mi] = "unborn"
      BY <1>7, SizesAssumption DEF CreateThread, Locked, Control, ThreadIds
    <2>2. UNCHANGED <<next, prev, key, temp, nextnode, opt_sync, phase, i>> /\ pc' = [pc EXCEPT ![mi] = "lock"]
      BY <1>2, <1>7 DEF CreateThread, Goto, EntryOf, threadVars
    <2>3. QED
      BY <1>2, <2>1, <2>2, OtherShaped DEF Locked, Control
  <1>8. CASE \/ CreateFails \/ AllCreated \/ JoinThread \/ AllJoined \/ Report \/ UNCHANGED vars
             \/ \E t \in ThreadIds : Die(t)
    <2>1. UNCHANGED <<next, prev, key, temp, nextnode, opt_sync, phase, i, pc>>
      BY <1>8 DEF CreateFails, AllCreated, JoinThread, AllJoined, Report, threadVars, vars, listVars,
                  clientVars, Die
    <2>2. QED
      BY <1>2, <2>1, OtherShaped
  <1>9. QED
    BY <1>3, <1>4, <1>5, <1>6, <1>7, <1>8 DEF Next, Thread, Main, Ended

LEMMA InitShaped == Init => Shaped
  <1> SUFFICES ASSUME Init PROVE Shaped
    OBVIOUS
  <1>1. PICK garbage \in {NULL, Wild} : /\ next = [c \in Cells |-> IF c \in Nodes THEN garbage ELSE NULL]
                                        /\ prev = next
    BY DEF Init, ListsInit
  <1>2. garbage \notin Cells
    BY CellKinds
  <1>3. \A x \in Nodes : Raw(x) /\ ~Linked(x)
    <2>1. \A x \in Nodes : next[x] = garbage /\ prev[x] = garbage
      BY <1>1, CellKinds
    <2>2. QED
      BY <1>2, <2>1 DEF Raw, Linked, Points
  <1>4. ASSUME NEW l \in Lists PROVE Shape(l)
    <2>1. PICK n \in Nat : n = 0
      OBVIOUS
    <2>2. PICK c \in [0 .. n + 1 -> Cells] : c[0] = HeadOf(l) /\ c[n + 1] = HeadOf(l)
      <3> DEFINE d == [k \in 0 .. n + 1 |-> HeadOf(l)]
      <3>1. d \in [0 .. n + 1 -> Cells] /\ d[0] = HeadOf(l) /\ d[n + 1] = HeadOf(l)
        BY CellKinds
      <3>2. QED
        BY <3>1
    <2>3. Chain(l, n, c) /\ \A x : ~On(n, c, x)
      BY <2>1, <2>2 DEF Chain, On
    <2>4. Members(l, n, c)
      BY <1>3, <2>3 DEF Members
    <2>5. Unused(l, n)
      BY <1>1, <2>1, CellKinds DEF Unused
    <2>6. \A t \in ThreadIds : ~Holds(t, l)
      BY DEF Holds, ListPcs, Init
    <2>7. ShapeIs(l, n, c, n)
      BY <2>3, <2>4, <2>5, <2>6 DEF ShapeIs, Quiet
    <2>8. QED
      BY <2>7 DEF Shape
  <1>5. ASSUME NEW t \in ThreadIds PROVE StillRaw(t)
    BY <1>3, OwnNodes DEF StillRaw, Own
  <1>6. QED
    BY <1>4, <1>5 DEF Shaped

LEMMA AlwaysLocked == Spec => []Locked
  <1>1. Init => LocksTyped /\ OneThreadPerList
    BY DEF Init, LocksTyped, OneThreadPerList, Holds, ListPcs
  <1>2. QED
    BY InitControl, InitApart, StepControl, StepApart, StepLocks, <1>1, PTL DEF Spec, Locked

LEMMA AlwaysShaped == Spec => [](Locked /\ Shaped)
  BY AlwaysLocked, InitShaped, StepShaped, PTL DEF Spec

-----------------------------------------------------------------------------
(* What a sublist is when its lock is free. *)

\* There are no more places on a chain than there are nodes.
LEMMA ChainFits ==
  ASSUME Control, NEW l \in Lists, NEW n \in Nat, NEW c, Chain(l, n, c)
  PROVE  n <= numNodes
  <1> DEFINE f == [k \in 1 .. n |-> c[k]]
  <1>1. f \in Injection(1 .. n, Nodes)
    <2>1. f \in [1 .. n -> Nodes]
      BY DEF Chain
    <2>2. \A j, k \in 1 .. n : f[j] = f[k] => j = k
      BY DEF Chain
    <2>3. QED
      BY <2>1, <2>2 DEF Injection, IsInjective
  <1>2. IsFiniteSet(Nodes) /\ Cardinality(Nodes) = numNodes
    <2>1. numNodes - 1 \in Int /\ 0 \in Int
      BY CellKinds
    <2>2. IsFiniteSet(0 .. numNodes - 1)
          /\ Cardinality(0 .. numNodes - 1) = IF 0 > numNodes - 1 THEN 0 ELSE numNodes - 1 - 0 + 1
      BY <2>1, FS_Interval
    <2>3. QED
      BY <2>2, CellKinds DEF Nodes
  <1>3. Cardinality(1 .. n) = n
    BY FS_Interval
  <1> HIDE DEF f
  <1>4. Cardinality(1 .. n) <= Cardinality(Nodes)
    BY <1>1, <1>2, FS_Injection
  <1>5. QED
    BY <1>2, <1>3, <1>4

\* Following next from the head goes through the whole chain and nothing else.
LEMMA WalkOfChain ==
  ASSUME Control, NEW l \in Lists, NEW n \in Nat, NEW c, Chain(l, n, c), Quiet(l, n, c)
  PROVE  Walk(l) = {HeadOf(l)} \cup {c[k] : k \in 1 .. n}
  <1> DEFINE S == {HeadOf(l)} \cup {c[k] : k \in 1 .. n}
  <1>1. /\ \A k \in 0 .. n + 1 : c[k] \in Cells
        /\ c[0] = HeadOf(l) /\ c[n + 1] = HeadOf(l)
    BY DEF Chain
  <1>2. \A k \in 0 .. n + 1 : c[k] \in S
    <2>1. \A k \in 0 .. n + 1 : k = 0 \/ k = n + 1 \/ k \in 1 .. n
      OBVIOUS
    <2>2. QED
      BY <1>1, <2>1
  <1>3. \A x \in S : \E k \in 0 .. n : x = c[k]
    <2>1. 0 \in 0 .. n /\ \A k \in 1 .. n : k \in 0 .. n
      OBVIOUS
    <2>2. QED
      BY <1>1, <2>1
  <1>4. Walk(l) \subseteq S
    <2>1. \A x \in S : next[x] \in Cells => next[x] \in S
      <3>1. CASE Unused(l, n)
        <4>1. S = {HeadOf(l)}
          BY <3>1 DEF Unused
        <4>2. QED
          BY <3>1, <4>1, CellKinds DEF Unused
      <3>2. CASE Circular(n, c)
        <4>1. SUFFICES ASSUME NEW k \in 0 .. n PROVE next[c[k]] \in S
          BY <1>3
        <4>2. next[c[k]] = c[k + 1] /\ k + 1 \in 0 .. n + 1
          BY <3>2 DEF Circular, Forward
        <4>3. QED
          BY <1>2, <4>2
      <3>3. QED
        BY <3>1, <3>2 DEF Quiet
    <2>2. QED
      BY <2>1, WalkWithin
  <1>5. S \subseteq Walk(l)
    <2>1. PICK r : /\ Walk(l) = r[numNodes] /\ r[0] = {HeadOf(l)}
                   /\ \A k \in 1 .. numNodes : r[k] = r[k - 1] \cup ({next[x] : x \in r[k - 1]} \cap Cells)
      BY WalkRecursion
    <2> DEFINE Good == {k \in Nat : k <= numNodes => \A j \in 0 .. n : j <= k => c[j] \in r[k]}
    <2>2. 0 \in Good
      BY <1>1, <2>1
    <2>3. \A k \in Nat : k \in Good => k + 1 \in Good
      <3>1. SUFFICES ASSUME NEW k \in Nat, k + 1 <= numNodes, \A j \in 0 .. n : j <= k => c[j] \in r[k],
                            NEW j \in 0 .. n, j <= k + 1
                     PROVE  c[j] \in r[k + 1]
        BY CellKinds
      <3>2. k + 1 \in 1 .. numNodes /\ k + 1 - 1 = k
        BY <3>1, CellKinds
      <3>3. r[k + 1] = r[k] \cup ({next[x] : x \in r[k]} \cap Cells)
        BY <2>1, <3>2
      <3>4. CASE j <= k
        BY <3>1, <3>3, <3>4
      <3>5. CASE j = k + 1
        <4>1. k \in 0 .. n /\ k + 1 \in 0 .. n + 1
          BY <3>1, <3>5
        <4>2. c[k] \in r[k]
          BY <3>1, <4>1
        <4>3. next[c[k]] = c[k + 1]
          <5>1. n # 0
            BY <3>1, <3>5
          <5>2. Circular(n, c)
            BY <5>1 DEF Quiet, Unused
          <5>3. QED
            BY <4>1, <5>2 DEF Circular, Forward
        <4>4. c[k + 1] \in Cells
          BY <1>1, <4>1
        <4>5. QED
          BY <3>3, <3>5, <4>2, <4>3, <4>4
      <3>6. QED
        BY <3>1, <3>4, <3>5
    <2> HIDE DEF Good
    <2>4. numNodes \in Good
      BY <2>2, <2>3, SetInduction, CellKinds
    <2>5. n <= numNodes
      BY ChainFits
    <2>6. \A j \in 0 .. n : c[j] \in r[numNodes]
      BY <2>4, <2>5, CellKinds DEF Good
    <2>7. QED
      BY <1>3, <2>1, <2>6
  <1>6. QED
    BY <1>4, <1>5

\* A sublist that is a chain whose links are all set is what SortedList.h:28-42 says.
LEMMA QuietIsSound ==
  ASSUME Control, NEW l \in Lists, NEW n \in Nat, NEW c, Chain(l, n, c), Members(l, n, c), Quiet(l, n, c)
  PROVE  Sound(l) /\ Walk(l) \ {HeadOf(l)} = {x \in Nodes : Linked(x) /\ key[x] % num_lists = l}
  <1>1. Walk(l) = {HeadOf(l)} \cup {c[k] : k \in 1 .. n}
    BY WalkOfChain
  <1>2. /\ c[0] = HeadOf(l) /\ c[n + 1] = HeadOf(l)
        /\ \A k \in 1 .. n : c[k] \in Nodes /\ key[c[k]] % num_lists = l
        /\ \A j, k \in 1 .. n : j <= k => key[c[j]] <= key[c[k]]
        /\ \A k \in 0 .. n + 1 : c[k] \in Cells
    BY DEF Chain
  <1>3. Walk(l) \ {HeadOf(l)} = {x \in Nodes : Linked(x) /\ key[x] % num_lists = l}
    <2>1. \A x \in Walk(l) \ {HeadOf(l)} : x \in Nodes /\ Linked(x) /\ key[x] % num_lists = l
      BY <1>1, <1>2 DEF Members, On
    <2>2. \A x \in Nodes : Linked(x) /\ key[x] % num_lists = l => x \in Walk(l) \ {HeadOf(l)}
      BY <1>1, CellKinds DEF Members, On
    <2>3. QED
      BY <2>1, <2>2
  <1>4. CASE Unused(l, n)
    <2>1. Walk(l) = {HeadOf(l)}
      BY <1>1, <1>4 DEF Unused
    <2>2. QED
      BY <1>3, <1>4, <2>1 DEF Unused, Sound
  <1>5. CASE Circular(n, c)
    <2>1. ASSUME NEW k \in 0 .. n
          PROVE  /\ Points(next[c[k]]) /\ Points(prev[c[k]])
                 /\ prev[next[c[k]]] = c[k] /\ next[prev[c[k]]] = c[k]
                 /\ c[k] \in Heads => c[k] = HeadOf(l)
                 /\ c[k] \in Nodes /\ next[c[k]] \in Nodes => key[c[k]] <= key[next[c[k]]]
      <3>1. next[c[k]] = c[k + 1] /\ prev[c[k + 1]] = c[k] /\ c[k + 1] \in Cells
        <4>1. k + 1 \in 1 .. n + 1 /\ k + 1 \in 0 .. n + 1 /\ k + 1 - 1 = k
          OBVIOUS
        <4>2. QED
          BY <1>2, <1>5, <4>1 DEF Circular, Forward, Backward
      <3>2. PICK j \in 0 .. n : prev[c[k]] = c[j] /\ next[c[j]] = c[k] /\ c[j] \in Cells
        <4>1. CASE k = 0
          <5>1. n \in 0 .. n /\ n + 1 \in 1 .. n + 1 /\ n + 1 - 1 = n /\ n \in 0 .. n + 1
            OBVIOUS
          <5>2. prev[c[n + 1]] = c[n] /\ next[c[n]] = c[n + 1]
            BY <1>5, <5>1 DEF Circular, Forward, Backward
          <5>3. QED
            BY <1>2, <4>1, <5>1, <5>2
        <4>2. CASE k # 0
          <5>1. k - 1 \in 0 .. n /\ k \in 1 .. n + 1 /\ k - 1 + 1 = k /\ k - 1 \in 0 .. n + 1
            BY <4>2
          <5>2. prev[c[k]] = c[k - 1] /\ next[c[k - 1]] = c[k]
            BY <1>5, <5>1 DEF Circular, Forward, Backward
          <5>3. QED
            BY <1>2, <5>1, <5>2
        <4>3. QED
          BY <4>1, <4>2
      <3>3. c[k] \in Heads => c[k] = HeadOf(l)
        <4>1. k = 0 \/ k \in 1 .. n
          OBVIOUS
        <4>2. \A x \in Heads : x \notin Nodes
          BY CellKinds DEF Heads, Lists
        <4>3. QED
          BY <1>2, <4>1, <4>2
      <3>4. c[k] \in Nodes /\ next[c[k]] \in Nodes => key[c[k]] <= key[next[c[k]]]
        <4>1. SUFFICES ASSUME c[k] \in Nodes, c[k + 1] \in Nodes
                       PROVE  key[c[k]] <= key[c[k + 1]]
          BY <3>1
        <4>2. k # 0 /\ k + 1 # n + 1
          BY <1>2, <4>1, CellKinds
        <4>3. k \in 1 .. n /\ k + 1 \in 1 .. n /\ k <= k + 1
          BY <4>2
        <4>4. QED
          BY <1>2, <4>3
      <3>5. QED
        BY <1>2, <3>1, <3>2, <3>3, <3>4 DEF Points
    <2>2. \A x \in Walk(l) : \E k \in 0 .. n : x = c[k]
      <3>1. 0 \in 0 .. n /\ \A k \in 1 .. n : k \in 0 .. n
        OBVIOUS
      <3>2. QED
        BY <1>1, <1>2, <3>1
    <2>3. Sound(l)
      BY <2>1, <2>2 DEF Sound
    <2>4. QED
      BY <1>3, <2>3
  <1>6. QED
    BY <1>4, <1>5 DEF Quiet

\* With its locks on, lab2_list leaves every sublist that nobody works on as
\* SortedList.h:28-42 describes it, circular, doubly linked and sorted, and holding
\* exactly the nodes inserted and not yet deleted whose keys hash to it.
THEOREM FreeListsAreSound == Spec => []FreeListsSound
  <1>1. ASSUME Locked, Shaped, UsesLock, NEW l \in Lists, ~locked[l]
        PROVE  Sound(l) /\ Walk(l) \ {HeadOf(l)} = {x \in Nodes : Linked(x) /\ key[x] % num_lists = l}
    <2>1. PICK n, c, p : n \in Nat /\ c \in [0 .. n + 1 -> Cells] /\ p \in Nat /\ ShapeIs(l, n, c, p)
      BY <1>1 DEF Shaped, Shape
    <2>2. Control /\ n \in Nat /\ Chain(l, n, c) /\ Members(l, n, c) /\ Quiet(l, n, c)
      BY <1>1, <2>1 DEF Locked, OneThreadPerList, ShapeIs
    <2>3. QED
      BY <2>2, QuietIsSound
  <1>2. Locked /\ Shaped => FreeListsSound
    BY <1>1 DEF FreeListsSound
  <1>3. QED
    BY AlwaysShaped, <1>2, PTL

-----------------------------------------------------------------------------
(* The nodes of nodelist, by thread and by index. *)

LEMMA IndexIsNode ==
  ASSUME NEW n \in NodeIds
  PROVE  Index(n) \in Nodes /\ Index(n) \in Own(n[1])
  <1>1. n[1] \in ThreadIds /\ n[2] \in 0 .. iterations - 1 /\ n[1] \in Int
    BY DEF NodeIds, ThreadIds
  <1>2. startind(n[1]) \in Int
    BY <1>1, SizesAssumption DEF startind
  <1>3. Index(n) \in Int /\ Index(n) - startind(n[1]) = n[2]
    BY <1>1, <1>2 DEF Index
  <1>4. QED
    BY <1>1, <1>3, OwnNodes DEF Own

LEMMA IndexIsUnique ==
  ASSUME NEW n \in NodeIds, NEW m \in NodeIds, Index(n) = Index(m)
  PROVE  n = m
  <1>1. /\ n[1] \in ThreadIds /\ n[2] \in Int /\ n = <<n[1], n[2]>>
        /\ m[1] \in ThreadIds /\ m[2] \in Int /\ m = <<m[1], m[2]>>
    BY DEF NodeIds
  <1>2. n[1] = m[1]
    BY <1>1, IndexIsNode, OwnNodesDisjoint
  <1>3. startind(n[1]) \in Int
    BY <1>1, SizesAssumption DEF startind, ThreadIds
  <1>4. n[2] = m[2]
    <2>1. startind(n[1]) + n[2] = startind(n[1]) + m[2]
      BY <1>2 DEF Index
    <2>2. QED
      BY <1>1, <1>3, <2>1
  <1>5. QED
    BY <1>1, <1>2, <1>4

LEMMA NodeHasIndex ==
  ASSUME NEW x \in Nodes
  PROVE  \E n \in NodeIds : Index(n) = x
  <1> DEFINE q == x \div iterations
             r == x % iterations
  <1>1. x \in Nat /\ x < threads * iterations /\ iterations \in Nat \ {0} /\ threads \in Nat
    BY CellKinds, SizesAssumption, ListSizesAssumption DEF Nodes, numNodes
  <1>2. q \in Int /\ r \in 0 .. iterations - 1 /\ x = iterations * q + r
    BY <1>1
  <1> HIDE DEF q, r
  <1>3. q * iterations = iterations * q
    BY <1>1, <1>2
  <1>4. q >= 0
    <2>1. SUFFICES ASSUME q + 1 <= 0 PROVE FALSE
      BY <1>2
    <2>2. iterations * (q + 1) <= 0
      BY <1>1, <1>2, <2>1
    <2>3. iterations * (q + 1) = iterations * q + iterations
      BY <1>1, <1>2
    <2>4. QED
      BY <1>1, <1>2, <2>2, <2>3
  <1>5. q < threads
    <2>1. SUFFICES ASSUME q - threads >= 0 PROVE FALSE
      BY <1>1, <1>2
    <2>2. iterations * (q - threads) >= 0
      BY <1>1, <1>2, <2>1
    <2>3. iterations * (q - threads) = iterations * q - threads * iterations
      BY <1>1, <1>2
    <2>4. QED
      BY <1>1, <1>2, <2>2, <2>3
  <1>6. <<q, r>> \in NodeIds /\ Index(<<q, r>>) = x
    BY <1>1, <1>2, <1>3, <1>4, <1>5 DEF NodeIds, ThreadIds, Index, startind
  <1>7. QED
    BY <1>6

-----------------------------------------------------------------------------
(* The set of nodes that PartitionedSet speaks of, whatever steps the lists take. *)

\* The variables of the set, as functions of the state of the lists.
Keyed == [n \in NodeIds |-> key[Index(n)]]
Ids == {n \in NodeIds : Linked(Index(n))}
Ins == [t \in ThreadIds |-> InsertedBy(t)]
Del == [t \in ThreadIds |-> DeletedBy(t)]

\* The nodes of S with key k, and the nodes whose lookup is still to come.
Matching(K, S, k) == {n \in S : K[n] = k}
ToCome(I, D) == {n \in NodeIds : D[n[1]] <= n[2] /\ n[2] < I[n[1]]}

SetTypes ==
  /\ Keyed \in [NodeIds -> Keys] /\ Ids \subseteq NodeIds
  /\ Ins \in [ThreadIds -> 0 .. iterations] /\ Del \in [ThreadIds -> 0 .. iterations]
  /\ exit \in {Running, 0, 1}
  /\ \A t \in ThreadIds : Del[t] > 0 => Ins[t] = iterations

\* Only nodes that their threads have inserted are on the lists.
OnlyInserted == \A n \in Ids : n[2] < Ins[n[1]]

Balanced ==
  \A k \in Keys : Cardinality(Matching(Keyed, Ids, k)) = Cardinality(Matching(Keyed, ToCome(Ins, Del), k))

SetIInv == SetTypes /\ OnlyInserted /\ Balanced

LEMMA MatchingFinite ==
  ASSUME NEW S \in SUBSET NodeIds, NEW K, NEW k
  PROVE  IsFiniteSet(Matching(K, S, k)) /\ Cardinality(Matching(K, S, k)) \in Nat
  <1>1. IsFiniteSet(ThreadIds) /\ IsFiniteSet(0 .. iterations - 1)
    BY SizesAssumption, FS_Interval DEF ThreadIds
  <1>2. IsFiniteSet(NodeIds)
    BY <1>1, FS_Product DEF NodeIds
  <1>3. QED
    BY <1>2, FS_Subset, FS_CardinalityType DEF Matching

\* Adding one node to a set adds one to the count of its key.
LEMMA AddOneKey ==
  ASSUME NEW S \in SUBSET NodeIds, NEW K, NEW n \in NodeIds, n \notin S, NEW k
  PROVE  Cardinality(Matching(K, S \cup {n}, k)) =
           Cardinality(Matching(K, S, k)) + (IF K[n] = k THEN 1 ELSE 0)
  <1>1. CASE K[n] = k
    <2>1. Matching(K, S \cup {n}, k) = Matching(K, S, k) \cup {n} /\ n \notin Matching(K, S, k)
      BY <1>1 DEF Matching
    <2>2. QED
      BY <1>1, <2>1, MatchingFinite, FS_AddElement
  <1>2. CASE K[n] # k
    <2>1. Matching(K, S \cup {n}, k) = Matching(K, S, k)
      BY <1>2 DEF Matching
    <2>2. QED
      BY <1>2, <2>1, MatchingFinite
  <1>3. QED
    BY <1>1, <1>2

\* Removing one node from a set takes one from the count of its key.
LEMMA RemoveOneKey ==
  ASSUME NEW S \in SUBSET NodeIds, NEW K, NEW n \in S, NEW k
  PROVE  Cardinality(Matching(K, S \ {n}, k)) =
           Cardinality(Matching(K, S, k)) - (IF K[n] = k THEN 1 ELSE 0)
  <1>1. CASE K[n] = k
    <2>1. Matching(K, S \ {n}, k) = Matching(K, S, k) \ {n} /\ n \in Matching(K, S, k)
      BY <1>1 DEF Matching
    <2>2. IsFiniteSet(Matching(K, S, k)) /\ Cardinality(Matching(K, S, k)) \in Nat
      BY MatchingFinite
    <2>3. Cardinality(Matching(K, S, k) \ {n}) = Cardinality(Matching(K, S, k)) - 1
      BY <2>1, <2>2, FS_RemoveElement
    <2>4. QED
      BY <1>1, <2>1, <2>3
  <1>2. CASE K[n] # k
    <2>1. Matching(K, S \ {n}, k) = Matching(K, S, k)
      BY <1>2 DEF Matching
    <2>2. QED
      BY <1>2, <2>1, MatchingFinite
  <1>3. QED
    BY <1>1, <1>2

\* What the actions of PartitionedSet say of these four.
LEMMA SetActions ==
  /\ \A t : Atomic!Insert(t) =>
       /\ Ins[t] < iterations
       /\ Ids' = Ids \cup {<<t, Ins[t]>>}
       /\ Ins' = [Ins EXCEPT ![t] = @ + 1]
       /\ UNCHANGED <<Keyed, Del, exit>>
  /\ \A t : Atomic!LookupAndDelete(t) =>
       /\ Ins[t] = iterations /\ Del[t] < iterations
       /\ LET found == Matching(Keyed, Ids, Keyed[<<t, Del[t]>>])
          IN  IF found = {} THEN exit' = 2 /\ UNCHANGED <<Ids, Del>>
              ELSE /\ \E n \in found : Ids' = Ids \ {n}
                   /\ Del' = [Del EXCEPT ![t] = @ + 1]
                   /\ UNCHANGED exit
       /\ UNCHANGED <<Keyed, Ins>>
  /\ Atomic!Report =>
       /\ \A t \in ThreadIds : Del[t] = iterations
       /\ exit' = IF Ids = {} THEN 0 ELSE 2
       /\ UNCHANGED <<Keyed, Ids, Ins, Del>>
  /\ Atomic!CreateFails => exit' = 1 /\ UNCHANGED <<Keyed, Ids, Ins, Del>>
  /\ UNCHANGED Atomic!vars => UNCHANGED <<Keyed, Ids, Ins, Del, exit>>
  <1>1. ASSUME NEW t, Atomic!Insert(t)
        PROVE  /\ Ins[t] < iterations
               /\ Ids' = Ids \cup {<<t, Ins[t]>>}
               /\ Ins' = [Ins EXCEPT ![t] = @ + 1]
               /\ UNCHANGED <<Keyed, Del, exit>>
    BY <1>1, Zenon DEF Atomic!Insert, Ids, Ins, Del, Keyed
  <1>2. ASSUME NEW t, Atomic!LookupAndDelete(t)
        PROVE  /\ Ins[t] = iterations /\ Del[t] < iterations
               /\ LET found == Matching(Keyed, Ids, Keyed[<<t, Del[t]>>])
                  IN  IF found = {} THEN exit' = 2 /\ UNCHANGED <<Ids, Del>>
                      ELSE /\ \E n \in found : Ids' = Ids \ {n}
                           /\ Del' = [Del EXCEPT ![t] = @ + 1]
                           /\ UNCHANGED exit
               /\ UNCHANGED <<Keyed, Ins>>
    <2>1. Atomic!WithKey(Ids, Atomic!WantedKey(t)) = Matching(Keyed, Ids, Keyed[<<t, Del[t]>>])
      BY Zenon DEF Atomic!WithKey, Atomic!WantedKey, Matching, Ids, Keyed, Del
    <2>2. QED
      BY <1>2, <2>1, Zenon DEF Atomic!LookupAndDelete, Atomic!Deleting, Ids, Ins, Del, Keyed
  <1>3. ASSUME Atomic!Report
        PROVE  /\ \A t \in ThreadIds : Del[t] = iterations
               /\ exit' = IF Ids = {} THEN 0 ELSE 2
               /\ UNCHANGED <<Keyed, Ids, Ins, Del>>
    BY <1>3, Zenon DEF Atomic!Report, Atomic!AllDone, Atomic!ThreadIds, ThreadIds, Ids, Ins, Del, Keyed
  <1>4. ASSUME Atomic!CreateFails
        PROVE  exit' = 1 /\ UNCHANGED <<Keyed, Ids, Ins, Del>>
    BY <1>4, Zenon DEF Atomic!CreateFails, Ids, Ins, Del, Keyed
  <1>5. ASSUME UNCHANGED Atomic!vars
        PROVE  UNCHANGED <<Keyed, Ids, Ins, Del, exit>>
    BY <1>5, Zenon DEF Atomic!vars, Ids, Ins, Del, Keyed
  <1>6. QED
    BY <1>1, <1>2, <1>3, <1>4, <1>5

LEMMA SetInsertStep ==
  ASSUME SetIInv, NEW t \in ThreadIds, Atomic!Insert(t)
  PROVE  SetIInv'
  <1> USE SizesAssumption
  <1> DEFINE n == <<t, Ins[t]>>
  <1>a. /\ Ins[t] < iterations
        /\ Ids' = Ids \cup {n}
        /\ Ins' = [Ins EXCEPT ![t] = @ + 1]
        /\ UNCHANGED <<Keyed, Del, exit>>
    BY SetActions
  <1>1. Ins[t] \in 0 .. iterations - 1 /\ Del[t] = 0 /\ n \in NodeIds
    BY <1>a DEF SetIInv, SetTypes, NodeIds
  <1>2. SetTypes'
    BY <1>a, <1>1 DEF SetIInv, SetTypes
  <1>3. n \notin Ids /\ Ids \subseteq NodeIds
    BY <1>1 DEF SetIInv, SetTypes, OnlyInserted
  <1>4. OnlyInserted'
    BY <1>a, <1>1 DEF SetIInv, SetTypes, OnlyInserted, NodeIds
  <1>5. /\ n \notin ToCome(Ins, Del) /\ ToCome(Ins, Del) \subseteq NodeIds
        /\ ToCome(Ins', Del') = ToCome(Ins, Del) \cup {n}
    BY <1>a, <1>1 DEF SetIInv, SetTypes, ToCome, NodeIds
  <1>6. ASSUME NEW k \in Keys
        PROVE  Cardinality(Matching(Keyed, Ids \cup {n}, k)) =
                 Cardinality(Matching(Keyed, ToCome(Ins, Del) \cup {n}, k))
    BY <1>1, <1>3, <1>5, AddOneKey DEF SetIInv, Balanced
  <1>7. Balanced'
    BY <1>a, <1>5, <1>6, Zenon DEF Balanced
  <1>8. QED
    BY <1>2, <1>4, <1>7 DEF SetIInv

\* A lookup cannot fail: its key is owed, so a node with that key is there.
LEMMA NoLookupFails ==
  ASSUME SetIInv, NEW t \in ThreadIds, Ins[t] = iterations, Del[t] < iterations
  PROVE  /\ <<t, Del[t]>> \in ToCome(Ins, Del)
         /\ Matching(Keyed, Ids, Keyed[<<t, Del[t]>>]) # {}
  <1> DEFINE n == <<t, Del[t]>>
             k == Keyed[n]
             rest == ToCome(Ins, Del)
  <1>1. n \in NodeIds /\ n \in rest /\ k \in Keys /\ rest \subseteq NodeIds
    BY SizesAssumption DEF SetIInv, SetTypes, NodeIds, ToCome
  <1>2. n \in Matching(Keyed, rest, k)
    BY <1>1, Zenon DEF Matching
  <1>3. IsFiniteSet(Matching(Keyed, rest, k))
    BY <1>1, MatchingFinite
  <1>4. Cardinality(Matching(Keyed, rest, k)) # 0
    BY <1>2, <1>3, FS_EmptySet, Zenon
  <1>5. Cardinality(Matching(Keyed, Ids, k)) # 0
    BY <1>1, <1>4, Zenon DEF SetIInv, Balanced
  <1>6. Cardinality({}) = 0
    BY FS_EmptySet, Zenon
  <1>7. QED
    BY <1>1, <1>5, <1>6, Zenon

LEMMA SetDeleteStep ==
  ASSUME SetIInv, NEW t \in ThreadIds, Atomic!LookupAndDelete(t)
  PROVE  SetIInv'
  <1> USE SizesAssumption
  <1> DEFINE n == <<t, Del[t]>>
  <1>1. Ins[t] = iterations /\ Del[t] < iterations /\ UNCHANGED <<Keyed, Ins>>
    BY SetActions, Zenon
  <1>2. n \in ToCome(Ins, Del) /\ Matching(Keyed, Ids, Keyed[n]) # {}
    BY <1>1, NoLookupFails
  <1>3. /\ \E found \in Matching(Keyed, Ids, Keyed[n]) : Ids' = Ids \ {found}
        /\ Del' = [Del EXCEPT ![t] = @ + 1] /\ exit' = exit
    BY <1>2, SetActions
  <1>4. PICK found \in Ids : Keyed[found] = Keyed[n] /\ Ids' = Ids \ {found}
    BY <1>3 DEF Matching
  <1>5. SetTypes'
    BY <1>1, <1>3, <1>4 DEF SetIInv, SetTypes
  <1>6. OnlyInserted'
    BY <1>1, <1>4 DEF SetIInv, OnlyInserted
  <1>7. /\ ToCome(Ins, Del) \subseteq NodeIds /\ Ids \subseteq NodeIds
        /\ ToCome(Ins', Del') = ToCome(Ins, Del) \ {n}
    BY <1>1, <1>3 DEF SetIInv, SetTypes, ToCome, NodeIds
  <1>8. ASSUME NEW k \in Keys
        PROVE  Cardinality(Matching(Keyed, Ids \ {found}, k)) =
                 Cardinality(Matching(Keyed, ToCome(Ins, Del) \ {n}, k))
    BY <1>2, <1>4, <1>7, RemoveOneKey DEF SetIInv, Balanced
  <1>9. Balanced'
    BY <1>1, <1>4, <1>7, <1>8, Zenon DEF Balanced
  <1>10. QED
    BY <1>5, <1>6, <1>9 DEF SetIInv

\* When nothing is owed any more nothing is left on the lists.
LEMMA EmptyAtTheEnd ==
  ASSUME SetIInv, \A t \in ThreadIds : Del[t] = iterations
  PROVE  Ids = {}
  <1>1. SUFFICES ASSUME NEW n \in Ids
                 PROVE  FALSE
    OBVIOUS
  <1> DEFINE k == Keyed[n]
  <1>2. k \in Keys /\ Ids \subseteq NodeIds
    BY DEF SetIInv, SetTypes
  <1>3. ToCome(Ins, Del) = {}
    BY SizesAssumption DEF ToCome, NodeIds
  <1>4. Matching(Keyed, ToCome(Ins, Del), k) = {}
    BY <1>3, Zenon DEF Matching
  <1>5. Cardinality(Matching(Keyed, Ids, k)) = 0
    <2>1. Cardinality({}) = 0
      BY FS_EmptySet, Zenon
    <2>2. Cardinality(Matching(Keyed, Ids, k)) = Cardinality(Matching(Keyed, ToCome(Ins, Del), k))
      BY <1>2, Zenon DEF SetIInv, Balanced
    <2>3. QED
      BY <1>4, <2>1, <2>2, Zenon
  <1>6. IsFiniteSet(Matching(Keyed, Ids, k))
    BY <1>2, MatchingFinite
  <1>7. Matching(Keyed, Ids, k) = {}
    BY <1>5, <1>6, FS_EmptySet, Zenon
  <1>8. n \in Matching(Keyed, Ids, k)
    BY Zenon DEF Matching
  <1>9. QED
    BY <1>7, <1>8, Zenon

LEMMA SetExitStep ==
  ASSUME SetIInv, Atomic!Report \/ Atomic!CreateFails \/ UNCHANGED Atomic!vars
  PROVE  SetIInv'
  <1>1. /\ exit' \in {0, 1} \/ UNCHANGED exit
        /\ UNCHANGED <<Keyed, Ids, Ins, Del>>
    BY SetActions, EmptyAtTheEnd
  <1>2. QED
    BY <1>1, Zenon DEF SetIInv, SetTypes, OnlyInserted, Balanced

LEMMA SetInitially ==
  ASSUME Atomic!Init
  PROVE  SetIInv
  <1>1. /\ Keyed \in [NodeIds -> Keys] /\ Ids = {} /\ exit = Running
        /\ Ins = [t \in ThreadIds |-> 0] /\ Del = [t \in ThreadIds |-> 0]
    BY Zenon DEF Atomic!Init, Atomic!Nodes, Atomic!ThreadIds, Atomic!Running,
                 NodeIds, ThreadIds, Running, Keyed, Ids, Ins, Del
  <1>2. SetTypes /\ OnlyInserted
    BY <1>1, SizesAssumption DEF SetTypes, OnlyInserted
  <1>3. ToCome(Ins, Del) = {}
    BY <1>1 DEF ToCome, NodeIds
  <1>4. Balanced
    BY <1>1, <1>3, Zenon DEF Balanced
  <1>5. QED
    BY <1>2, <1>4 DEF SetIInv

LEMMA SetInductive ==
  ASSUME SetIInv, [Atomic!Next]_(Atomic!vars)
  PROVE  SetIInv'
  <1>1. CASE UNCHANGED Atomic!vars \/ Atomic!Ended
    BY <1>1, SetExitStep DEF Atomic!Ended
  <1>2. CASE Atomic!Next /\ ~Atomic!Ended
    BY <1>2, SetInsertStep, SetDeleteStep, SetExitStep DEF Atomic!Next, Atomic!ThreadIds, ThreadIds
  <1>3. QED
    BY <1>1, <1>2

\* What this says in the words of PartitionedSet.
LEMMA SetInvKeeps == SetIInv => Atomic!KeysBalance /\ Atomic!NeverCorrupted
  <1>1. Atomic!Owed = ToCome(Ins, Del)
    BY Zenon DEF Atomic!Owed, Atomic!Nodes, Atomic!ThreadIds, ThreadIds, NodeIds, ToCome, Ins, Del
  <1>2. \A S, k : Atomic!WithKey(S, k) = Matching(Keyed, S, k)
    BY Zenon DEF Atomic!WithKey, Matching, Keyed
  <1>3. ASSUME Balanced PROVE Atomic!KeysBalance
    BY <1>1, <1>2, <1>3, Zenon DEF Balanced, Atomic!KeysBalance, Ids, Atomic!Cardinality, Cardinality
  <1>4. SetTypes => Atomic!NeverCorrupted
    BY DEF SetTypes, Atomic!NeverCorrupted, Running
  <1>5. QED
    BY <1>3, <1>4 DEF SetIInv

LEMMA SetInvariance == Atomic!Spec => []SetIInv
  <1>1. Atomic!Init => SetIInv
    BY SetInitially
  <1>2. SetIInv /\ [Atomic!Next]_(Atomic!vars) => SetIInv'
    BY SetInductive
  <1>3. QED
    BY <1>1, <1>2, PTL DEF Atomic!Spec

\* The number of nodes with a key always equals the number of lookups of that
\* key still to come, however the nodes of equal keys are exchanged.
THEOREM KeysAlwaysBalance == Atomic!Spec => []Atomic!KeysBalance
  BY SetInvKeeps, SetInvariance, PTL

\* No lookup of lab2_list fails and its lists end up empty, for every number of
\* threads, iterations and keys, once list operations are atomic.
THEOREM AtomicListsNeverFail == Atomic!Spec => []Atomic!NeverCorrupted
  BY SetInvKeeps, SetInvariance, PTL

-----------------------------------------------------------------------------
(* What the steps of the abstract set are in terms of the lists. *)

\* Thread t has inserted, or looked up and deleted, one more; nobody else has.
OneMoreInserted(t) ==
  /\ InsertedBy(t) \in 0 .. iterations - 1 /\ InsertedBy(t)' = InsertedBy(t) + 1
  /\ \A u \in ThreadIds \ {t} : InsertedBy(u)' = InsertedBy(u)

OneMoreDeleted(t) ==
  /\ DeletedBy(t) \in 0 .. iterations - 1 /\ DeletedBy(t)' = DeletedBy(t) + 1
  /\ \A u \in ThreadIds \ {t} : DeletedBy(u)' = DeletedBy(u)

SameInserted == \A u \in ThreadIds : InsertedBy(u)' = InsertedBy(u)
SameDeleted == \A u \in ThreadIds : DeletedBy(u)' = DeletedBy(u)
SameMembers == \A x \in Nodes : Linked(x)' <=> Linked(x)

Inserts(t) ==
  /\ OneMoreInserted(t) /\ SameDeleted /\ UNCHANGED <<key, exit>>
  /\ \A x \in Nodes : Linked(x)' <=> Linked(x) \/ x = startind(t) + InsertedBy(t)

Deletes(t) ==
  /\ InsertedBy(t) = iterations
  /\ OneMoreDeleted(t) /\ SameInserted /\ UNCHANGED <<key, exit>>
  /\ \E y \in Nodes : /\ Linked(y) /\ key[y] = key[startind(t) + DeletedBy(t)]
                      /\ \A x \in Nodes : Linked(x)' <=> Linked(x) /\ x # y

Misses(t) ==
  /\ InsertedBy(t) = iterations /\ DeletedBy(t) \in 0 .. iterations - 1
  /\ \A x \in Nodes : Linked(x) => key[x] # key[startind(t) + DeletedBy(t)]
  /\ exit' = DeathByCorruption /\ SameInserted /\ SameDeleted /\ SameMembers /\ UNCHANGED key

Reports ==
  /\ \A t \in ThreadIds : DeletedBy(t) = iterations
  /\ exit' = IF \E x \in Nodes : Linked(x) THEN DeathByCorruption ELSE 0
  /\ SameInserted /\ SameDeleted /\ SameMembers /\ UNCHANGED key

Fails == exit' = 1 /\ SameInserted /\ SameDeleted /\ SameMembers /\ UNCHANGED key

Nothing == SameInserted /\ SameDeleted /\ SameMembers /\ UNCHANGED <<key, exit>>

LEMMA IdsAfter ==
  ASSUME NEW n \in NodeIds
  PROVE  /\ n \in Ids <=> Linked(Index(n))
         /\ \A x \in Nodes : x = Index(n) => (n \in Ids' <=> Linked(x)')
  <1>1. n \in Ids <=> Linked(Index(n))
    BY DEF Ids
  <1>2. n \in Ids' <=> Linked(Index(n))'
    BY DEF Ids
  <1>3. \A x \in Nodes : x = Index(n) => (n \in Ids' <=> Linked(x)')
    BY <1>2 DEF Index, startind
  <1>4. QED
    BY <1>1, <1>3

LEMMA InsertsAbstractly ==
  ASSUME NEW t \in ThreadIds, Inserts(t)
  PROVE  Atomic!Insert(t)
  <1> DEFINE id == <<t, InsertedBy(t)>>
             ins == [u \in ThreadIds |-> InsertedBy(u)]
             del == [u \in ThreadIds |-> DeletedBy(u)]
             keys == [n \in NodeIds |-> key[Index(n)]]
  <1>1. id \in NodeIds /\ Index(id) = startind(t) + InsertedBy(t)
    BY DEF Inserts, OneMoreInserted, NodeIds, Index
  <1>2. Ids' = Ids \cup {id}
    <2>1. ASSUME NEW n \in NodeIds
          PROVE  n \in Ids' <=> n \in Ids \/ n = id
      <3>1. PICK x \in Nodes : x = Index(n)
        BY IndexIsNode
      <3>2. n \in Ids' <=> Linked(x)'
        BY <3>1, IdsAfter
      <3>3. n \in Ids <=> Linked(x)
        BY <3>1, IdsAfter
      <3>4. x = startind(t) + InsertedBy(t) <=> n = id
        BY <1>1, <3>1, IndexIsUnique
      <3>5. QED
        BY <3>2, <3>3, <3>4 DEF Inserts
    <2>2. Ids \subseteq NodeIds /\ Ids' \subseteq NodeIds
      BY DEF Ids
    <2>3. QED
      BY <1>1, <2>1, <2>2
  <1>3. ins' = [ins EXCEPT ![t] = @ + 1] /\ ins[t] = InsertedBy(t)
    BY DEF Inserts, OneMoreInserted
  <1>4. del' = del
    BY DEF Inserts, SameDeleted
  <1>5. keys' = keys /\ exit' = exit
    BY DEF Inserts, Index, startind
  <1>6. ins[t] < iterations
    BY <1>3, SizesAssumption DEF Inserts, OneMoreInserted
  <1>7. QED
    BY <1>2, <1>3, <1>4, <1>5, <1>6 DEF Atomic!Insert, Ids

\* Where the threads are in the abstract set when nobody has got any further.
LEMMA SameAbstractly ==
  /\ SameMembers => Ids' = Ids
  /\ SameInserted => [u \in ThreadIds |-> InsertedBy(u)]' = [u \in ThreadIds |-> InsertedBy(u)]
  /\ SameDeleted => [u \in ThreadIds |-> DeletedBy(u)]' = [u \in ThreadIds |-> DeletedBy(u)]
  /\ key' = key => [n \in NodeIds |-> key[Index(n)]]' = [n \in NodeIds |-> key[Index(n)]]
  <1>1. ASSUME SameMembers PROVE Ids' = Ids
    <2>1. ASSUME NEW n \in NodeIds
          PROVE  n \in Ids' <=> n \in Ids
      <3>1. PICK x \in Nodes : x = Index(n)
        BY IndexIsNode
      <3>2. (n \in Ids' <=> Linked(x)') /\ (n \in Ids <=> Linked(x))
        BY <3>1, IdsAfter
      <3>3. QED
        BY <1>1, <3>2 DEF SameMembers
    <2>2. Ids \subseteq NodeIds /\ Ids' \subseteq NodeIds
      BY DEF Ids
    <2>3. QED
      BY <2>1, <2>2
  <1>2. SameInserted => [u \in ThreadIds |-> InsertedBy(u)]' = [u \in ThreadIds |-> InsertedBy(u)]
    BY DEF SameInserted
  <1>3. SameDeleted => [u \in ThreadIds |-> DeletedBy(u)]' = [u \in ThreadIds |-> DeletedBy(u)]
    BY DEF SameDeleted
  <1>4. key' = key => [n \in NodeIds |-> key[Index(n)]]' = [n \in NodeIds |-> key[Index(n)]]
    BY DEF Index, startind
  <1>5. QED
    BY <1>1, <1>2, <1>3, <1>4

\* The next key of thread t to look up.
LEMMA Wanted ==
  ASSUME NEW t \in ThreadIds, DeletedBy(t) \in 0 .. iterations - 1
  PROVE  /\ <<t, DeletedBy(t)>> \in NodeIds
         /\ Atomic!WantedKey(t) = key[startind(t) + DeletedBy(t)]
  <1>1. <<t, DeletedBy(t)>> \in NodeIds /\ Index(<<t, DeletedBy(t)>>) = startind(t) + DeletedBy(t)
    BY DEF NodeIds, Index
  <1>2. [u \in ThreadIds |-> DeletedBy(u)][t] = DeletedBy(t)
    OBVIOUS
  <1>3. QED
    BY <1>1, <1>2 DEF Atomic!WantedKey

LEMMA DeletesAbstractly ==
  ASSUME NEW t \in ThreadIds, Deletes(t)
  PROVE  Atomic!LookupAndDelete(t)
  <1> DEFINE ins == [u \in ThreadIds |-> InsertedBy(u)]
             del == [u \in ThreadIds |-> DeletedBy(u)]
             keys == [n \in NodeIds |-> key[Index(n)]]
  <1>1. PICK y \in Nodes : /\ Linked(y) /\ key[y] = key[startind(t) + DeletedBy(t)]
                           /\ \A x \in Nodes : Linked(x)' <=> Linked(x) /\ x # y
    BY DEF Deletes
  <1>2. PICK id \in NodeIds : Index(id) = y
    BY NodeHasIndex
  <1>3. Ids' = Ids \ {id}
    <2>1. ASSUME NEW n \in NodeIds
          PROVE  n \in Ids' <=> n \in Ids /\ n # id
      <3>1. PICK x \in Nodes : x = Index(n)
        BY IndexIsNode
      <3>2. (n \in Ids' <=> Linked(x)') /\ (n \in Ids <=> Linked(x))
        BY <3>1, IdsAfter
      <3>3. x = y <=> n = id
        BY <1>2, <3>1, IndexIsUnique
      <3>4. QED
        BY <1>1, <3>2, <3>3
    <2>2. Ids \subseteq NodeIds /\ Ids' \subseteq NodeIds
      BY DEF Ids
    <2>3. QED
      BY <1>2, <2>1, <2>2
  <1>4. id \in Ids /\ keys[id] = key[y]
    BY <1>1, <1>2 DEF Ids
  <1>5. id \in Atomic!WithKey(Ids, Atomic!WantedKey(t))
    BY <1>1, <1>4, Wanted DEF Atomic!WithKey, Deletes, OneMoreDeleted
  <1>6. del' = [del EXCEPT ![t] = @ + 1] /\ del[t] = DeletedBy(t) /\ ins[t] = InsertedBy(t)
    BY DEF Deletes, OneMoreDeleted
  <1>7. Atomic!Deleting(t)
    BY <1>6, SizesAssumption DEF Atomic!Deleting, Deletes, OneMoreDeleted
  <1>8. ins' = ins /\ keys' = keys /\ exit' = exit
    BY SameAbstractly DEF Deletes
  <1>9. QED
    BY <1>3, <1>5, <1>6, <1>7, <1>8 DEF Atomic!LookupAndDelete, Ids

LEMMA MissesAbstractly ==
  ASSUME NEW t \in ThreadIds, Misses(t)
  PROVE  Atomic!LookupAndDelete(t)
  <1> DEFINE ins == [u \in ThreadIds |-> InsertedBy(u)]
             del == [u \in ThreadIds |-> DeletedBy(u)]
             keys == [n \in NodeIds |-> key[Index(n)]]
  <1>1. \A n \in Ids : keys[n] # key[startind(t) + DeletedBy(t)]
    BY IndexIsNode DEF Misses, Ids
  <1>2. Atomic!WithKey(Ids, Atomic!WantedKey(t)) = {}
    BY <1>1, Wanted DEF Atomic!WithKey, Misses
  <1>3. del[t] = DeletedBy(t) /\ ins[t] = InsertedBy(t)
    OBVIOUS
  <1>4. Atomic!Deleting(t)
    BY <1>3, SizesAssumption DEF Atomic!Deleting, Misses
  <1>5. Ids' = Ids /\ ins' = ins /\ del' = del /\ keys' = keys /\ exit' = 2
    BY SameAbstractly DEF Misses, DeathByCorruption
  <1>6. QED
    BY <1>2, <1>4, <1>5 DEF Atomic!LookupAndDelete, Ids

LEMMA ReportsAbstractly ==
  ASSUME Reports
  PROVE  Atomic!Report
  <1> DEFINE ins == [u \in ThreadIds |-> InsertedBy(u)]
             del == [u \in ThreadIds |-> DeletedBy(u)]
             keys == [n \in NodeIds |-> key[Index(n)]]
  <1>1. Atomic!AllDone
    BY DEF Atomic!AllDone, Atomic!ThreadIds, ThreadIds, Reports
  <1>2. Ids = {} <=> ~ \E x \in Nodes : Linked(x)
    <2>1. ASSUME NEW x \in Nodes, Linked(x)
          PROVE  Ids # {}
      <3>1. PICK n \in NodeIds : Index(n) = x
        BY NodeHasIndex
      <3>2. QED
        BY <2>1, <3>1 DEF Ids
    <2>2. QED
      BY <2>1, IndexIsNode DEF Ids
  <1>3. Ids' = Ids /\ ins' = ins /\ del' = del /\ keys' = keys
    BY SameAbstractly DEF Reports
  <1>4. exit' = IF Ids = {} THEN 0 ELSE 2
    BY <1>2 DEF Reports, DeathByCorruption
  <1>5. QED
    BY <1>1, <1>3, <1>4 DEF Atomic!Report, Ids

LEMMA FailsAbstractly ==
  ASSUME Fails
  PROVE  Atomic!CreateFails
  BY SameAbstractly DEF Fails, Atomic!CreateFails, Ids

LEMMA NothingAbstractly ==
  ASSUME Nothing
  PROVE  UNCHANGED Atomic!vars
  BY SameAbstractly DEF Nothing, Atomic!vars, Ids

-----------------------------------------------------------------------------
(* What the steps of the program do to the set. *)

\* main waits for every thread before it looks at the lists.
Joined ==
  /\ mainpc = "join" => \A t \in ThreadIds : t < mi => pc[t] = "done"
  /\ mainpc = "report" => \A t \in ThreadIds : pc[t] = "done"

\* Where a thread's current node is in, and where its current key is out.
InPcs == {"empty4", "link4", "ret"}

LEMMA SameProgress ==
  ASSUME NEW t \in ThreadIds, phase'[t] = phase[t], i'[t] = i[t],
         phase[t] = "insert" => (pc'[t] \in InPcs <=> pc[t] \in InPcs),
         phase[t] = "lookup" => (pc'[t] = "ret" <=> pc[t] = "ret")
  PROVE  InsertedBy(t)' = InsertedBy(t) /\ DeletedBy(t)' = DeletedBy(t)
  BY DEF InsertedBy, DeletedBy, InPcs, startind

LEMMA SameLinked ==
  ASSUME UNCHANGED <<next, prev>>
  PROVE  SameMembers
  BY DEF SameMembers, Linked

\* The thread that works on a sublist knows what it is doing.
LEMMA AtWork ==
  ASSUME Locked, Shaped, UsesLock, NEW t \in ThreadIds, pc[t] \in ListPcs
  PROVE  /\ pc[t] # "segv"
         /\ pc[t] = "unlink2" => /\ temp[t] \in Nodes /\ Linked(temp[t])
                                 /\ key[temp[t]] = key[i[t]]
         /\ pc[t] = "fail" => \A x \in Nodes : Linked(x) => key[x] # key[i[t]]
  <1>1. PICK l \in Lists : l = listindex(t)
    BY ListindexIsAList DEF Locked
  <1>2. Shape(l) /\ Holds(t, l)
    BY <1>1 DEF Shaped, Holds
  <1>3. PICK n, c, p : n \in Nat /\ c \in [0 .. n + 1 -> Cells] /\ p \in Nat /\ ShapeIs(l, n, c, p)
    BY <1>2 DEF Shape
  <1>4. Chain(l, n, c) /\ Members(l, n, c) /\ At(t, l, n, c, p)
    BY <1>2, <1>3 DEF ShapeIs
  <1>5. ASSUME pc[t] = "unlink2"
        PROVE  temp[t] \in Nodes /\ Linked(temp[t]) /\ key[temp[t]] = key[i[t]]
    <2>1. p \in 1 .. n /\ temp[t] = c[p] /\ key[c[p]] = key[i[t]]
      BY <1>4, <1>5 DEF At, AtDelete, DeletePcs
    <2>2. c[p] \in Nodes /\ key[c[p]] % num_lists = l /\ On(n, c, c[p])
      BY <1>4, <2>1 DEF Chain, On
    <2>3. QED
      BY <1>4, <2>1, <2>2 DEF Members
  <1>6. ASSUME pc[t] = "fail", NEW x \in Nodes, Linked(x), key[x] = key[i[t]]
        PROVE  FALSE
    <2>1. phase[t] # "length"
      BY <1>6 DEF Locked, Control, ThreadOK, PcsOf, LengthPcs
    <2>2. key[x] % num_lists = l
      BY <1>1, <1>6, <2>1 DEF listindex
    <2>3. PICK k \in 1 .. n : c[k] = x
      BY <1>4, <1>6, <2>2 DEF Members, On
    <2>4. QED
      BY <1>4, <1>6, <2>3 DEF At, AtWalk
  <1>7. pc[t] # "segv"
    BY <1>4 DEF At
  <1>8. QED
    BY <1>5, <1>6, <1>7

\* A step of a list operation links one node, unlinks one, or none.
LEMMA ListStepLinks ==
  ASSUME Locked, Locked', Shaped, UsesLock, NEW t \in ThreadIds, ListStep(t), NEW x \in Nodes
  PROVE  Linked(x)' <=> Joins(t, x) \/ (Linked(x) /\ ~Leaves(t, x))
  <1>1. CASE ListOf(key, x) = listindex(t)
    BY <1>1, ListStepShaped DEF RelinksIn
  <1>2. CASE ListOf(key, x) # listindex(t)
    <2>1. Control /\ Apart /\ x \in Cells
      BY CellKinds DEF Locked
    <2>2. \A y \in Cells : ListOf(key, y) # listindex(t) => next'[y] = next[y] /\ prev'[y] = prev[y]
      BY <2>1, WritesOwnList
    <2>3. /\ next[x] \in Cells => ListOf(key, next[x]) = ListOf(key, x)
          /\ prev[x] \in Cells => ListOf(key, prev[x]) = ListOf(key, x)
      BY <2>1 DEF Apart, LinksWithin, Within
    <2>4. Linked(x)' <=> Linked(x)
      BY <1>2, <2>1, <2>2, <2>3 DEF Linked, Points
    <2>5. ~Joins(t, x)
      <3>1. pc[t] \in {"empty3", "link3"} => phase[t] # "length"
        BY <2>1 DEF Control, ThreadOK, PcsOf, LengthPcs
      <3>2. QED
        BY <1>2, <2>1, <3>1, Arguments DEF Joins
    <2>6. ~Leaves(t, x)
      BY <1>2, <2>1 DEF Leaves, Apart, LocalsApart, Within
    <2>7. QED
      BY <2>4, <2>5, <2>6
  <1>3. QED
    BY <1>1, <1>2

\* The labels on either side of the stores that link and unlink a node.
LEMMA ListStepProgress ==
  ASSUME Locked, Locked', Shaped, Shaped', UsesLock, NEW t \in ThreadIds, ListStep(t)
  PROVE  /\ phase[t] = "insert" =>
              (pc'[t] \in InPcs <=> pc[t] \in {"empty3", "link3", "empty4", "link4"})
         /\ phase[t] = "lookup" => (pc'[t] = "ret" <=> pc[t] = "unlink2")
         /\ pc[t] # "ret" /\ pc'[t] # "segv"
         /\ pc[t] \in {"empty3", "link3"} => phase[t] = "insert"
         /\ pc[t] = "unlink2" => phase[t] = "lookup"
  <1> USE DEF Goto, InPcs
  <1>1. pc \in [ThreadIds -> ListPcs \cup {"unborn", "lock", "done"}] /\ pc[t] \in ListPcs /\ pc[t] # "ret"
    BY ListStepMoves DEF Locked, Control
  <1>2. pc'[t] \in ListPcs /\ UsesLock'
    BY <1>1, ListStepMoves DEF Locked, UsesLock
  <1>3. pc'[t] # "segv"
    <2>1. PICK l \in Lists : l = listindex(t)
      BY ListindexIsAList DEF Locked
    <2>2. Shape(l)' /\ Holds(t, l)'
      BY <1>2, <2>1, ListStepMoves DEF Shaped, Holds, listindex, Locked
    <2>3. PICK n, c, p : n \in Nat /\ c \in [0 .. n + 1 -> Cells] /\ p \in Nat /\ ShapeIs(l, n, c, p)'
      BY <2>2 DEF Shape
    <2>4. QED
      BY <2>2, <2>3 DEF ShapeIs, At
  <1>4. pc[t] \in PcsOf(phase[t])
    BY DEF Locked, Control, ThreadOK
  <1>5. phase[t] \in {"insert", "length", "lookup", "done"}
    BY DEF Locked, Control
  <1>6. CASE InsertStep(t, list(t), i[t])
    <2>1. pc[t] \in InsertPcs
      BY <1>6 DEF InsertStep, Insert, EmptyLink, ScanHead, ScanCompare, ScanAdvance, TakeNextNode, Link, InsertPcs
    <2>2. phase[t] = "insert"
      BY <1>4, <1>5, <2>1 DEF PcsOf, InsertPcs, LengthPcs, LookupPcs, DeletePcs
    <2>3. CASE EmptyLink(t, list(t), i[t])
      BY <1>1, <2>2, <2>3, <1>3 DEF EmptyLink
    <2>4. CASE Link(t, i[t])
      BY <1>1, <2>2, <2>4, <1>3 DEF Link
    <2>5. CASE ~EmptyLink(t, list(t), i[t]) /\ ~Link(t, i[t])
      BY <1>1, <1>3, <1>6, <2>2, <2>5
         DEF InsertStep, Insert, ScanHead, ScanCompare, ScanAdvance, TakeNextNode
    <2>6. QED
      BY <2>3, <2>4, <2>5
  <1>7. CASE Length(t, list(t)) \/ LengthStep(t, list(t))
    <2>1. pc[t] \in LengthPcs
      BY <1>7 DEF Length, LengthStep, LengthPcs
    <2>2. phase[t] = "length"
      BY <1>4, <1>5, <2>1 DEF PcsOf, InsertPcs, LengthPcs, LookupPcs, DeletePcs
    <2>3. QED
      BY <1>1, <1>3, <2>1, <2>2 DEF LengthPcs
  <1>8. CASE Lookup(t, list(t)) \/ LookupStep(t, list(t), i[t])
    <2>1. pc[t] \in LookupPcs /\ pc[t] # "unlink2" /\ pc'[t] # "ret"
      BY <1>1, <1>8 DEF Lookup, LookupStep, LookupPcs
    <2>2. phase[t] = "lookup"
      BY <1>4, <1>5, <2>1 DEF PcsOf, InsertPcs, LengthPcs, LookupPcs, DeletePcs
    <2>3. QED
      BY <1>1, <1>3, <2>1, <2>2 DEF LookupPcs, DeletePcs
  <1>9. CASE DeleteStep(t, temp[t])
    <2>1. pc[t] \in DeletePcs
      BY <1>9 DEF DeleteStep, Delete, DeleteCheck, Unlink, DeletePcs
    <2>2. phase[t] = "lookup"
      BY <1>4, <1>5, <2>1 DEF PcsOf, InsertPcs, LengthPcs, LookupPcs, DeletePcs
    <2>3. pc'[t] = "ret" <=> pc[t] = "unlink2"
      BY <1>1, <1>3, <1>9 DEF DeleteStep, Delete, DeleteCheck, Unlink
    <2>4. QED
      BY <1>1, <1>3, <2>1, <2>2, <2>3 DEF DeletePcs
  <1>10. QED
    BY <1>6, <1>7, <1>8, <1>9 DEF ListStep

LEMMA ListStepEffect ==
  ASSUME Locked, Locked', Shaped, Shaped', UsesLock, NEW t \in ThreadIds, ListStep(t), UNCHANGED exit
  PROVE  Inserts(t) \/ Deletes(t) \/ Nothing
  <1>1. UNCHANGED <<key, phase, i>> /\ \A u \in ThreadIds \ {t} : pc'[u] = pc[u]
    BY ListStepMoves DEF Locked, Control
  <1>2. \A u \in ThreadIds \ {t} : InsertedBy(u)' = InsertedBy(u) /\ DeletedBy(u)' = DeletedBy(u)
    BY <1>1, SameProgress
  <1>3. IF phase[t] = "length" THEN TRUE ELSE i[t] - startind(t) \in 0 .. iterations - 1
    BY DEF Locked, Control, ThreadOK
  <1>4. startind(t) \in Int /\ i[t] \in Int /\ iterations \in Nat
    BY SizesAssumption DEF startind, ThreadIds, Locked, Control
  <1>5. CASE pc[t] \in {"empty3", "link3"}
    <2>1. phase[t] = "insert" /\ pc'[t] \in InPcs /\ pc[t] \notin InPcs
      BY <1>5, ListStepProgress DEF InPcs
    <2>2. InsertedBy(t) = i[t] - startind(t) /\ InsertedBy(t)' = i[t] - startind(t) + 1
      BY <1>1, <1>4, <2>1 DEF InsertedBy, InPcs, startind
    <2>3. DeletedBy(t)' = DeletedBy(t)
      BY <1>1, <2>1 DEF DeletedBy
    <2>4. \A x \in Nodes : Linked(x)' <=> Linked(x) \/ x = i[t]
      BY <1>5, ListStepLinks DEF Joins, Leaves
    <2>5. startind(t) + InsertedBy(t) = i[t]
      BY <1>4, <2>2
    <2>6. OneMoreInserted(t)
      BY <1>2, <1>3, <1>4, <2>1, <2>2 DEF OneMoreInserted
    <2>7. SameDeleted
      BY <1>2, <2>3 DEF SameDeleted
    <2>8. QED
      BY <1>1, <2>4, <2>5, <2>6, <2>7 DEF Inserts
  <1>6. CASE pc[t] = "unlink2"
    <2>1. phase[t] = "lookup" /\ pc'[t] = "ret"
      BY <1>6, ListStepProgress
    <2>2. DeletedBy(t) = i[t] - startind(t) /\ DeletedBy(t)' = i[t] - startind(t) + 1
      BY <1>1, <1>4, <1>6, <2>1 DEF DeletedBy, startind
    <2>3. InsertedBy(t)' = InsertedBy(t) /\ InsertedBy(t) = iterations
      BY <1>1, <2>1 DEF InsertedBy
    <2>4. temp[t] \in Nodes /\ Linked(temp[t]) /\ key[temp[t]] = key[i[t]]
      BY <1>6, AtWork, ListStepMoves DEF Locked
    <2>5. \A x \in Nodes : Linked(x)' <=> Linked(x) /\ x # temp[t]
      BY <1>6, ListStepLinks DEF Joins, Leaves
    <2>6. startind(t) + DeletedBy(t) = i[t]
      BY <1>4, <2>2
    <2>7. OneMoreDeleted(t)
      BY <1>2, <1>3, <1>4, <2>1, <2>2 DEF OneMoreDeleted
    <2>8. SameInserted
      BY <1>2, <2>3 DEF SameInserted
    <2>9. QED
      BY <1>1, <2>3, <2>4, <2>5, <2>6, <2>7, <2>8 DEF Deletes
  <1>7. CASE pc[t] \notin {"empty3", "link3", "unlink2"}
    <2>1. /\ phase[t] = "insert" => (pc'[t] \in InPcs <=> pc[t] \in InPcs)
          /\ phase[t] = "lookup" => (pc'[t] = "ret" <=> pc[t] = "ret")
      BY <1>7, ListStepProgress DEF InPcs
    <2>2. InsertedBy(t)' = InsertedBy(t) /\ DeletedBy(t)' = DeletedBy(t)
      BY <1>1, <2>1, SameProgress
    <2>3. SameInserted /\ SameDeleted
      BY <1>2, <2>2 DEF SameInserted, SameDeleted
    <2>4. SameMembers
      BY <1>7, ListStepLinks DEF Joins, Leaves, SameMembers
    <2>5. QED
      BY <1>1, <2>3, <2>4 DEF Nothing
  <1>8. QED
    BY <1>5, <1>6, <1>7

\* Between two list operations the set stays as it is.
LEMMA UnlockEffect ==
  ASSUME Control, UsesLock, NEW t \in ThreadIds, Unlock(t), UNCHANGED exit
  PROVE  Nothing
  <1>1. phase' = [phase EXCEPT ![t] = phase'[t]] /\ i' = [i EXCEPT ![t] = i'[t]]
        /\ pc' = [pc EXCEPT ![t] = IF phase'[t] = "done" THEN "done" ELSE EntryOf(phase'[t])]
    BY UnlockMoves
  <1>2. ASSUME NEW u \in ThreadIds, u # t
        PROVE  InsertedBy(u)' = InsertedBy(u) /\ DeletedBy(u)' = DeletedBy(u)
    <2>1. phase'[u] = phase[u] /\ i'[u] = i[u] /\ pc'[u] = pc[u]
      BY <1>1, <1>2 DEF Control
    <2>2. QED
      BY <2>1, SameProgress
  <1>3. InsertedBy(t)' = InsertedBy(t) /\ DeletedBy(t)' = DeletedBy(t)
    <2>1. startind(t) \in Int /\ i[t] \in Int /\ iterations \in Nat /\ pc[t] = "ret"
          /\ phase[t] \in {"insert", "length", "lookup"}
      BY SizesAssumption DEF startind, ThreadIds, Control, ThreadOK, PcsOf, Unlock
    <2>2. pc'[t] \in {"done", "lock"}
      BY <1>1 DEF Control, EntryOf
    <2>3. CASE i[t] < LastIndex(t)
      <3>1. phase'[t] = phase[t] /\ i'[t] = i[t] + 1
        BY <2>3 DEF Unlock, NextCall, Control
      <3>2. QED
        BY <2>1, <2>2, <3>1 DEF InsertedBy, DeletedBy, startind
    <2>4. CASE ~(i[t] < LastIndex(t))
      <3>1. phase[t] # "length" => i[t] - startind(t) + 1 = iterations
        BY <2>1, <2>4 DEF Control, ThreadOK, LastIndex
      <3>2. CASE phase[t] = "insert"
        <4>1. phase'[t] = "length"
          BY <2>4, <3>2 DEF Unlock, NextCall, Control
        <4>2. QED
          BY <2>1, <3>1, <3>2, <4>1 DEF InsertedBy, DeletedBy
      <3>3. CASE phase[t] = "length"
        <4>1. phase'[t] = "lookup" /\ i'[t] = startind(t)
          BY <2>4, <3>3 DEF Unlock, NextCall, Control
        <4>2. QED
          BY <2>1, <2>2, <3>3, <4>1 DEF InsertedBy, DeletedBy, startind
      <3>4. CASE phase[t] = "lookup"
        <4>1. phase'[t] = "done"
          BY <2>4, <3>4 DEF Unlock, NextCall, Control
        <4>2. QED
          BY <2>1, <3>1, <3>4, <4>1 DEF InsertedBy, DeletedBy
      <3>5. QED
        BY <2>1, <3>2, <3>3, <3>4
    <2>5. QED
      BY <2>3, <2>4
  <1>4. SameInserted /\ SameDeleted
    BY <1>2, <1>3 DEF SameInserted, SameDeleted
  <1>5. UNCHANGED <<next, prev, key>>
    BY DEF Unlock
  <1>6. QED
    BY <1>4, <1>5, SameLinked DEF Nothing

\* Taking a lock and calling delete for a node that was found.
LEMMA CallEffect ==
  ASSUME Control, NEW t \in ThreadIds, Lock(t) \/ DeleteFound(t), UNCHANGED exit
  PROVE  Nothing
  <1>1. UNCHANGED <<next, prev, key, phase, i>>
    BY DEF Lock, DeleteFound
  <1>2. pc[t] \in {"lock", "found"} /\ pc'[t] \notin InPcs
        /\ \A u \in ThreadIds \ {t} : pc'[u] = pc[u]
    BY DEF Lock, DeleteFound, Goto, Control, InPcs
  <1>3. \A u \in ThreadIds : InsertedBy(u)' = InsertedBy(u) /\ DeletedBy(u)' = DeletedBy(u)
    BY <1>1, <1>2, SameProgress DEF InPcs
  <1>4. QED
    BY <1>1, <1>3, SameLinked DEF Nothing, SameInserted, SameDeleted

\* A lookup that fails has looked at every node that could have the key.
LEMMA DieEffect ==
  ASSUME Locked, Shaped, UsesLock, NEW t \in ThreadIds, Die(t)
  PROVE  Misses(t)
  <1>1. UNCHANGED <<next, prev, key, pc, phase, i>> /\ exit' = DeathByCorruption
    BY DEF Die, listVars
  <1>2. pc[t] = "fail" /\ \A x \in Nodes : Linked(x) => key[x] # key[i[t]]
    BY AtWork DEF Die, ListPcs
  <1>3. phase[t] = "lookup" /\ i[t] - startind(t) \in 0 .. iterations - 1
    BY <1>2 DEF Locked, Control, ThreadOK, PcsOf, InsertPcs, LengthPcs
  <1>4. startind(t) \in Int /\ i[t] \in Int
    BY SizesAssumption DEF startind, ThreadIds, Locked, Control
  <1>5. InsertedBy(t) = iterations /\ DeletedBy(t) = i[t] - startind(t)
    BY <1>2, <1>3, <1>4 DEF InsertedBy, DeletedBy
  <1>6. startind(t) + DeletedBy(t) = i[t]
    BY <1>4, <1>5
  <1>7. SameInserted /\ SameDeleted
    BY <1>1, SameProgress DEF SameInserted, SameDeleted
  <1>8. SameMembers
    BY <1>1, SameLinked
  <1>9. QED
    BY <1>1, <1>2, <1>3, <1>5, <1>6, <1>7, <1>8 DEF Misses

\* main looks at the lists when no thread is left: their locks are free, so that a
\* list has no links, or only its head, exactly when no node of it is linked.
LEMMA ReportEffect ==
  ASSUME Locked, Shaped, UsesLock, Joined, Report
  PROVE  Reports
  <1>1. UNCHANGED <<next, prev, key, pc, phase, i>>
    BY DEF Report, threadVars
  <1>2. \A t \in ThreadIds : pc[t] = "done" /\ phase[t] = "done"
    BY DEF Joined, Report, Locked, Control, ThreadOK, PcsOf, InsertPcs, LengthPcs, LookupPcs, DeletePcs
  <1>3. \A l \in Lists : \A t \in ThreadIds : ~Holds(t, l)
    BY <1>2 DEF Holds, ListPcs
  <1>4. \A l \in Lists : ~locked[l]
    BY <1>3 DEF Locked, OneThreadPerList
  <1>5. ASSUME NEW l \in Lists
        PROVE  next[HeadOf(l)] \in {NULL, HeadOf(l)} <=> \A x \in Nodes : ListOf(key, x) = l => ~Linked(x)
    <2>1. PICK n, c, p : n \in Nat /\ c \in [0 .. n + 1 -> Cells] /\ p \in Nat /\ ShapeIs(l, n, c, p)
      BY DEF Shaped, Shape
    <2>2. Chain(l, n, c) /\ Members(l, n, c) /\ Quiet(l, n, c)
      BY <1>3, <2>1 DEF ShapeIs
    <2>3. \A x \in Nodes : ListOf(key, x) = l => (Linked(x) <=> On(n, c, x))
      BY <2>2 DEF Members, ListOf
    <2>4. c[0] = HeadOf(l) /\ c[n + 1] = HeadOf(l)
          /\ \A k \in 1 .. n : c[k] \in Nodes /\ ListOf(key, c[k]) = l
      BY <2>2 DEF Chain, ListOf
    <2>5. CASE n = 0
      <3>1. \A x : ~On(n, c, x)
        BY <2>5 DEF On
      <3>2. next[HeadOf(l)] \in {NULL, HeadOf(l)}
        <4>1. CASE Unused(l, n)
          BY <4>1 DEF Unused
        <4>2. CASE Circular(n, c)
          <5>1. next[c[0]] = c[0 + 1]
            BY <2>5, <4>2 DEF Circular, Forward
          <5>2. QED
            BY <2>4, <2>5, <5>1
        <4>3. QED
          BY <2>2, <4>1, <4>2 DEF Quiet
      <3>3. QED
        BY <2>3, <3>1, <3>2
    <2>6. CASE n # 0
      <3>1. 1 \in 1 .. n /\ 0 \in 0 .. n
        BY <2>1, <2>6
      <3>2. Circular(n, c)
        BY <2>2, <2>6 DEF Quiet, Unused
      <3>3. next[c[0]] = c[1]
        BY <3>1, <3>2 DEF Circular, Forward
      <3>4. c[1] \in Nodes /\ ListOf(key, c[1]) = l /\ On(n, c, c[1])
        BY <2>4, <3>1 DEF On
      <3>5. next[HeadOf(l)] \notin {NULL, HeadOf(l)}
        BY <2>4, <3>3, <3>4, CellKinds
      <3>6. QED
        BY <2>3, <3>4, <3>5
    <2>7. QED
      BY <2>5, <2>6
  <1>6. \A x \in Nodes : ListOf(key, x) \in Lists
    BY Hashed DEF ListOf, Locked, Control
  <1>7. (\A l \in Lists : next[HeadOf(l)] \in {NULL, HeadOf(l)}) <=> ~ \E x \in Nodes : Linked(x)
    BY <1>5, <1>6
  <1>8. exit' = IF \E x \in Nodes : Linked(x) THEN DeathByCorruption ELSE 0
    BY <1>4, <1>7 DEF Report
  <1>9. \A t \in ThreadIds : DeletedBy(t) = iterations
    BY <1>2 DEF DeletedBy
  <1>10. SameInserted /\ SameDeleted
    BY <1>1, SameProgress DEF SameInserted, SameDeleted
  <1>11. SameMembers
    BY <1>1, SameLinked
  <1>12. QED
    BY <1>1, <1>8, <1>9, <1>10, <1>11 DEF Reports

LEMMA MainEffect ==
  ASSUME Control, UsesLock, CreateThread \/ CreateFails \/ AllCreated \/ JoinThread \/ AllJoined
  PROVE  Nothing \/ Fails
  <1>1. UNCHANGED <<next, prev, key, phase, i>>
    BY DEF CreateThread, CreateFails, AllCreated, JoinThread, AllJoined, threadVars
  <1>2. \A u \in ThreadIds : pc'[u] = pc[u] \/ (pc[u] = "unborn" /\ pc'[u] = "lock")
    <2>1. CASE CreateThread
      <3>1. pc' = [pc EXCEPT ![mi] = "lock"] /\ mi \in ThreadIds /\ pc[mi] = "unborn"
        BY <2>1, SizesAssumption DEF CreateThread, Goto, EntryOf, Control, ThreadIds
      <3>2. QED
        BY <3>1 DEF Control
    <2>2. CASE ~CreateThread
      BY <2>2 DEF CreateFails, AllCreated, JoinThread, AllJoined
    <2>3. QED
      BY <2>1, <2>2
  <1>3. SameInserted /\ SameDeleted
    BY <1>1, <1>2, SameProgress DEF SameInserted, SameDeleted, InPcs
  <1>4. SameMembers
    BY <1>1, SameLinked
  <1>5. exit' = exit \/ exit' = 1
    BY DEF CreateThread, CreateFails, AllCreated, JoinThread, AllJoined
  <1>6. QED
    BY <1>1, <1>3, <1>4, <1>5 DEF Nothing, Fails

LEMMA StepEffect ==
  ASSUME Locked, Locked', Shaped, Shaped', Joined, UsesLock, [Next]_vars
  PROVE  \/ Nothing
         \/ exit = Running /\ (Reports \/ Fails \/ \E t \in ThreadIds : Inserts(t) \/ Deletes(t) \/ Misses(t))
  <1>1. ASSUME NEW t \in ThreadIds, Thread(t)
        PROVE  Nothing \/ (exit = Running /\ (Inserts(t) \/ Deletes(t) \/ Misses(t)))
    <2>1. exit = Running
      BY <1>1 DEF Thread
    <2>2. CASE ListStep(t) /\ UNCHANGED exit
      BY <2>1, <2>2, ListStepEffect
    <2>3. CASE (Lock(t) \/ DeleteFound(t)) /\ UNCHANGED exit
      BY <2>3, CallEffect DEF Locked
    <2>4. CASE Unlock(t) /\ UNCHANGED exit
      BY <2>4, UnlockEffect DEF Locked
    <2>5. CASE Die(t)
      BY <2>1, <2>5, DieEffect
    <2>6. QED
      BY <1>1, <2>2, <2>3, <2>4, <2>5 DEF Thread
  <1>2. CASE Main
    <2>1. exit = Running
      BY <1>2 DEF Main
    <2>2. CASE Report
      BY <2>1, <2>2, ReportEffect
    <2>3. CASE ~Report
      BY <1>2, <2>1, <2>3, MainEffect DEF Main, Locked
    <2>4. QED
      BY <2>2, <2>3
  <1>3. CASE UNCHANGED vars
    <2>1. UNCHANGED <<next, prev, key, pc, phase, i, exit>>
      BY <1>3 DEF vars, listVars, clientVars
    <2>2. SameInserted /\ SameDeleted /\ SameMembers
      BY <2>1, SameProgress, SameLinked DEF SameInserted, SameDeleted
    <2>3. QED
      BY <2>1, <2>2 DEF Nothing
  <1>4. QED
    BY <1>1, <1>2, <1>3 DEF Next, Ended

LEMMA StepJoined ==
  ASSUME Control, Joined, [Next]_vars
  PROVE  Joined'
  <1>1. ASSUME NEW t \in ThreadIds, Thread(t)
        PROVE  Joined'
    <2>1. mainpc' = mainpc /\ mi' = mi
      BY <1>1 DEF Thread
    <2>2. pc[t] # "done"
      BY <1>1, ListStepMoves DEF Thread, Lock, DeleteFound, Unlock, Die, ListPcs
    <2>3. \A u \in ThreadIds : u # t => pc'[u] = pc[u]
      <3>1. CASE Unlock(t)
        BY <3>1, UnlockMoves DEF Control
      <3>2. CASE ListStep(t)
        BY <3>2, ListStepMoves DEF Control
      <3>3. QED
        BY <1>1, <3>1, <3>2 DEF Thread, Lock, DeleteFound, Die, listVars, Goto, Control
    <2>4. QED
      BY <2>1, <2>2, <2>3 DEF Joined
  <1>2. CASE Main
    BY <1>2, SizesAssumption
       DEF Main, CreateThread, CreateFails, AllCreated, JoinThread, AllJoined, Report, Joined, Control,
           ThreadIds
  <1>3. CASE UNCHANGED vars
    BY <1>3 DEF vars, listVars, clientVars, Joined
  <1>4. QED
    BY <1>1, <1>2, <1>3 DEF Next, Ended

LEMMA AlwaysJoined == Spec => [](Locked /\ Shaped /\ Joined)
  <1>1. Init => Joined
    BY DEF Init, Joined
  <1>2. Locked /\ Shaped /\ Joined /\ [Next]_vars => Joined'
    BY StepJoined DEF Locked
  <1>3. QED
    BY AlwaysShaped, <1>1, <1>2, PTL DEF Spec

LEMMA AbstractStep ==
  ASSUME Locked, Locked', Shaped, Shaped', Joined, UsesLock, [Next]_vars
  PROVE  [Atomic!Next]_(Atomic!vars)
  <1>1. CASE Nothing
    BY <1>1, NothingAbstractly
  <1>2. CASE exit = Running /\ (Reports \/ Fails)
    BY <1>2, ReportsAbstractly, FailsAbstractly DEF Atomic!Next, Running, Atomic!Running
  <1>3. ASSUME NEW t \in ThreadIds, exit = Running, Inserts(t) \/ Deletes(t) \/ Misses(t)
        PROVE  [Atomic!Next]_(Atomic!vars)
    BY <1>3, InsertsAbstractly, DeletesAbstractly, MissesAbstractly
       DEF Atomic!Next, Running, Atomic!Running, ThreadIds, Atomic!ThreadIds
  <1>4. QED
    BY <1>1, <1>2, <1>3, StepEffect

LEMMA AbstractInit ==
  ASSUME Init
  PROVE  Atomic!Init
  <1>1. ASSUME NEW n \in NodeIds
        PROVE  key[Index(n)] \in Keys /\ ~Linked(Index(n))
    <2>1. Control /\ Index(n) \in Nodes
      BY InitControl, IndexIsNode
    <2>2. PICK garbage \in {NULL, Wild} : /\ next = [c \in Cells |-> IF c \in Nodes THEN garbage ELSE NULL]
                                          /\ prev = next
      BY DEF Init, ListsInit
    <2>3. next[Index(n)] = garbage /\ prev[Index(n)] = garbage /\ garbage \notin Cells
      BY <2>1, <2>2, CellKinds
    <2>4. QED
      BY <2>1, <2>3 DEF Control, Linked, Points
  <1>2. \A t \in ThreadIds : InsertedBy(t) = 0 /\ DeletedBy(t) = 0
    <2>1. \A t \in ThreadIds : startind(t) \in Int
      BY SizesAssumption DEF startind, ThreadIds
    <2>2. QED
      BY <2>1 DEF Init, InsertedBy, DeletedBy
  <1>3. NodeIds = Atomic!Nodes
    BY DEF NodeIds, Atomic!Nodes, ThreadIds, Atomic!ThreadIds
  <1>4. QED
    BY <1>1, <1>2, <1>3 DEF Atomic!Init, Init, Running, Atomic!Running, ThreadIds, Atomic!ThreadIds

-----------------------------------------------------------------------------
(* The theorems. *)

\* With its locks on, lab2_list does to its sublists what PartitionedSet does to one
\* set: a node comes in with the third store of SortedList_insert() and goes out with
\* the last store of SortedList_delete(), a lookup that fails is one that had nothing to
\* find, and main exits with 0 exactly when no node is left.
THEOREM LocksMakeItAtomic == Spec => ImplementsPartitionedSet
  <1>1. Init => (UsesLock => Atomic!Init)
    BY AbstractInit
  <1>2. /\ Locked /\ Shaped /\ Joined /\ (Locked /\ Shaped /\ Joined)' /\ [Next]_vars
        => [UsesLock => [Atomic!Next]_(Atomic!vars)]_vars
    BY AbstractStep
  <1>3. QED
    BY AlwaysJoined, <1>1, <1>2, PTL DEF Spec, ImplementsPartitionedSet

LEMMA StepBalance ==
  ASSUME Locked, Locked', Shaped, Shaped', Joined, [Next]_vars, UsesLock => SetIInv
  PROVE  (UsesLock => SetIInv)'
  <1>1. opt_sync' = opt_sync
    BY UnlockMoves, ListStepMoves
       DEF Locked, Next, Thread, Main, Ended, Lock, DeleteFound, Unlock, Die, vars, clientVars, threadVars,
           CreateThread, CreateFails, AllCreated, JoinThread, AllJoined, Report
  <1>2. SUFFICES ASSUME UsesLock PROVE SetIInv'
    BY <1>1 DEF UsesLock
  <1>3. QED
    BY <1>2, AbstractStep, SetInductive, SizesAssumption

LEMMA AlwaysBalanced == Spec => [](UsesLock => SetIInv)
  <1>1. Init => (UsesLock => SetIInv)
    BY AbstractInit, SetInitially, SizesAssumption
  <1>2. QED
    BY AlwaysJoined, StepBalance, <1>1, PTL DEF Spec

\* With its locks on, lab2_list always has as many nodes with a key on its sublists as
\* lookups of that key to come, although a thread may delete the node of another.
THEOREM KeysStayBalanced == Spec => []KeysBalance
  <1>1. (UsesLock => SetIInv) => KeysBalance
    BY SetInvKeeps DEF KeysBalance
  <1>2. QED
    BY AlwaysBalanced, <1>1, PTL

\* With its locks on, no lookup or delete of lab2_list fails, no bad pointer is
\* followed and the lists are empty at the end: it never exits with status 2.
THEOREM NeverDiesOfCorruption == Spec => [](UsesLock => exit # DeathByCorruption)
  <1>1. (UsesLock => SetIInv) => (UsesLock => exit # DeathByCorruption)
    BY SetInvKeeps DEF Atomic!NeverCorrupted, DeathByCorruption
  <1>2. QED
    BY AlwaysBalanced, <1>1, PTL
=============================================================================
