-------------------------- MODULE ListWhole_proofs --------------------------
(***************************************************************************)
(* Proofs about ListWhole, for every number of threads and iterations and  *)
(* every set of keys.  What the steps of the list operations do to a list  *)
(* is proved in ListPartition_proofs, about the programs of lab2b; a       *)
(* thread of lab2a is seen here as one of lab2b with a single sublist.     *)
(***************************************************************************)
EXTENDS ListWhole, TLAPS

DeletePcs == {"delete", "check", "unlink1", "unlink2"}

\* The thread of lab2a as one of lab2b: what it deletes is what it has in temp,
\* and the index of the length loop is that of the only sublist.
PcBar == [t \in ThreadIds |-> IF pc[t] = "unlock" THEN "ret" ELSE pc[t]]
TempBar == [t \in ThreadIds |->
              IF phase[t] = "delete" /\ pc[t] \in DeletePcs \cup {"fail", "segv"} THEN i[t] ELSE temp[t]]
PhaseBar == [t \in ThreadIds |-> IF pc[t] = "done" THEN "done"
                                 ELSE IF phase[t] = "delete" THEN "lookup" ELSE phase[t]]
IndexBar == [t \in ThreadIds |-> IF phase[t] = "length" THEN 0 ELSE i[t]]
LockedBar == [l \in {0} |-> lock]

Part == INSTANCE ListPartition_proofs WITH
          pc <- PcBar, temp <- TempBar, phase <- PhaseBar, i <- IndexBar, locked <- LockedBar,
          opt_sync <- "m", SyncOptions <- {"m"}

-----------------------------------------------------------------------------
(* The invariants. *)

PcsOf(ph) ==
  CASE ph = "insert" -> Part!InsertPcs \cup {"unborn", "lock", "ret", "segv"}
    [] ph = "length" -> Part!LengthPcs \cup {"ret", "segv"}
    [] ph = "delete" -> DeletePcs \cup {"fail", "ret", "segv", "unlock", "done"}

\* Each thread is at a label of its loop and at one of its own nodes, the first
\* one where no loop is running.
ThreadOK(t) ==
  /\ pc[t] \in PcsOf(phase[t])
  /\ i[t] - startind(t) \in 0 .. iterations - 1
  /\ pc[t] \in {"unborn", "lock"} => i[t] = startind(t)
  /\ pc[t] \in {"lock", "unlock"} => UsesLock

Control ==
  /\ pc \in [ThreadIds -> ListPcs \cup {"unborn", "lock", "unlock", "done"}]
  /\ phase \in [ThreadIds -> {"insert", "length", "delete"}]
  /\ i \in [ThreadIds -> Int]
  /\ \A t \in ThreadIds : ThreadOK(t)
  /\ key \in [Cells -> Keys \cup {NULL}]
  /\ \A n \in Nodes : key[n] \in Keys
  /\ \A c \in Heads : key[c] = NULL
  /\ opt_sync \in SyncOptions
  /\ mainpc \in {"create", "join", "report"} /\ mi \in 0 .. threads
  /\ exit \in {Running, 0, 1, DeathByCorruption}
  /\ mainpc = "create" => \A t \in ThreadIds : t >= mi => pc[t] = "unborn"

\* A local pointer; a deletion has none.
TempOK ==
  /\ temp \in [ThreadIds -> Cells \cup {NULL, Wild}]
  /\ \A t \in ThreadIds : phase[t] = "delete" => temp[t] = NULL

\* The lock is taken exactly while a thread is between taking and releasing it.
OneHolder ==
  /\ lock \in BOOLEAN
  /\ lock <=> \E t \in ThreadIds : Holds(t)
  /\ \A t, u \in ThreadIds : Holds(t) /\ Holds(u) => t = u

\* The nodes that thread t has inserted and not deleted yet.
InList(t) ==
  {x \in Part!Own(t) :
     CASE phase[t] = "insert" -> x < i[t] \/ (x = i[t] /\ pc[t] \in {"empty4", "link4", "ret"})
       [] phase[t] = "length" -> TRUE
       [] phase[t] = "delete" -> pc[t] # "unlock" /\ (x > i[t] \/ (x = i[t] /\ pc[t] # "ret"))}

Empty ==
  /\ \A x \in Nodes : ~Linked(x)
  /\ \E c \in [0 .. 1 -> Cells] : Part!Chain(0, 0, c) /\ Part!Quiet(0, 0, c)

\* The holder of the lock works on a list that has its nodes and no other; nobody
\* leaves a node there.
Alone ==
  UsesLock =>
    /\ \A t \in ThreadIds : Holds(t) => /\ Part!WorksOn(t, 0)
                                        /\ \A x \in Nodes : Linked(x) <=> x \in InList(t)
    /\ ~lock => Empty
    /\ \A t \in ThreadIds : Part!StillRaw(t)

-----------------------------------------------------------------------------
(* The two programs have the same cells and the same operations on them. *)

LEMMA SameCells ==
  /\ Part!ThreadIds = ThreadIds /\ Part!Cells = Cells /\ Part!Nodes = Nodes /\ Part!Heads = Heads
  /\ Part!numNodes = numNodes /\ Part!Lists = {0} /\ \A l : Part!HeadOf(l) = HeadOf(l)
  /\ \A t : Part!startind(t) = startind(t)
  BY SyncAssumption
     DEF Part!ThreadIds, ThreadIds, Part!Cells, Cells, Part!Nodes, Nodes, Part!Heads, Heads,
         Part!numNodes, numNodes, Part!Lists, Part!HeadOf, HeadOf, Part!startind, startind

LEMMA SameLinks ==
  /\ \A x : Part!Linked(x) <=> Linked(x)
  /\ Part!Walk(0) = Walk(0) /\ (Part!Sound(0) <=> Sound(0))
  <1>1. \A x : Part!Linked(x) <=> Linked(x)
    BY SameCells DEF Part!Linked, Linked, Part!Points, Points
  <1>2. Part!Walk(0) = Walk(0)
    BY SameCells DEF Part!Walk, Walk
  <1>3. Part!Sound(0) <=> Sound(0)
    BY <1>2, SameCells DEF Part!Sound, Sound, Part!Points, Points
  <1>4. QED
    BY <1>1, <1>2, <1>3

\* What the theorems of ListPartition_proofs assume.
LEMMA Assumed ==
  /\ {"m"} \subseteq {"n", "m", "s"}
  /\ NULL # Wild /\ {NULL, Wild} \cap (Part!Cells \cup Keys) = {}
  /\ threads > 0 /\ iterations > 0 /\ num_lists \in Nat \ {0} /\ Keys \subseteq Nat
  /\ threads \in Nat /\ iterations \in Nat
  BY SizesAssumption, ListSizesAssumption, PointersAssumption, SameCells

LEMMA OnlyList ==
  ASSUME Control
  PROVE  /\ \A t \in ThreadIds : Part!listindex(t) = 0
         /\ \A c \in Cells : Part!ListOf(key, c) = 0
         /\ \A c \in Nodes : key[c] % num_lists = 0
  <1>1. \A k \in Nat : k % num_lists = 0
    BY SyncAssumption
  <1>2. \A c \in Nodes : key[c] % num_lists = 0
    BY <1>1, ListSizesAssumption DEF Control
  <1>3. \A t \in ThreadIds : phase[t] # "length" => i[t] \in Nodes
    <2>1. SUFFICES ASSUME NEW t \in ThreadIds PROVE i[t] \in Part!Nodes
      BY SameCells
    <2>2. i[t] \in Int /\ i[t] - Part!startind(t) \in 0 .. iterations - 1 /\ t \in Part!ThreadIds
      BY SameCells DEF Control, ThreadOK
    <2>3. QED
      BY <2>2, Part!OwnNodes, Assumed
  <1>4. \A t \in ThreadIds : Part!listindex(t) = 0
    <2>1. SUFFICES ASSUME NEW t \in ThreadIds PROVE Part!listindex(t) = 0
      OBVIOUS
    <2>2. pc[t] = "done" => phase[t] # "length"
      BY DEF Control, ThreadOK, PcsOf, Part!LengthPcs
    <2>3. PhaseBar[t] = "length" <=> phase[t] = "length"
      BY <2>2 DEF PhaseBar, Control
    <2>4. IndexBar[t] = IF phase[t] = "length" THEN 0 ELSE i[t]
      BY DEF IndexBar
    <2>5. QED
      BY <1>2, <1>3, <2>1, <2>3, <2>4 DEF Part!listindex
  <1>5. \A c \in Cells : c \in Nodes \/ c - numNodes = 0
    BY SyncAssumption, SizesAssumption DEF Cells, Heads, HeadOf, numNodes
  <1>6. QED
    BY <1>2, <1>4, <1>5, SameCells DEF Part!ListOf

LEMMA BarControl == Control => Part!Control
  <1> SUFFICES ASSUME Control PROVE Part!Control
    OBVIOUS
  <1>1. ASSUME NEW t \in ThreadIds PROVE Part!ThreadOK(t)
    BY SameCells
       DEF Control, ThreadOK, PcsOf, DeletePcs, Part!ThreadOK, Part!PcsOf, Part!InsertPcs, Part!LengthPcs,
           Part!LookupPcs, Part!DeletePcs, Part!UsesLock, PcBar, PhaseBar, IndexBar
  <1>2. PcBar \in [ThreadIds -> Part!ListPcs \cup {"unborn", "lock", "done"}]
    BY DEF Control, PcBar, ListPcs, Part!ListPcs
  <1>3. PhaseBar \in [ThreadIds -> {"insert", "length", "lookup", "done"}] /\ IndexBar \in [ThreadIds -> Int]
    BY DEF Control, PhaseBar, IndexBar
  <1>4. mainpc = "create" => \A t \in ThreadIds : t >= mi => PcBar[t] = "unborn"
    BY DEF Control, PcBar
  <1>5. QED
    BY <1>1, <1>2, <1>3, <1>4, SameCells
       DEF Control, Part!Control, Running, DeathByCorruption, Part!Running, Part!DeathByCorruption

-----------------------------------------------------------------------------
(* A step of a list operation is one of ListPartition, too. *)

StepPcs == (Part!InsertPcs \cup Part!LengthPcs \cup DeletePcs)

LEMMA ListStepMoves ==
  ASSUME Control, TempOK, NEW t \in ThreadIds, ListStep(t)
  PROVE  /\ pc[t] \in StepPcs
         /\ \E label \in PcsOf(phase[t]) \cap ListPcs : pc' = [pc EXCEPT ![t] = label]
         /\ \E v : temp' = [temp EXCEPT ![t] = v]
         /\ UNCHANGED <<key, phase, i, opt_sync, lock>>
  <1> USE DEF Control, ThreadOK, Goto, PcsOf, DeletePcs, Part!InsertPcs, Part!LengthPcs, ListPcs, StepPcs
  <1>1. UNCHANGED <<phase, i, opt_sync, lock>> /\ (temp' = temp => temp' = [temp EXCEPT ![t] = temp[t]])
    BY DEF ListStep, TempOK
  <1>2. CASE InsertStep(t, list, i[t])
    <2>1. CASE Insert(t, list)
      BY <1>1, <2>1 DEF Insert
    <2>2. CASE EmptyLink(t, list, i[t])
      BY <1>1, <2>2 DEF EmptyLink
    <2>3. CASE ScanHead(t)
      BY <1>1, <2>3 DEF ScanHead
    <2>4. CASE ScanCompare(t, i[t])
      BY <1>1, <2>4 DEF ScanCompare
    <2>5. CASE ScanAdvance(t)
      BY <1>1, <2>5 DEF ScanAdvance
    <2>6. CASE TakeNextNode(t)
      BY <1>1, <2>6 DEF TakeNextNode
    <2>7. CASE Link(t, i[t])
      BY <1>1, <2>7 DEF Link
    <2>8. QED
      BY <1>2, <2>1, <2>2, <2>3, <2>4, <2>5, <2>6, <2>7 DEF InsertStep
  <1>3. CASE Length(t, list) \/ LengthStep(t, list)
    BY <1>1, <1>3 DEF Length, LengthStep
  <1>4. CASE DeleteStep(t, i[t])
    BY <1>1, <1>4 DEF DeleteStep, Delete, DeleteCheck, Unlink
  <1>5. QED
    BY <1>2, <1>3, <1>4 DEF ListStep

\* How the step looks there.
LEMMA StepBars ==
  ASSUME Control, TempOK, NEW t \in ThreadIds, ListStep(t)
  PROVE  /\ PcBar[t] = pc[t] /\ PcBar' = [PcBar EXCEPT ![t] = pc'[t]]
         /\ PhaseBar' = PhaseBar /\ IndexBar' = IndexBar /\ LockedBar' = LockedBar
         /\ \A v : TempBar'[t] = v => TempBar' = [TempBar EXCEPT ![t] = v]
         /\ TempBar'[t] = TempBar[t] => TempBar' = TempBar
         /\ phase[t] \in {"insert", "length"} => TempBar[t] = temp[t] /\ TempBar'[t] = temp'[t]
         /\ phase[t] = "insert" => IndexBar[t] = i[t]
         /\ phase[t] = "delete" => /\ TempBar[t] = i[t]
                                   /\ TempBar'[t] = IF pc'[t] = "ret" THEN temp'[t] ELSE i[t]
  <1>1. PICK label \in PcsOf(phase[t]) \cap ListPcs : pc' = [pc EXCEPT ![t] = label]
    BY ListStepMoves
  <1>2. PICK v : temp' = [temp EXCEPT ![t] = v]
    BY ListStepMoves
  <1>3. UNCHANGED <<phase, i, lock>> /\ pc[t] \in StepPcs /\ pc[t] \in PcsOf(phase[t])
    BY ListStepMoves DEF Control, ThreadOK
  <1>4. label \notin {"unlock", "done"} /\ pc[t] \notin {"unlock", "done", "ret", "fail", "segv"} /\ pc'[t] = label
    BY <1>1, <1>3 DEF StepPcs, Part!InsertPcs, Part!LengthPcs, DeletePcs, ListPcs, Control
  <1>5. PcBar[t] = pc[t] /\ PcBar' = [PcBar EXCEPT ![t] = pc'[t]]
    BY <1>1, <1>4 DEF PcBar, Control
  <1>6. PhaseBar' = PhaseBar /\ IndexBar' = IndexBar /\ LockedBar' = LockedBar
    BY <1>1, <1>3, <1>4 DEF PhaseBar, IndexBar, LockedBar, Control
  <1>7. \A u \in ThreadIds \ {t} : TempBar'[u] = TempBar[u]
    BY <1>1, <1>2, <1>3 DEF TempBar, Control, TempOK
  <1>8. TempBar = [u \in ThreadIds |-> TempBar[u]] /\ TempBar' = [u \in ThreadIds |-> TempBar'[u]]
    BY DEF TempBar
  <1>9. phase[t] \in {"insert", "length"} => TempBar[t] = temp[t] /\ TempBar'[t] = temp'[t]
    BY <1>3 DEF TempBar
  <1>10. phase[t] = "insert" => IndexBar[t] = i[t]
    BY DEF IndexBar
  <1>11. phase[t] = "delete" => /\ TempBar[t] = i[t]
                                /\ TempBar'[t] = IF pc'[t] = "ret" THEN temp'[t] ELSE i[t]
    BY <1>1, <1>3, <1>4 DEF TempBar, StepPcs, PcsOf, Part!InsertPcs, Part!LengthPcs, DeletePcs
  <1>12. \A w : TempBar'[t] = w => TempBar' = [TempBar EXCEPT ![t] = w]
    BY <1>7, <1>8
  <1>13. TempBar'[t] = TempBar[t] => TempBar' = TempBar
    BY <1>7, <1>8
  <1>14. QED
    BY <1>5, <1>6, <1>9, <1>10, <1>11, <1>12, <1>13

LEMMA InsertIsInsert ==
  ASSUME Control, TempOK, NEW t \in ThreadIds, ListStep(t), InsertStep(t, list, i[t])
  PROVE  Part!InsertStep(t, Part!list(t), IndexBar[t])
  <1>1. pc[t] \in Part!InsertPcs
    BY DEF InsertStep, Insert, EmptyLink, ScanHead, ScanCompare, ScanAdvance, TakeNextNode, Link, Part!InsertPcs
  <1>2. phase[t] = "insert"
    BY <1>1 DEF Control, ThreadOK, PcsOf, DeletePcs, Part!InsertPcs, Part!LengthPcs
  <1>3. /\ IndexBar[t] = i[t] /\ TempBar[t] = temp[t] /\ TempBar'[t] = temp'[t]
        /\ PcBar[t] = pc[t] /\ PcBar' = [PcBar EXCEPT ![t] = pc'[t]]
    BY <1>2, StepBars
  <1>4. SUFFICES Part!InsertStep(t, list, i[t])
    BY <1>3, OnlyList, SameCells DEF Part!list, list
  <1>5. \A label : Goto(t, label) => Part!Goto(t, label)
    BY <1>3 DEF Goto, Part!Goto, Control
  <1>6. temp' = temp => TempBar' = TempBar
    BY <1>3, StepBars
  <1>7. \A v : temp' = [temp EXCEPT ![t] = v] => TempBar' = [TempBar EXCEPT ![t] = v]
    BY <1>3, StepBars DEF TempOK
  <1>8. \A x : Part!Points(x) <=> Points(x)
    BY SameCells DEF Part!Points, Points
  <1>9. CASE Insert(t, list)
    BY <1>3, <1>5, <1>6, <1>7, <1>9 DEF Insert, Part!Insert, Part!InsertStep
  <1>10. CASE EmptyLink(t, list, i[t])
    BY <1>3, <1>5, <1>6, <1>10 DEF EmptyLink, Part!EmptyLink, Part!InsertStep
  <1>11. CASE ScanHead(t)
    BY <1>3, <1>5, <1>6, <1>8, <1>11 DEF ScanHead, Part!ScanHead, Part!InsertStep
  <1>12. CASE ScanCompare(t, i[t])
    BY <1>3, <1>5, <1>6, <1>8, <1>12 DEF ScanCompare, Part!ScanCompare, Part!InsertStep
  <1>13. CASE ScanAdvance(t)
    BY <1>3, <1>5, <1>6, <1>7, <1>8, <1>13 DEF ScanAdvance, Part!ScanAdvance, Part!InsertStep
  <1>14. CASE TakeNextNode(t)
    BY <1>3, <1>5, <1>6, <1>14 DEF TakeNextNode, Part!TakeNextNode, Part!InsertStep
  <1>15. CASE Link(t, i[t])
    BY <1>3, <1>5, <1>6, <1>7, <1>8, <1>15 DEF Link, Part!Link, Part!InsertStep
  <1>16. QED
    BY <1>9, <1>10, <1>11, <1>12, <1>13, <1>14, <1>15 DEF InsertStep

LEMMA LengthIsLength ==
  ASSUME Control, TempOK, NEW t \in ThreadIds, ListStep(t), Length(t, list) \/ LengthStep(t, list)
  PROVE  Part!Length(t, Part!list(t)) \/ Part!LengthStep(t, Part!list(t))
  <1>1. Part!list(t) = list
    BY OnlyList, SameCells DEF Part!list, list
  <1>2. phase[t] = "length"
    BY DEF Length, LengthStep, Control, ThreadOK, PcsOf, DeletePcs, Part!InsertPcs
  <1>3. /\ TempBar[t] = temp[t] /\ TempBar'[t] = temp'[t]
        /\ PcBar[t] = pc[t] /\ PcBar' = [PcBar EXCEPT ![t] = pc'[t]]
    BY <1>2, StepBars
  <1>4. \A label : Goto(t, label) => Part!Goto(t, label)
    BY <1>3 DEF Goto, Part!Goto, Control
  <1>5. temp' = temp => TempBar' = TempBar
    BY <1>3, StepBars
  <1>6. \A v : temp' = [temp EXCEPT ![t] = v] => TempBar' = [TempBar EXCEPT ![t] = v]
    BY <1>3, StepBars DEF TempOK
  <1>7. \A x : Part!Points(x) <=> Points(x)
    BY SameCells DEF Part!Points, Points
  <1>8. CASE Length(t, list)
    BY <1>1, <1>3, <1>4, <1>5, <1>6, <1>8 DEF Length, Part!Length
  <1>9. CASE LengthStep(t, list)
    BY <1>1, <1>3, <1>4, <1>5, <1>6, <1>7, <1>9 DEF LengthStep, Part!LengthStep
  <1>10. QED
    BY <1>8, <1>9

LEMMA DeleteIsDelete ==
  ASSUME Control, TempOK, NEW t \in ThreadIds, ListStep(t), DeleteStep(t, i[t])
  PROVE  Part!DeleteStep(t, TempBar[t])
  <1>1. phase[t] = "delete"
    BY DEF DeleteStep, Delete, DeleteCheck, Unlink,
           Control, ThreadOK, PcsOf, Part!InsertPcs, Part!LengthPcs
  <1>2. /\ TempBar[t] = i[t] /\ TempBar'[t] = IF pc'[t] = "ret" THEN temp'[t] ELSE i[t]
        /\ PcBar[t] = pc[t] /\ PcBar' = [PcBar EXCEPT ![t] = pc'[t]]
    BY <1>1, StepBars
  <1>3. \A label : Goto(t, label) => Part!Goto(t, label) /\ pc'[t] = label
    BY <1>2 DEF Goto, Part!Goto, Control
  <1>4. pc'[t] # "ret" => TempBar' = TempBar
    BY <1>2, StepBars
  <1>5. pc'[t] = "ret" /\ temp' = [temp EXCEPT ![t] = NULL] => TempBar' = [TempBar EXCEPT ![t] = NULL]
    BY <1>2, StepBars DEF TempOK
  <1>6. \A x : Part!Points(x) <=> Points(x)
    BY SameCells DEF Part!Points, Points
  <1>7. CASE Delete(t, i[t])
    BY <1>2, <1>3, <1>4, <1>7 DEF Delete, Part!Delete, Part!DeleteStep
  <1>8. CASE DeleteCheck(t, i[t])
    BY <1>2, <1>3, <1>4, <1>6, <1>8 DEF DeleteCheck, Part!DeleteCheck, Part!DeleteStep
  <1>9. CASE Unlink(t, i[t])
    BY <1>2, <1>3, <1>4, <1>5, <1>6, <1>9 DEF Unlink, Part!Unlink, Part!DeleteStep
  <1>10. QED
    BY <1>7, <1>8, <1>9 DEF DeleteStep

LEMMA StepIsStep ==
  ASSUME Control, TempOK, NEW t \in ThreadIds, ListStep(t)
  PROVE  Part!ListStep(t)
  <1>1. UNCHANGED <<"m", LockedBar, PhaseBar, IndexBar>>
    BY StepBars
  <1>2. QED
    BY <1>1, InsertIsInsert, LengthIsLength, DeleteIsDelete DEF ListStep, Part!ListStep

-----------------------------------------------------------------------------
(* The control. *)

LEMMA ListStepControl ==
  ASSUME Control, TempOK, NEW t \in ThreadIds, ListStep(t), UNCHANGED <<mainpc, mi, exit>>
  PROVE  Control'
  <1>1. PICK label \in PcsOf(phase[t]) \cap ListPcs : pc' = [pc EXCEPT ![t] = label]
    BY ListStepMoves
  <1>2. UNCHANGED <<key, phase, i, opt_sync>> /\ pc[t] \in StepPcs
    BY ListStepMoves
  <1>3. label \notin {"unborn", "lock", "unlock"} /\ pc[t] # "unborn"
    BY <1>2 DEF ListPcs, StepPcs, Part!InsertPcs, Part!LengthPcs, DeletePcs
  <1>4. ASSUME NEW u \in ThreadIds
        PROVE  ThreadOK(u)'
    BY <1>1, <1>2, <1>3 DEF Control, ThreadOK, PcsOf, UsesLock, startind
  <1>5. mainpc = "create" => ~(t >= mi)
    BY <1>3 DEF Control
  <1>6. QED
    BY <1>1, <1>2, <1>4, <1>5 DEF Control

\* Where a thread goes after a list operation.
LEMMA NextCallMoves ==
  ASSUME Control, NEW t \in ThreadIds, NextCall(t)
  PROVE  /\ UNCHANGED <<next, prev, key, temp, nextnode, opt_sync, lock>> /\ pc[t] = "ret"
         /\ i' = [i EXCEPT ![t] = i'[t]] /\ phase' = [phase EXCEPT ![t] = phase'[t]]
         /\ pc' = [pc EXCEPT ![t] = pc'[t]]
         /\ \/ /\ phase[t] \in {"insert", "delete"} /\ i[t] < Last(t)
               /\ i'[t] = i[t] + 1 /\ pc'[t] = phase[t] /\ phase'[t] = phase[t]
            \/ /\ phase[t] = "length" \/ ~(i[t] < Last(t))
               /\ i'[t] = startind(t)
               /\ \/ phase[t] = "insert" /\ phase'[t] = "length" /\ pc'[t] = "length"
                  \/ phase[t] = "length" /\ phase'[t] = "delete" /\ pc'[t] = "delete"
                  \/ /\ phase[t] = "delete" /\ phase'[t] = "delete"
                     /\ pc'[t] = IF UsesLock THEN "unlock" ELSE "done"
  <1>1. phase[t] \in {"insert", "length", "delete"}
    BY DEF Control
  <1>2. CASE MoreNodes(t)
    BY <1>1, <1>2 DEF NextCall, MoreNodes, Goto, Control
  <1>3. CASE ~MoreNodes(t)
    BY <1>1, <1>3 DEF NextCall, MoreNodes, Goto, Control
  <1>4. QED
    BY <1>2, <1>3

LEMMA NextCallControl ==
  ASSUME Control, NEW t \in ThreadIds, NextCall(t), UNCHANGED <<mainpc, mi, exit>>
  PROVE  Control'
  <1>1. startind(t) \in Int /\ iterations \in Nat /\ iterations > 0 /\ i[t] \in Int
    BY SizesAssumption, ListSizesAssumption DEF startind, ThreadIds, Control
  <1>2. i'[t] \in Int /\ i'[t] - startind(t) \in 0 .. iterations - 1
    BY <1>1, NextCallMoves DEF Control, ThreadOK, Last
  <1>3. phase'[t] \in {"insert", "length", "delete"} /\ pc'[t] \in PcsOf(phase'[t])
        /\ pc'[t] \in ListPcs \cup {"unlock", "done"} /\ (pc'[t] = "unlock" => UsesLock)
    BY NextCallMoves DEF PcsOf, Part!InsertPcs, Part!LengthPcs, DeletePcs, ListPcs
  <1>4. ASSUME NEW u \in ThreadIds
        PROVE  ThreadOK(u)'
    <2>1. CASE u = t
      BY <1>2, <1>3, <2>1, NextCallMoves DEF ThreadOK, UsesLock, startind, ListPcs, PcsOf
    <2>2. CASE u # t
      BY <2>2, NextCallMoves DEF ThreadOK, UsesLock, startind, PcsOf, Control
    <2>3. QED
      BY <2>1, <2>2
  <1>5. mainpc = "create" => ~(t >= mi)
    BY NextCallMoves DEF Control
  <1>6. QED
    BY <1>2, <1>3, <1>4, <1>5, NextCallMoves DEF Control

\* The other steps of a thread.
LEMMA LockControl ==
  ASSUME Control, NEW t \in ThreadIds, Lock(t) \/ Unlock(t) \/ Die(t), UNCHANGED <<mainpc, mi>>,
         Die(t) \/ UNCHANGED exit
  PROVE  Control'
  <1>1. UNCHANGED <<key, phase, i, opt_sync>>
    BY DEF Lock, Unlock, Die, threadVars
  <1>2. /\ pc' = [pc EXCEPT ![t] = pc'[t]]
        /\ \/ pc[t] = "lock" /\ pc'[t] = "insert"
           \/ pc[t] = "unlock" /\ pc'[t] = "done"
           \/ pc[t] \in {"fail", "segv"} /\ pc'[t] = pc[t]
    BY DEF Lock, Unlock, Die, Goto, Control
  <1>3. exit' \in {exit, DeathByCorruption}
    BY DEF Die
  <1>4. ASSUME NEW u \in ThreadIds
        PROVE  ThreadOK(u)'
    BY <1>1, <1>2 DEF Control, ThreadOK, PcsOf, Part!InsertPcs, Part!LengthPcs, DeletePcs, UsesLock, startind
  <1>5. mainpc = "create" => ~(t >= mi)
    BY <1>2 DEF Control
  <1>6. QED
    BY <1>1, <1>2, <1>3, <1>4, <1>5 DEF Control, ListPcs

LEMMA MainControl ==
  ASSUME Control, Main
  PROVE  Control'
  <1> USE SizesAssumption
  <1>1. UNCHANGED <<key, opt_sync, phase, i>>
    BY DEF Main, CreateThread, CreateFails, AllCreated, JoinThread, AllJoined, Report, threadVars
  <1>2. CASE CreateThread
    <2>1. mi \in ThreadIds /\ pc[mi] = "unborn" /\ phase[mi] = "insert"
      <3>1. mi \in ThreadIds /\ pc[mi] = "unborn"
        BY <1>2 DEF CreateThread, Control, ThreadIds
      <3>2. ThreadOK(mi) /\ phase[mi] \in {"insert", "length", "delete"}
        BY <3>1 DEF Control
      <3>3. QED
        BY <3>1, <3>2 DEF ThreadOK, PcsOf, Part!LengthPcs, DeletePcs
    <2>2. pc' = [pc EXCEPT ![mi] = pc'[mi]] /\ pc'[mi] = (IF UsesLock THEN "lock" ELSE "insert")
          /\ mi' = mi + 1 /\ UNCHANGED <<mainpc, exit>>
      BY <1>2, <2>1 DEF CreateThread, Goto, Control
    <2>3. ASSUME NEW u \in ThreadIds
          PROVE  ThreadOK(u)'
      BY <1>1, <2>1, <2>2 DEF Control, ThreadOK, PcsOf, Part!InsertPcs, UsesLock, startind
    <2>4. mi' \in 0 .. threads /\ \A u \in ThreadIds : u >= mi' => u >= mi /\ u # mi
      BY <1>2, <2>2 DEF CreateThread, Control, ThreadIds
    <2>5. QED
      BY <1>1, <1>2, <2>1, <2>2, <2>3, <2>4 DEF Control, CreateThread, ListPcs
  <1>3. CASE CreateFails \/ AllCreated \/ JoinThread \/ AllJoined \/ Report
    <2>1. UNCHANGED pc /\ mi' \in 0 .. threads /\ exit' \in {Running, 0, 1, DeathByCorruption}
          /\ mainpc' \in {"create", "join", "report"}
          /\ (mainpc' = "create" => mainpc = "create" /\ mi' = mi)
      BY <1>3 DEF CreateFails, AllCreated, JoinThread, AllJoined, Report, Control
    <2>2. ASSUME NEW u \in ThreadIds
          PROVE  ThreadOK(u)'
      BY <1>1, <2>1 DEF Control, ThreadOK, UsesLock, startind, PcsOf
    <2>3. QED
      BY <1>1, <2>1, <2>2 DEF Control
  <1>4. QED
    BY <1>2, <1>3 DEF Main

LEMMA InitControl ==
  ASSUME Init
  PROVE  Control /\ TempOK
  <1> USE SizesAssumption, ListSizesAssumption, Assumed DEF Init, ListsInit
  <1>1. PICK k \in [Nodes -> Keys] : key = [c \in Cells |-> IF c \in Nodes THEN k[c] ELSE NULL]
    OBVIOUS
  <1>2. Nodes \subseteq Cells /\ Heads \subseteq Cells /\ Heads \cap Nodes = {}
    BY SyncAssumption DEF Cells, Heads, HeadOf, Nodes, numNodes
  <1>3. key \in [Cells -> Keys \cup {NULL}] /\ (\A n \in Nodes : key[n] \in Keys) /\ (\A c \in Heads : key[c] = NULL)
    BY <1>1, <1>2
  <1>4. ASSUME NEW t \in ThreadIds
        PROVE  ThreadOK(t)
    BY DEF ThreadOK, PcsOf, startind, ThreadIds
  <1>5. 0 \in 0 .. threads /\ \A t \in ThreadIds : startind(t) \in Int
    BY DEF startind, ThreadIds
  <1>6. QED
    BY <1>3, <1>4, <1>5 DEF Control, TempOK

LEMMA StepControl == Control /\ TempOK /\ [Next]_vars => Control'
  <1> SUFFICES ASSUME Control, TempOK, [Next]_vars PROVE Control'
    OBVIOUS
  <1>1. CASE \E t \in ThreadIds : Thread(t)
    BY <1>1, LockControl, ListStepControl, NextCallControl DEF Thread
  <1>2. CASE Main
    BY <1>2, MainControl
  <1>3. CASE UNCHANGED vars
    BY <1>3 DEF vars, listVars, Control, ThreadOK, UsesLock, startind, PcsOf
  <1>4. QED
    BY <1>1, <1>2, <1>3 DEF Next, Ended

-----------------------------------------------------------------------------
(* Pointers. *)

Typed == Control /\ TempOK /\ Part!Apart

\* The steps outside the list operations.
Stays(u) == pc'[u] = pc[u] /\ phase'[u] = phase[u] /\ i'[u] = i[u]
Calls(u) == /\ pc[u] \in {"unborn", "lock", "ret", "unlock"}
            /\ pc'[u] \in {"lock", "insert", "length", "delete", "unlock", "done"}
            /\ pc'[u] = "delete" => i'[u] \in Cells
            /\ phase[u] = "delete" => phase'[u] = "delete"

LEMMA OwnNode ==
  ASSUME Control, NEW t \in ThreadIds
  PROVE  i[t] \in Nodes /\ i[t] \in Cells
  <1>1. i[t] \in Int /\ i[t] - Part!startind(t) \in 0 .. iterations - 1 /\ t \in Part!ThreadIds
    BY SameCells DEF Control, ThreadOK
  <1>2. i[t] \in Part!Nodes
    BY <1>1, Part!OwnNodes, Assumed
  <1>3. QED
    BY <1>2, SameCells DEF Cells

\* Two of these facts about the state after a step.
LEMMA OwnNodeAfter == Control' => \A t \in ThreadIds : i'[t] \in Cells
  <1>1. Control => \A t \in ThreadIds : i[t] \in Cells
    BY OwnNode
  <1>2. (Control => \A t \in ThreadIds : i[t] \in Cells)'
    BY <1>1, PTL
  <1>3. QED
    BY <1>2

LEMMA OnlyListAfter == Control' => \A t \in ThreadIds : Part!listindex(t)' = 0
  <1>1. Control => \A t \in ThreadIds : Part!listindex(t) = 0
    BY OnlyList
  <1>2. (Control => \A t \in ThreadIds : Part!listindex(t) = 0)'
    BY <1>1, PTL
  <1>3. QED
    BY <1>2

LEMMA OtherMoves ==
  ASSUME Control, Control', [Next]_vars, \A t \in ThreadIds : Thread(t) => ~ListStep(t)
  PROVE  UNCHANGED <<next, prev, key, temp, nextnode, opt_sync>> /\ \A u \in ThreadIds : Stays(u) \/ Calls(u)
  <1>1. ASSUME NEW t \in ThreadIds, Thread(t)
        PROVE  UNCHANGED <<next, prev, key, temp, nextnode, opt_sync>> /\ \A u \in ThreadIds : Stays(u) \/ Calls(u)
    <2>1. Lock(t) \/ Unlock(t) \/ NextCall(t) \/ Die(t)
      BY <1>1 DEF Thread
    <2>2. CASE NextCall(t)
      <3>1. \A u \in ThreadIds : u # t => Stays(u)
        BY <2>2, NextCallMoves DEF Stays, Control
      <3>2. i'[t] \in Cells
        BY OwnNodeAfter
      <3>3. Calls(t)
        BY <2>2, <3>2, NextCallMoves DEF Calls
      <3>4. QED
        BY <2>2, <3>1, <3>3, NextCallMoves
    <2>3. CASE Lock(t) \/ Unlock(t) \/ Die(t)
      BY <2>3 DEF Lock, Unlock, Die, Goto, threadVars, Stays, Calls, Control
    <2>4. QED
      BY <2>1, <2>2, <2>3
  <1>2. CASE Main
    <2>1. UNCHANGED <<next, prev, key, temp, nextnode, opt_sync, phase, i>>
      BY <1>2 DEF Main, CreateThread, CreateFails, AllCreated, JoinThread, AllJoined, Report, threadVars
    <2>2. CASE CreateThread
      <3>1. mi \in ThreadIds /\ pc[mi] = "unborn" /\ pc' = [pc EXCEPT ![mi] = IF UsesLock THEN "lock" ELSE "insert"]
        BY <2>2, SizesAssumption DEF CreateThread, Goto, Control, ThreadIds
      <3>2. QED
        BY <2>1, <3>1 DEF Stays, Calls, Control
    <2>3. QED
      BY <1>2, <2>1, <2>2 DEF Main, CreateFails, AllCreated, JoinThread, AllJoined, Report, Stays
  <1>3. CASE UNCHANGED vars
    BY <1>3 DEF vars, listVars, Stays
  <1>4. QED
    BY <1>1, <1>2, <1>3 DEF Next, Ended

\* With one list, a pointer that points to a cell points into it.
LEMMA PointersWithin ==
  ASSUME Control
  PROVE  \A p : Part!Within(key, p, 0) <=> p \in Cells \cup {NULL, Wild}
  BY OnlyList, SameCells DEF Part!Within, Part!Pointers

LEMMA PointersWithinAfter == Control' => \A p : Part!Within(key, p, 0)' <=> p \in Cells \cup {NULL, Wild}
  <1>1. Control => \A p : Part!Within(key, p, 0) <=> p \in Cells \cup {NULL, Wild}
    BY PointersWithin
  <1>2. (Control => \A p : Part!Within(key, p, 0) <=> p \in Cells \cup {NULL, Wild})'
    BY <1>1, PTL
  <1>3. QED
    BY <1>2

LEMMA OtherTyped ==
  ASSUME Typed, Control', UNCHANGED <<next, prev, key, temp, nextnode>>,
         \A u \in ThreadIds : Stays(u) \/ Calls(u)
  PROVE  Typed'
  <1>1. Part!LinksWithin(key, next)' /\ Part!LinksWithin(key, prev)'
    BY SameCells DEF Typed, Part!Apart, Part!LinksWithin, Part!Within, Part!ListOf, Part!Pointers
  <1>2. Control
    BY DEF Typed
  <1>3. ASSUME NEW u \in ThreadIds
        PROVE  /\ Part!LocalsApart(u)' /\ TempBar'[u] \in Cells \cup {NULL, Wild}
               /\ phase'[u] = "delete" => temp'[u] = NULL
    <2>1. /\ Part!LocalsApart(u) /\ TempBar[u] \in Cells \cup {NULL, Wild}
          /\ Part!listindex(u) = 0
      BY OnlyList, SameCells, <1>2 DEF Typed, Part!Apart, Part!Pointers
    <2>2. Part!listindex(u)' = 0 /\ \A p : Part!Within(key, p, 0)' <=> p \in Cells \cup {NULL, Wild}
      BY OnlyListAfter, PointersWithinAfter
    <2>3. Part!Within(key, nextnode[u], 0) /\ nextnode[u] \in Cells \cup {NULL, Wild}
      BY <1>2, <2>1, PointersWithin DEF Part!LocalsApart
    <2>4. CASE Stays(u)
      <3>1. PcBar'[u] = PcBar[u] /\ TempBar'[u] = TempBar[u]
        BY <2>4 DEF Stays, PcBar, TempBar
      <3>2. QED
        BY <2>1, <2>2, <2>3, <2>4, <3>1 DEF Part!LocalsApart, Stays, Typed, TempOK
    <2>5. CASE Calls(u)
      <3>1. PcBar[u] \in Part!NoTempPcs /\ PcBar[u] \notin Part!NextnodePcs
        BY <2>5 DEF Calls, PcBar, Part!NoTempPcs, Part!NextnodePcs
      <3>2. TempBar[u] = NULL /\ nextnode[u] = NULL
        BY <2>1, <3>1 DEF Part!LocalsApart
      <3>3. temp[u] = NULL
        BY <2>5, <3>2 DEF Typed, TempOK, TempBar, Calls
      <3>4. PcBar'[u] \in {"lock", "insert", "length", "delete", "ret", "done"}
            /\ TempBar'[u] \in {i'[u], NULL} /\ (TempBar'[u] # NULL => PcBar'[u] = "delete")
            /\ (PcBar'[u] = "delete" => TempBar'[u] \in Cells)
        <4>1. PcBar'[u] \in {"lock", "insert", "length", "delete", "ret", "done"}
          BY <2>5 DEF Calls, PcBar
        <4>2. pc'[u] = "delete" => phase'[u] = "delete"
          BY DEF Control, ThreadOK, PcsOf, Part!InsertPcs, Part!LengthPcs
        <4>3. QED
          BY <2>5, <3>3, <4>1, <4>2 DEF Calls, PcBar, TempBar, DeletePcs
      <3>5. TempBar'[u] \in Cells \cup {NULL, Wild}
        BY <3>4
      <3>6. nextnode'[u] = NULL /\ temp'[u] = NULL
        BY <3>2, <3>3
      <3>7. Part!Within(key, TempBar[u], Part!listindex(u))' /\ Part!Within(key, nextnode[u], Part!listindex(u))'
        BY <2>2, <3>5, <3>6
      <3>8. PcBar'[u] \notin Part!NextnodePcs /\ (PcBar'[u] \in Part!NoTempPcs => TempBar'[u] = NULL)
            /\ (PcBar'[u] \in Part!TempPcs => TempBar'[u] \in Part!Cells)
        BY <3>4, SameCells DEF Part!NoTempPcs, Part!NextnodePcs, Part!TempPcs, Part!DeletePcs
      <3>9. QED
        BY <3>5, <3>6, <3>7, <3>8 DEF Part!LocalsApart
    <2>6. QED
      BY <2>4, <2>5
  <1>4. TempBar' \in [ThreadIds -> Cells \cup {NULL, Wild}]
    BY <1>3 DEF TempBar
  <1>5. Part!Apart'
    BY <1>1, <1>3, <1>4, SameCells DEF Typed, Part!Apart, Part!Pointers
  <1>6. TempOK'
    BY <1>3 DEF Typed, TempOK
  <1>7. QED
    BY <1>5, <1>6 DEF Typed

LEMMA ListStepTyped ==
  ASSUME Typed, Control', NEW t \in ThreadIds, ListStep(t)
  PROVE  Typed'
  <1>1. Control /\ TempOK /\ Part!Control /\ Part!Apart /\ t \in Part!ThreadIds
    BY BarControl, SameCells DEF Typed
  <1>2. Part!Apart'
    BY <1>1, StepIsStep, Part!ListStepApart, Assumed
  <1>3. PICK v : temp' = [temp EXCEPT ![t] = v]
    BY <1>1, ListStepMoves
  <1>4. phase' = phase
    BY <1>1, ListStepMoves
  <1>5. CASE phase[t] \in {"insert", "length"}
    <2>1. temp'[t] = TempBar'[t] /\ TempBar'[t] \in Cells \cup {NULL, Wild}
      BY <1>1, <1>2, <1>5, StepBars, SameCells DEF Part!Apart, Part!Pointers
    <2>2. QED
      BY <1>1, <1>2, <1>3, <1>4, <1>5, <2>1 DEF TempOK, Typed
  <1>6. CASE phase[t] = "delete"
    <2>1. DeleteStep(t, i[t])
      <3>1. pc[t] \in DeletePcs
        BY <1>1, <1>6, ListStepMoves DEF Control, ThreadOK, PcsOf, StepPcs, Part!InsertPcs, Part!LengthPcs, DeletePcs
      <3>2. QED
        BY <3>1 DEF ListStep, InsertStep, Insert, EmptyLink, ScanHead, ScanCompare, ScanAdvance, TakeNextNode,
                    Link, Length, LengthStep, DeletePcs
    <2>2. temp' = temp \/ temp' = [temp EXCEPT ![t] = NULL]
      BY <2>1 DEF DeleteStep, Delete, DeleteCheck, Unlink
    <2>3. QED
      BY <1>1, <1>2, <1>4, <2>2 DEF TempOK, Typed
  <1>7. QED
    BY <1>1, <1>5, <1>6 DEF Control

LEMMA StepTyped == Typed /\ [Next]_vars => Typed'
  <1> SUFFICES ASSUME Typed, [Next]_vars PROVE Typed'
    OBVIOUS
  <1>1. Control /\ Control'
    BY StepControl DEF Typed
  <1>2. CASE \E t \in ThreadIds : Thread(t) /\ ListStep(t)
    BY <1>1, <1>2, ListStepTyped
  <1>3. CASE \A t \in ThreadIds : Thread(t) => ~ListStep(t)
    BY <1>1, <1>3, OtherMoves, OtherTyped
  <1>4. QED
    BY <1>2, <1>3

LEMMA InitTyped == Init => Typed
  <1> SUFFICES ASSUME Init PROVE Typed
    OBVIOUS
  <1>1. Control /\ TempOK
    BY InitControl
  <1>2. PICK garbage \in {NULL, Wild} : /\ next = [c \in Cells |-> IF c \in Nodes THEN garbage ELSE NULL]
                                        /\ prev = next
    BY DEF Init, ListsInit
  <1>3. next \in [Cells -> Cells \cup {NULL, Wild}] /\ prev \in [Cells -> Cells \cup {NULL, Wild}]
    BY <1>2
  <1>4. Part!LinksWithin(key, next) /\ Part!LinksWithin(key, prev)
    BY <1>1, <1>3, OnlyList, PointersWithin, SameCells DEF Part!LinksWithin, Part!Pointers
  <1>5. /\ \A t \in ThreadIds : PcBar[t] = "unborn" /\ TempBar[t] = NULL /\ nextnode[t] = NULL
        /\ TempBar \in [ThreadIds -> Cells \cup {NULL, Wild}] /\ nextnode \in [ThreadIds -> Cells \cup {NULL, Wild}]
    BY DEF Init, ListsInit, PcBar, TempBar
  <1>6. \A t \in ThreadIds : Part!LocalsApart(t)
    BY <1>1, <1>5, OnlyList, PointersWithin
       DEF Part!LocalsApart, Part!NoTempPcs, Part!TempPcs, Part!NextnodePcs, Part!DeletePcs
  <1>7. Part!Apart
    BY <1>4, <1>5, <1>6, SameCells DEF Part!Apart, Part!Pointers
  <1>8. QED
    BY <1>1, <1>7 DEF Typed

-----------------------------------------------------------------------------
(* The lock. *)

LEMMA StepHolder == Control /\ TempOK /\ OneHolder /\ [Next]_vars => OneHolder'
  <1> SUFFICES ASSUME Control, TempOK, OneHolder, [Next]_vars PROVE OneHolder'
    OBVIOUS
  <1>1. ASSUME NEW t \in ThreadIds, ListStep(t)
        PROVE  OneHolder'
    <2>1. lock' = lock /\ opt_sync' = opt_sync /\ pc[t] \in ListPcs
      BY <1>1, ListStepMoves DEF StepPcs, Part!InsertPcs, Part!LengthPcs, DeletePcs, ListPcs
    <2>2. PICK label \in ListPcs : pc' = [pc EXCEPT ![t] = label]
      BY <1>1, ListStepMoves
    <2>3. \A u \in ThreadIds : Holds(u)' <=> Holds(u)
      BY <2>1, <2>2 DEF Holds, UsesLock, Control
    <2>4. QED
      BY <2>1, <2>3 DEF OneHolder
  <1>2. ASSUME NEW t \in ThreadIds, NextCall(t)
        PROVE  OneHolder'
    <2>1. lock' = lock /\ opt_sync' = opt_sync /\ pc[t] \in ListPcs
          /\ pc' = [pc EXCEPT ![t] = pc'[t]] /\ (UsesLock => pc'[t] \in ListPcs \cup {"unlock"})
      BY <1>2, NextCallMoves DEF ListPcs
    <2>2. \A u \in ThreadIds : Holds(u)' <=> Holds(u)
      BY <2>1 DEF Holds, UsesLock, Control
    <2>3. QED
      BY <2>1, <2>2 DEF OneHolder
  <1>3. ASSUME NEW t \in ThreadIds, Lock(t)
        PROVE  OneHolder'
    <2>1. lock' = TRUE /\ ~lock /\ opt_sync' = opt_sync /\ pc[t] = "lock" /\ pc' = [pc EXCEPT ![t] = "insert"]
      BY <1>3 DEF Lock, Goto
    <2>2. UsesLock
      BY <2>1 DEF Control, ThreadOK
    <2>3. \A u \in ThreadIds : Holds(u)' <=> u = t
      BY <2>1, <2>2 DEF Holds, UsesLock, Control, OneHolder, ListPcs
    <2>4. QED
      BY <2>1, <2>3 DEF OneHolder
  <1>4. ASSUME NEW t \in ThreadIds, Unlock(t)
        PROVE  OneHolder'
    <2>1. lock' = FALSE /\ opt_sync' = opt_sync /\ pc[t] = "unlock" /\ pc' = [pc EXCEPT ![t] = "done"]
      BY <1>4 DEF Unlock, Goto
    <2>2. UsesLock
      BY <2>1 DEF Control, ThreadOK
    <2>3. \A u \in ThreadIds : ~Holds(u)'
      BY <2>1, <2>2 DEF Holds, UsesLock, Control, OneHolder, ListPcs
    <2>4. QED
      BY <2>1, <2>3 DEF OneHolder
  <1>5. ASSUME UNCHANGED <<lock, opt_sync>>,
               \A u \in ThreadIds : pc'[u] = pc[u] \/ (pc[u] = "unborn" /\ pc'[u] = IF UsesLock THEN "lock" ELSE "insert")
        PROVE  OneHolder'
    <2>1. \A u \in ThreadIds : Holds(u)' <=> Holds(u)
      BY <1>5 DEF Holds, UsesLock, ListPcs
    <2>2. QED
      BY <1>5, <2>1 DEF OneHolder
  <1>6. CASE \E t \in ThreadIds : Die(t)
    BY <1>5, <1>6 DEF Die, threadVars
  <1>7. CASE Main
    <2>1. CASE CreateThread
      <3>1. mi \in ThreadIds /\ pc[mi] = "unborn" /\ pc' = [pc EXCEPT ![mi] = IF UsesLock THEN "lock" ELSE "insert"]
        BY <2>1, SizesAssumption DEF CreateThread, Goto, Control, ThreadIds
      <3>2. QED
        BY <1>5, <2>1, <3>1 DEF CreateThread, threadVars, Control
    <2>2. QED
      BY <1>5, <1>7, <2>1 DEF Main, CreateFails, AllCreated, JoinThread, AllJoined, Report, threadVars
  <1>8. CASE UNCHANGED vars
    BY <1>5, <1>8 DEF vars, listVars
  <1>9. QED
    BY <1>1, <1>2, <1>3, <1>4, <1>6, <1>7, <1>8 DEF Next, Ended, Thread

-----------------------------------------------------------------------------
(* What the holder of the lock has in the list. *)

\* The labels of an insertion that link the node, and the one of a deletion that
\* takes it out.
LEMMA StepLabels ==
  ASSUME Control, TempOK, NEW t \in ThreadIds, ListStep(t), pc'[t] # "segv"
  PROVE  /\ phase[t] = "insert" =>
              (pc'[t] \in {"empty4", "link4", "ret"} <=> pc[t] \in {"empty3", "link3", "empty4", "link4"})
         /\ phase[t] = "delete" => (pc'[t] = "ret" <=> pc[t] = "unlink2")
         /\ pc[t] \notin {"ret", "unlock"} /\ pc'[t] # "unlock"
  <1>1. \A label : Goto(t, label) => pc'[t] = label
    BY DEF Goto, Control
  <1>2. CASE InsertStep(t, list, i[t])
    <2>1. phase[t] = "insert"
      BY <1>2 DEF InsertStep, Insert, EmptyLink, ScanHead, ScanCompare, ScanAdvance, TakeNextNode, Link,
                  Control, ThreadOK, PcsOf, DeletePcs, Part!LengthPcs
    <2>2. CASE Insert(t, list)
      BY <1>1, <2>1, <2>2 DEF Insert
    <2>3. CASE EmptyLink(t, list, i[t])
      BY <1>1, <2>1, <2>3 DEF EmptyLink
    <2>4. CASE ScanHead(t)
      BY <1>1, <2>1, <2>4 DEF ScanHead
    <2>5. CASE ScanCompare(t, i[t])
      BY <1>1, <2>1, <2>5 DEF ScanCompare
    <2>6. CASE ScanAdvance(t)
      BY <1>1, <2>1, <2>6 DEF ScanAdvance
    <2>7. CASE TakeNextNode(t)
      BY <1>1, <2>1, <2>7 DEF TakeNextNode
    <2>8. CASE Link(t, i[t])
      BY <1>1, <2>1, <2>8 DEF Link
    <2>9. QED
      BY <1>2, <2>2, <2>3, <2>4, <2>5, <2>6, <2>7, <2>8 DEF InsertStep
  <1>3. CASE Length(t, list) \/ LengthStep(t, list)
    <2>1. phase[t] = "length"
      BY <1>3 DEF Length, LengthStep, Control, ThreadOK, PcsOf, DeletePcs, Part!InsertPcs
    <2>2. QED
      BY <1>1, <1>3, <2>1 DEF Length, LengthStep
  <1>4. CASE DeleteStep(t, i[t])
    <2>1. phase[t] = "delete"
      BY <1>4 DEF DeleteStep, Delete, DeleteCheck, Unlink, Control, ThreadOK, PcsOf,
                  Part!InsertPcs, Part!LengthPcs
    <2>2. QED
      BY <1>1, <1>4, <2>1 DEF DeleteStep, Delete, DeleteCheck, Unlink
  <1>5. QED
    BY <1>2, <1>3, <1>4 DEF ListStep

LEMMA OwnIndex ==
  ASSUME Control, NEW t \in ThreadIds
  PROVE  /\ i[t] \in Part!Own(t) /\ i[t] \in Int /\ startind(t) \in Int /\ Part!Own(t) \subseteq Nodes
         /\ \A x \in Part!Own(t) : x \in Int /\ startind(t) <= x /\ x <= Last(t)
         /\ Last(t) \in Int
  <1>1. startind(t) \in Int /\ i[t] \in Int /\ Part!startind(t) = startind(t) /\ iterations \in Nat
    BY SizesAssumption, SameCells DEF startind, ThreadIds, Control
  <1>2. Part!Own(t) \subseteq Nodes
    BY Part!OwnNodes, Assumed, SameCells DEF Part!Own
  <1>3. i[t] \in Part!Own(t)
    BY <1>1 DEF Part!Own, Control, ThreadOK
  <1>4. \A x \in Part!Own(t) : x \in Int /\ startind(t) <= x /\ x <= Last(t)
    BY <1>1 DEF Part!Own, Last
  <1>5. QED
    BY <1>1, <1>2, <1>3, <1>4 DEF Last

LEMMA StepInList ==
  ASSUME Control, TempOK, NEW t \in ThreadIds, ListStep(t), pc'[t] # "segv"
  PROVE  \A x \in Nodes : x \in InList(t)' <=> Part!Joins(t, x) \/ (x \in InList(t) /\ ~Part!Leaves(t, x))
  <1>1. phase' = phase /\ i' = i /\ phase[t] \in {"insert", "length", "delete"} /\ pc[t] \in PcsOf(phase[t])
        /\ PcBar[t] = pc[t]
    BY ListStepMoves, StepBars DEF Control, ThreadOK
  <1>2. i[t] \in Part!Own(t) /\ \A x \in Part!Own(t) : x \in Int
    BY OwnIndex
  <1>3. Part!Own(t)' = Part!Own(t)
    BY DEF Part!Own, Part!startind
  <1>4. CASE phase[t] = "insert"
    <2>1. /\ IndexBar[t] = i[t] /\ pc[t] # "unlink2"
          /\ pc'[t] \in {"empty4", "link4", "ret"} <=> pc[t] \in {"empty3", "link3", "empty4", "link4"}
          /\ pc[t] # "ret"
      BY <1>1, <1>4, StepBars, StepLabels DEF PcsOf, Part!InsertPcs
    <2>2. \A x : x \in InList(t)' <=> x \in Part!Own(t) /\ (x < i[t] \/ (x = i[t] /\ pc'[t] \in {"empty4", "link4", "ret"}))
      BY <1>1, <1>3, <1>4 DEF InList
    <2>3. \A x : x \in InList(t) <=> x \in Part!Own(t) /\ (x < i[t] \/ (x = i[t] /\ pc[t] \in {"empty4", "link4", "ret"}))
      BY <1>4 DEF InList
    <2>4. \A x : (Part!Joins(t, x) <=> pc[t] \in {"empty3", "link3"} /\ x = i[t]) /\ ~Part!Leaves(t, x)
      BY <1>1, <2>1 DEF Part!Joins, Part!Leaves
    <2>5. QED
      BY <1>2, <2>1, <2>2, <2>3, <2>4
  <1>5. CASE phase[t] = "length"
    <2>1. \A x : (x \in InList(t)' <=> x \in Part!Own(t)) /\ (x \in InList(t) <=> x \in Part!Own(t))
      BY <1>1, <1>3, <1>5 DEF InList
    <2>2. \A x : ~Part!Joins(t, x) /\ ~Part!Leaves(t, x)
      BY <1>1, <1>5 DEF Part!Joins, Part!Leaves, PcsOf, Part!LengthPcs
    <2>3. QED
      BY <2>1, <2>2
  <1>6. CASE phase[t] = "delete"
    <2>1. /\ TempBar[t] = i[t] /\ pc[t] \notin {"empty3", "link3", "ret", "unlock"} /\ pc'[t] # "unlock"
          /\ pc'[t] = "ret" <=> pc[t] = "unlink2"
      BY <1>1, <1>6, StepBars, StepLabels DEF PcsOf, DeletePcs
    <2>2. \A x : x \in InList(t)' <=> x \in Part!Own(t) /\ (x > i[t] \/ (x = i[t] /\ pc'[t] # "ret"))
      BY <1>1, <1>3, <1>6, <2>1 DEF InList
    <2>3. \A x : x \in InList(t) <=> x \in Part!Own(t) /\ (x > i[t] \/ x = i[t])
      BY <1>6, <2>1 DEF InList
    <2>4. \A x : ~Part!Joins(t, x) /\ (Part!Leaves(t, x) <=> pc[t] = "unlink2" /\ x = i[t])
      BY <1>1, <2>1 DEF Part!Joins, Part!Leaves
    <2>5. QED
      BY <1>2, <2>1, <2>2, <2>3, <2>4
  <1>7. QED
    BY <1>1, <1>4, <1>5, <1>6

\* A step of a list operation under the lock.
LEMMA ListStepAlone ==
  ASSUME Typed, Typed', OneHolder, OneHolder', Alone, NEW t \in ThreadIds, ListStep(t)
  PROVE  Alone'
  <1>1. opt_sync' = opt_sync /\ lock' = lock /\ UNCHANGED <<key, phase, i>> /\ pc[t] \in StepPcs
    BY ListStepMoves DEF Typed
  <1>2. SUFFICES ASSUME UsesLock PROVE Alone'
    BY <1>1 DEF Alone, UsesLock
  <1>3. PICK label \in ListPcs : pc' = [pc EXCEPT ![t] = label]
    BY ListStepMoves DEF Typed
  <1>4. Holds(t) /\ Holds(t)' /\ pc[t] \in ListPcs
    BY <1>1, <1>2, <1>3 DEF Holds, UsesLock, StepPcs, Part!InsertPcs, Part!LengthPcs, DeletePcs, ListPcs,
                            Typed, Control
  <1>5. PICK n \in Nat : \E c \in [0 .. n + 1 -> Part!Cells] : \E p \in Nat :
          Part!Chain(0, n, c) /\ Part!Members(0, n, c) /\ Part!At(t, 0, n, c, p)
    BY <1>2, <1>4 DEF Alone, Part!WorksOn
  <1>6. PICK c \in [0 .. n + 1 -> Part!Cells], p \in Nat :
          Part!Chain(0, n, c) /\ Part!Members(0, n, c) /\ Part!At(t, 0, n, c, p)
    BY <1>5
  <1>7. /\ Part!Control /\ Part!Apart /\ Part!UsesLock /\ Part!ListStep(t) /\ Part!listindex(t) = 0
        /\ t \in Part!ThreadIds /\ 0 \in Part!Lists
        /\ \A u \in Part!ThreadIds : Part!StillRaw(u)
    BY <1>2, BarControl, StepIsStep, OnlyList, SameCells DEF Typed, Part!UsesLock, Alone
  <1>8. Part!Working(t, 0, n, c, p)
    BY <1>4, <1>6, <1>7, StepBars DEF Part!Working, Typed, ListPcs, Part!ListPcs
  <1>9. Part!WorksOn(t, 0)' /\ Part!RelinksIn(t, 0)
    BY <1>6, <1>7, <1>8, Part!ListStepWorks, Assumed
  <1>10. \A u \in Part!ThreadIds : Part!StillRaw(u)'
    BY <1>7, <1>9, Part!ListStepRaw, Assumed
  <1>11. pc'[t] # "segv"
    BY <1>4, <1>9, StepBars DEF Part!WorksOn, Part!At, PcBar, Typed
  <1>12. \A x \in Nodes : Linked(x)' <=> x \in InList(t)'
    <2>1. \A x \in Nodes : Part!Linked(x)' <=> Part!Joins(t, x) \/ (Part!Linked(x) /\ ~Part!Leaves(t, x))
      BY <1>9, OnlyList, SameCells DEF Part!RelinksIn, Typed, Cells
    <2>2. \A x \in Nodes : Linked(x) <=> x \in InList(t)
      BY <1>2, <1>4 DEF Alone
    <2>3. \A x : Part!Linked(x)' <=> Linked(x)'
      BY SameCells DEF Part!Linked, Linked, Part!Points, Points
    <2>4. \A x : Part!Linked(x) <=> Linked(x)
      BY SameLinks
    <2>5. QED
      BY <1>11, <2>1, <2>2, <2>3, <2>4, StepInList DEF Typed
  <1>13. lock' /\ \A u \in ThreadIds : Holds(u)' => u = t
    BY <1>4 DEF OneHolder
  <1>14. QED
    BY <1>9, <1>10, <1>12, <1>13, SameCells DEF Alone

\* What the nodes to come look like, in terms of this program.
LEMMA RawAfter ==
  ASSUME Control, UNCHANGED <<next, prev>>, NEW u \in ThreadIds, Part!StillRaw(u),
         phase'[u] = "insert" => /\ phase[u] = "insert"
                                 /\ \/ i'[u] = i[u] /\ (pc'[u] = pc[u] \/ pc[u] \in {"unborn", "lock"})
                                    \/ i'[u] = i[u] + 1
  PROVE  Part!StillRaw(u)'
  <1>1. SUFFICES ASSUME PhaseBar'[u] = "insert"
                 PROVE  Part!StillRaw(u)'
    BY DEF Part!StillRaw
  <1>2. phase'[u] = "insert" /\ phase[u] = "insert" /\ IndexBar[u] = i[u] /\ IndexBar'[u] = i'[u]
    BY <1>1 DEF PhaseBar, IndexBar
  <1>3. PhaseBar[u] = "insert" /\ PcBar[u] = pc[u]
    BY <1>2 DEF PhaseBar, PcBar, Control, ThreadOK, PcsOf, Part!InsertPcs
  <1>4. \A x \in Part!Own(u) : x >= IndexBar[u] /\ ~(x = IndexBar[u] /\ PcBar[u] \in {"empty3", "empty4", "link4", "ret"})
                                => Part!Raw(x)
    BY <1>3 DEF Part!StillRaw
  <1>5. Part!Own(u)' = Part!Own(u) /\ \A x : Part!Raw(x)' <=> Part!Raw(x)
    BY DEF Part!Own, Part!startind, Part!Raw, Part!Cells, Part!Nodes, Part!Heads, Part!HeadOf, Part!numNodes
  <1>6. i[u] \in Int /\ \A x \in Part!Own(u) : x \in Int
    BY OwnIndex
  <1>7. ASSUME NEW x \in Part!Own(u), x >= IndexBar'[u],
               ~(x = IndexBar'[u] /\ PcBar'[u] \in {"empty3", "empty4", "link4", "ret"})
        PROVE  Part!Raw(x)
    <2>1. CASE i'[u] = i[u] /\ pc'[u] = pc[u]
      <3>1. PcBar'[u] = PcBar[u]
        BY <2>1 DEF PcBar
      <3>2. QED
        BY <1>2, <1>4, <1>7, <2>1, <3>1
    <2>2. CASE i'[u] = i[u] /\ pc[u] \in {"unborn", "lock"}
      BY <1>2, <1>3, <1>4, <1>7, <2>2
    <2>3. CASE i'[u] = i[u] + 1
      BY <1>2, <1>4, <1>6, <1>7, <2>3
    <2>4. QED
      BY <1>2, <2>1, <2>2, <2>3
  <1>8. QED
    BY <1>5, <1>7 DEF Part!StillRaw

LEMMA SameLinked ==
  ASSUME UNCHANGED <<next, prev>>
  PROVE  \A x : Linked(x)' <=> Linked(x)
  BY DEF Linked, Points

\* A call that begins on a list at rest.
LEMMA CallWorks ==
  ASSUME NEW t \in ThreadIds, NEW n \in Nat, NEW c \in [0 .. n + 1 -> Part!Cells],
         Part!Chain(0, n, c)', Part!Members(0, n, c)', Part!Quiet(0, n, c)',
         PcBar'[t] \in {"insert", "length", "ret"}
  PROVE  Part!WorksOn(t, 0)'
  <1>1. PICK p \in Nat : p = 0
    OBVIOUS
  <1>2. Part!At(t, 0, n, c, p)'
    BY DEF Part!At, Part!AtEmpty, Part!AtScan, Part!AtLink, Part!AtWalk, Part!AtDelete, Part!DeletePcs
  <1>3. Part!Cells' = Part!Cells
    BY DEF Part!Cells, Part!Nodes, Part!Heads, Part!HeadOf, Part!numNodes
  <1>4. QED
    BY <1>1, <1>2, <1>3 DEF Part!WorksOn

\* The list at rest, with the nodes of t from its index on, is what SortedList_delete()
\* is called with.
LEMMA DeleteWorks ==
  ASSUME NEW t \in ThreadIds, NEW n \in Nat, NEW c \in [0 .. n + 1 -> Part!Cells],
         Part!Chain(0, n, c)', Part!Members(0, n, c)', Part!Quiet(0, n, c)',
         PcBar'[t] = "delete", TempBar'[t] = i'[t], IndexBar'[t] = i'[t],
         Part!On(n, c, i'[t])
  PROVE  Part!WorksOn(t, 0)'
  <1>1. PICK p \in 1 .. n : c[p] = i'[t]
    BY DEF Part!On
  <1>2. Part!Circular(n, c)'
    BY <1>1 DEF Part!Quiet, Part!Unused
  <1>3. Part!At(t, 0, n, c, p)'
    BY <1>1, <1>2 DEF Part!At, Part!AtEmpty, Part!AtScan, Part!AtLink, Part!AtWalk, Part!AtDelete, Part!DeletePcs
  <1>4. Part!Cells' = Part!Cells /\ p \in Nat
    BY DEF Part!Cells, Part!Nodes, Part!Heads, Part!HeadOf, Part!numNodes
  <1>5. QED
    BY <1>3, <1>4 DEF Part!WorksOn

\* Between two calls of the loops, under the lock.
LEMMA NextCallInList ==
  ASSUME Control, UsesLock, NEW t \in ThreadIds, NextCall(t)
  PROVE  InList(t)' = InList(t) /\ (pc'[t] = "delete" => i'[t] \in InList(t)')
  <1>1. /\ pc[t] = "ret" /\ i[t] \in Int /\ i[t] \in Part!Own(t) /\ startind(t) \in Int
        /\ \A x \in Part!Own(t) : x \in Int /\ startind(t) <= x /\ x <= Last(t)
        /\ Last(t) \in Int /\ i[t] <= Last(t)
    BY NextCallMoves, OwnIndex
  <1>2. Part!Own(t)' = Part!Own(t)
    BY DEF Part!Own, Part!startind
  <1>3. CASE phase[t] = "insert"
    <2>1. \A x : x \in InList(t) <=> x \in Part!Own(t) /\ (x < i[t] \/ x = i[t])
      BY <1>1, <1>3 DEF InList
    <2>2. CASE i[t] < Last(t)
      <3>1. \A x : x \in InList(t)' <=> x \in Part!Own(t) /\ x < i[t] + 1
        BY <1>1, <1>2, <1>3, <2>2, NextCallMoves DEF InList
      <3>2. \A x \in Part!Own(t) : x < i[t] + 1 <=> x < i[t] \/ x = i[t]
        BY <1>1
      <3>3. \A x : x \in InList(t)' <=> x \in InList(t)
        BY <2>1, <3>1, <3>2, Zenon
      <3>4. InList(t)' = InList(t)
        BY <3>3 DEF InList
      <3>5. pc'[t] = "insert"
        BY <1>3, <2>2, NextCallMoves
      <3>6. QED
        BY <3>4, <3>5
    <2>3. CASE ~(i[t] < Last(t))
      <3>1. \A x : x \in InList(t)' <=> x \in Part!Own(t)
        BY <1>1, <1>2, <1>3, <2>3, NextCallMoves DEF InList
      <3>2. QED
        BY <1>1, <1>3, <2>1, <2>3, <3>1, NextCallMoves
    <2>4. QED
      BY <2>2, <2>3
  <1>4. CASE phase[t] = "length"
    <2>1. \A x : x \in InList(t) <=> x \in Part!Own(t)
      BY <1>4 DEF InList
    <2>2. i'[t] = startind(t) /\ phase'[t] = "delete" /\ pc'[t] = "delete"
      BY <1>4, NextCallMoves
    <2>3. \A x : x \in InList(t)' <=> x \in Part!Own(t) /\ (x > startind(t) \/ x = startind(t))
      BY <1>2, <2>2 DEF InList
    <2>4. startind(t) \in Part!Own(t)
      BY <1>1, SizesAssumption, ListSizesAssumption, SameCells DEF Part!Own
    <2>5. QED
      BY <1>1, <2>1, <2>2, <2>3, <2>4
  <1>5. CASE phase[t] = "delete"
    <2>1. \A x : x \in InList(t) <=> x \in Part!Own(t) /\ x > i[t]
      BY <1>1, <1>5 DEF InList
    <2>2. CASE i[t] < Last(t)
      <3>1. i'[t] = i[t] + 1 /\ phase'[t] = "delete" /\ pc'[t] = "delete"
        BY <1>5, <2>2, NextCallMoves
      <3>2. \A x : x \in InList(t)' <=> x \in Part!Own(t) /\ (x > i[t] + 1 \/ x = i[t] + 1)
        BY <1>2, <3>1 DEF InList
      <3>3. i[t] + 1 \in Part!Own(t)
        BY <1>1, <2>2, SizesAssumption, SameCells DEF Part!Own, Last
      <3>4. QED
        BY <1>1, <2>1, <3>1, <3>2, <3>3
    <2>3. CASE ~(i[t] < Last(t))
      <3>1. phase'[t] = "delete" /\ pc'[t] = "unlock"
        BY <1>5, <2>3, NextCallMoves
      <3>2. \A x : x \notin InList(t)'
        BY <3>1 DEF InList
      <3>3. QED
        BY <1>1, <2>1, <2>3, <3>1, <3>2
    <2>4. QED
      BY <2>2, <2>3
  <1>6. QED
    BY <1>3, <1>4, <1>5 DEF Control

LEMMA NextCallAlone ==
  ASSUME Typed, Typed', OneHolder, OneHolder', Alone, NEW t \in ThreadIds, NextCall(t)
  PROVE  Alone'
  <1>1. /\ UNCHANGED <<next, prev, key, temp, nextnode, opt_sync, lock>> /\ pc[t] = "ret"
        /\ \A u \in ThreadIds \ {t} : Stays(u)
    BY NextCallMoves DEF Typed, Control, Stays
  <1>2. SUFFICES ASSUME UsesLock PROVE Alone'
    BY <1>1 DEF Alone, UsesLock
  <1>3. Holds(t) /\ pc'[t] \in {"insert", "length", "delete", "unlock"} /\ (pc'[t] = "delete" => phase'[t] = "delete")
    BY <1>1, <1>2, NextCallMoves DEF Holds, ListPcs, Typed
  <1>4. Holds(t)'
    BY <1>1, <1>2, <1>3 DEF Holds, ListPcs, UsesLock
  <1>5. PICK n \in Nat : \E c \in [0 .. n + 1 -> Part!Cells] : \E p \in Nat :
          Part!Chain(0, n, c) /\ Part!Members(0, n, c) /\ Part!At(t, 0, n, c, p)
    BY <1>2, <1>3 DEF Alone, Part!WorksOn
  <1>6. PICK c \in [0 .. n + 1 -> Part!Cells] :
          Part!Chain(0, n, c) /\ Part!Members(0, n, c) /\ Part!Quiet(0, n, c)
    BY <1>1, <1>5 DEF Part!At, PcBar
  <1>7. Part!Chain(0, n, c)' /\ Part!Members(0, n, c)' /\ Part!Quiet(0, n, c)'
    BY <1>1, <1>6, Part!SameChain, Assumed
  <1>8. \A x \in Nodes : Linked(x)' <=> x \in InList(t)'
    BY <1>1, <1>2, <1>3, NextCallInList, SameLinked DEF Alone, Typed
  <1>9. Part!WorksOn(t, 0)'
    <2>1. CASE pc'[t] # "delete"
      <3>1. PcBar'[t] \in {"insert", "length", "ret"}
        BY <1>3, <2>1 DEF PcBar
      <3>2. QED
        BY <1>7, <3>1, CallWorks
    <2>2. CASE pc'[t] = "delete"
      <3>1. PcBar'[t] = "delete" /\ TempBar'[t] = i'[t] /\ IndexBar'[t] = i'[t]
        BY <1>3, <2>2 DEF PcBar, TempBar, IndexBar, DeletePcs
      <3>2. i'[t] \in InList(t)' /\ i'[t] \in Nodes
        <4>1. i'[t] \in InList(t)' /\ i'[t] \in InList(t)
          BY <1>2, <2>2, NextCallInList DEF Typed
        <4>2. i'[t] \in Part!Own(t)
          BY <4>1 DEF InList
        <4>3. QED
          BY <4>1, <4>2, OwnIndex DEF Typed
      <3>3. Part!Linked(i'[t])
        BY <1>1, <1>8, <3>2, SameLinked, SameLinks
      <3>4. Part!On(n, c, i'[t])
        BY <1>6, <3>2, <3>3, OnlyList, SameCells DEF Part!Members, Typed
      <3>5. QED
        BY <1>7, <3>1, <3>4, DeleteWorks
    <2>3. QED
      BY <2>1, <2>2
  <1>10. lock' /\ \A u \in ThreadIds : Holds(u)' => u = t
    BY <1>4 DEF OneHolder
  <1>11. ASSUME NEW u \in ThreadIds
         PROVE  Part!StillRaw(u)'
    <2>1. Part!StillRaw(u) /\ Control
      BY <1>2, <1>11 DEF Alone, Typed
    <2>2. CASE u = t
      BY <1>1, <2>1, <2>2, NextCallMoves, RawAfter
    <2>3. CASE u # t
      BY <1>1, <2>1, <2>3, RawAfter DEF Stays
    <2>4. QED
      BY <2>2, <2>3
  <1>12. QED
    BY <1>8, <1>9, <1>10, <1>11 DEF Alone

\* Taking the lock of an empty list.
LEMMA LockAlone ==
  ASSUME Typed, Typed', OneHolder, OneHolder', Alone, NEW t \in ThreadIds, Lock(t)
  PROVE  Alone'
  <1>1. /\ UNCHANGED <<next, prev, key, temp, nextnode, opt_sync, phase, i>> /\ pc[t] = "lock" /\ ~lock
        /\ pc' = [pc EXCEPT ![t] = "insert"]
    BY DEF Lock, Goto
  <1>2. SUFFICES ASSUME UsesLock PROVE Alone'
    BY <1>1 DEF Alone, UsesLock
  <1>3. pc'[t] = "insert" /\ \A u \in ThreadIds \ {t} : pc'[u] = pc[u]
    BY <1>1 DEF Typed, Control
  <1>4. phase[t] = "insert" /\ i[t] = startind(t)
    BY <1>1 DEF Typed, Control, ThreadOK, PcsOf, Part!LengthPcs, DeletePcs
  <1>5. PICK n \in Nat : n = 0
    OBVIOUS
  <1>6. PICK c \in [0 .. n + 1 -> Part!Cells] : Part!Chain(0, n, c) /\ Part!Quiet(0, n, c)
    BY <1>1, <1>2, <1>5, SameCells DEF Alone, Empty
  <1>7. Part!Members(0, n, c)
    BY <1>1, <1>2, <1>5, SameCells, SameLinks DEF Alone, Empty, Part!Members, Part!On
  <1>8. Part!Chain(0, n, c)' /\ Part!Members(0, n, c)' /\ Part!Quiet(0, n, c)'
    BY <1>1, <1>6, <1>7, Part!SameChain, Assumed
  <1>9. Part!WorksOn(t, 0)'
    BY <1>3, <1>8, CallWorks DEF PcBar
  <1>10. \A x \in Nodes : Linked(x)' <=> x \in InList(t)'
    <2>1. \A x \in Part!Own(t) : ~(x < startind(t)) /\ x \in Int
      BY OwnIndex DEF Typed
    <2>2. InList(t)' = {x \in Part!Own(t) : x < startind(t)}
      BY <1>1, <1>3, <1>4 DEF InList, Part!Own, Part!startind
    <2>3. QED
      BY <1>1, <1>2, <2>1, <2>2, SameLinked DEF Alone, Empty
  <1>11. Holds(t)'
    BY <1>1, <1>2, <1>3 DEF Holds, UsesLock, ListPcs
  <1>12. lock' /\ \A u \in ThreadIds : Holds(u)' => u = t
    BY <1>11 DEF OneHolder
  <1>13. \A u \in ThreadIds : Part!StillRaw(u)'
    BY <1>1, <1>2, <1>3, RawAfter DEF Alone, Typed
  <1>14. QED
    BY <1>9, <1>10, <1>12, <1>13 DEF Alone

\* Nothing is left in the list when the lock is released.
LEMMA UnlockAlone ==
  ASSUME Typed, Typed', OneHolder, OneHolder', Alone, NEW t \in ThreadIds, Unlock(t)
  PROVE  Alone'
  <1>1. /\ UNCHANGED <<next, prev, key, temp, nextnode, opt_sync, phase, i>> /\ pc[t] = "unlock" /\ lock' = FALSE
        /\ pc' = [pc EXCEPT ![t] = "done"]
    BY DEF Unlock, Goto
  <1>2. SUFFICES ASSUME UsesLock PROVE Alone'
    BY <1>1 DEF Alone, UsesLock
  <1>3. Holds(t) /\ phase[t] = "delete"
    BY <1>1, <1>2 DEF Holds, Typed, Control, ThreadOK, PcsOf, Part!InsertPcs, Part!LengthPcs
  <1>4. \A x \in Nodes : ~Linked(x)
    BY <1>1, <1>2, <1>3 DEF Alone, InList
  <1>5. PICK n \in Nat : \E c \in [0 .. n + 1 -> Part!Cells] : \E p \in Nat :
          Part!Chain(0, n, c) /\ Part!Members(0, n, c) /\ Part!At(t, 0, n, c, p)
    BY <1>2, <1>3 DEF Alone, Part!WorksOn
  <1>6. PICK c \in [0 .. n + 1 -> Part!Cells] :
          Part!Chain(0, n, c) /\ Part!Members(0, n, c) /\ Part!Quiet(0, n, c)
    BY <1>1, <1>5 DEF Part!At, PcBar
  <1>7. n = 0
    <2>1. SUFFICES ASSUME n # 0 PROVE FALSE
      OBVIOUS
    <2>2. 1 \in 1 .. n
      BY <2>1
    <2>3. c[1] \in Nodes /\ key[c[1]] % num_lists = 0 /\ Part!On(n, c, c[1])
      BY <1>6, <2>2, SameCells DEF Part!Chain, Part!On
    <2>4. QED
      BY <1>4, <1>6, <2>3, SameCells, SameLinks DEF Part!Members
  <1>8. Part!Chain(0, n, c)' /\ Part!Quiet(0, n, c)'
    BY <1>1, <1>6, Part!SameChain, Assumed
  <1>9. Empty'
    BY <1>1, <1>4, <1>7, <1>8, SameLinked, SameCells DEF Empty
  <1>10. \A u \in ThreadIds : ~Holds(u)'
    BY <1>1 DEF OneHolder
  <1>11. \A u \in ThreadIds : Part!StillRaw(u)'
    <2>1. \A u \in ThreadIds : pc'[u] = pc[u] \/ u = t
      BY <1>1 DEF Typed, Control
    <2>2. QED
      BY <1>1, <1>2, <1>3, <2>1, RawAfter DEF Alone, Typed
  <1>12. QED
    BY <1>9, <1>10, <1>11 DEF Alone

\* The other steps neither touch the list nor take or release its lock.
LEMMA SameWork ==
  ASSUME UNCHANGED <<next, prev, key, temp, nextnode, phase, i>>, NEW u \in ThreadIds, pc'[u] = pc[u],
         Part!WorksOn(u, 0)
  PROVE  Part!WorksOn(u, 0)'
  <1>1. PICK n \in Nat : \E c \in [0 .. n + 1 -> Part!Cells] : \E p \in Nat :
          Part!Chain(0, n, c) /\ Part!Members(0, n, c) /\ Part!At(u, 0, n, c, p)
    BY DEF Part!WorksOn
  <1>2. PICK c \in [0 .. n + 1 -> Part!Cells], p \in Nat :
          Part!Chain(0, n, c) /\ Part!Members(0, n, c) /\ Part!At(u, 0, n, c, p)
    BY <1>1
  <1>3. Part!Chain(0, n, c)' /\ Part!Members(0, n, c)'
    BY <1>2, Part!SameChain, Assumed
  <1>4. PcBar'[u] = PcBar[u] /\ TempBar'[u] = TempBar[u] /\ IndexBar'[u] = IndexBar[u]
    BY DEF PcBar, TempBar, IndexBar
  <1>5. /\ Part!Forward(n, c)' <=> Part!Forward(n, c)
        /\ Part!Backward(n, c)' <=> Part!Backward(n, c)
        /\ \A q : Part!ForwardBut(n, c, q)' <=> Part!ForwardBut(n, c, q)
        /\ \A q : Part!BackwardBut(n, c, q)' <=> Part!BackwardBut(n, c, q)
    BY DEF Part!Forward, Part!Backward, Part!ForwardBut, Part!BackwardBut
  <1>6. /\ Part!Unused(0, n)' <=> Part!Unused(0, n)
        /\ Part!HeadOf(0)' = Part!HeadOf(0) /\ Part!Cells' = Part!Cells
    BY DEF Part!Unused, Part!Cells, Part!Nodes, Part!Heads, Part!HeadOf, Part!numNodes
  <1>7. /\ Part!Circular(n, c)' <=> Part!Circular(n, c)
        /\ Part!Quiet(0, n, c)' <=> Part!Quiet(0, n, c)
    BY <1>5, <1>6 DEF Part!Circular, Part!Quiet
  <1>8. Part!AtEmpty(u, 0, n, c)' <=> Part!AtEmpty(u, 0, n, c)
    BY <1>4, <1>5, <1>6 DEF Part!AtEmpty
  <1>9. Part!AtScan(u, n, c, p)' <=> Part!AtScan(u, n, c, p)
    BY <1>4, <1>7 DEF Part!AtScan
  <1>10. Part!AtLink(u, n, c, p)' <=> Part!AtLink(u, n, c, p)
    BY <1>4, <1>5 DEF Part!AtLink
  <1>11. Part!AtWalk(u, 0, n, c, p)' <=> Part!AtWalk(u, 0, n, c, p)
    BY <1>4, <1>7 DEF Part!AtWalk
  <1>12. Part!AtDelete(u, n, c, p)' <=> Part!AtDelete(u, n, c, p)
    BY <1>4, <1>5, <1>7 DEF Part!AtDelete
  <1>13. Part!At(u, 0, n, c, p)'
    BY <1>2, <1>4, <1>7, <1>8, <1>9, <1>10, <1>11, <1>12 DEF Part!At
  <1>14. QED
    BY <1>3, <1>6, <1>13 DEF Part!WorksOn

LEMMA OtherAlone ==
  ASSUME Typed, Alone, UNCHANGED <<next, prev, key, temp, nextnode, opt_sync, lock, phase, i>>,
         \A u \in ThreadIds : \/ pc'[u] = pc[u]
                              \/ pc[u] = "unborn" /\ pc'[u] = IF UsesLock THEN "lock" ELSE "insert"
  PROVE  Alone'
  <1>1. SUFFICES ASSUME UsesLock PROVE Alone'
    BY DEF Alone, UsesLock
  <1>2. ASSUME NEW u \in ThreadIds, Holds(u)'
        PROVE  Part!WorksOn(u, 0)' /\ \A x \in Nodes : Linked(x)' <=> x \in InList(u)'
    <2>1. pc'[u] = pc[u] /\ Holds(u)
      BY <1>1, <1>2 DEF Holds, UsesLock, ListPcs
    <2>2. Part!WorksOn(u, 0) /\ \A x \in Nodes : Linked(x) <=> x \in InList(u)
      BY <1>1, <2>1 DEF Alone
    <2>3. InList(u)' = InList(u)
      BY <2>1 DEF InList, Part!Own, Part!startind
    <2>4. QED
      BY <2>1, <2>2, <2>3, SameWork, SameLinked
  <1>3. ~lock => Empty'
    <2>1. SUFFICES ASSUME ~lock PROVE Empty'
      OBVIOUS
    <2>2. PICK c \in [0 .. 1 -> Cells] : Part!Chain(0, 0, c) /\ Part!Quiet(0, 0, c)
      BY <1>1, <2>1 DEF Alone, Empty
    <2>3. Part!Members(0, 0, c)
      BY <1>1, <2>1, SameCells, SameLinks DEF Alone, Empty, Part!Members, Part!On
    <2>4. Part!Chain(0, 0, c)' /\ Part!Quiet(0, 0, c)'
      BY <2>2, <2>3, Part!SameChain, Assumed
    <2>5. Cells' = Cells
      BY DEF Cells, Nodes, Heads, HeadOf, numNodes
    <2>6. QED
      BY <1>1, <2>1, <2>2, <2>4, <2>5, SameLinked DEF Alone, Empty
  <1>4. \A u \in ThreadIds : Part!StillRaw(u)'
    BY <1>1, RawAfter DEF Alone, Typed
  <1>5. QED
    BY <1>2, <1>3, <1>4 DEF Alone

LEMMA StepAlone == Typed /\ Typed' /\ OneHolder /\ OneHolder' /\ Alone /\ [Next]_vars => Alone'
  <1> SUFFICES ASSUME Typed, Typed', OneHolder, OneHolder', Alone, [Next]_vars PROVE Alone'
    OBVIOUS
  <1>1. CASE \E t \in ThreadIds : Die(t)
    BY <1>1, OtherAlone DEF Die, threadVars
  <1>2. CASE Main
    <2>1. UNCHANGED <<next, prev, key, temp, nextnode, opt_sync, lock, phase, i>>
      BY <1>2 DEF Main, CreateThread, CreateFails, AllCreated, JoinThread, AllJoined, Report, threadVars
    <2>2. CASE CreateThread
      <3>1. mi \in ThreadIds /\ pc[mi] = "unborn" /\ pc' = [pc EXCEPT ![mi] = IF UsesLock THEN "lock" ELSE "insert"]
        BY <2>2, SizesAssumption DEF CreateThread, Goto, Typed, Control, ThreadIds
      <3>2. \A u \in ThreadIds : pc'[u] = pc[u] \/ (pc[u] = "unborn" /\ pc'[u] = IF UsesLock THEN "lock" ELSE "insert")
        BY <3>1 DEF Typed, Control
      <3>3. QED
        BY <2>1, <3>2, OtherAlone
    <2>3. CASE ~CreateThread
      BY <1>2, <2>1, <2>3, OtherAlone DEF Main, CreateFails, AllCreated, JoinThread, AllJoined, Report
    <2>4. QED
      BY <2>2, <2>3
  <1>3. CASE UNCHANGED vars
    BY <1>3, OtherAlone DEF vars, listVars
  <1>4. QED
    BY <1>1, <1>2, <1>3, ListStepAlone, NextCallAlone, LockAlone, UnlockAlone DEF Next, Ended, Thread

LEMMA InitAlone == Init => OneHolder /\ Alone
  <1> SUFFICES ASSUME Init PROVE OneHolder /\ Alone
    OBVIOUS
  <1>1. PICK garbage \in {NULL, Wild} : /\ next = [c \in Cells |-> IF c \in Nodes THEN garbage ELSE NULL]
                                        /\ prev = next
    BY DEF Init, ListsInit
  <1>2. garbage \notin Cells /\ NULL \notin Cells /\ Nodes \subseteq Cells
    BY PointersAssumption DEF Cells
  <1>3. \A x \in Nodes : Part!Raw(x) /\ ~Linked(x)
    <2>1. \A x \in Nodes : next[x] = garbage /\ prev[x] = garbage
      BY <1>1, <1>2
    <2>2. QED
      BY <1>2, <2>1, SameCells DEF Part!Raw, Linked, Points
  <1>4. \A t \in ThreadIds : ~Holds(t)
    BY DEF Init, Holds, ListPcs
  <1>5. HeadOf(0) \in Cells /\ HeadOf(0) \notin Nodes
    BY SyncAssumption, SizesAssumption DEF Cells, Heads, HeadOf, Nodes, numNodes
  <1>6. Empty
    <2>1. PICK c \in [0 .. 1 -> Cells] : c[0] = HeadOf(0) /\ c[1] = HeadOf(0)
      <3> DEFINE d == [k \in 0 .. 1 |-> HeadOf(0)]
      <3>1. d \in [0 .. 1 -> Cells] /\ d[0] = HeadOf(0) /\ d[1] = HeadOf(0)
        BY <1>5
      <3>2. QED
        BY <3>1
    <2>2. Part!Chain(0, 0, c)
      BY <2>1, SameCells DEF Part!Chain
    <2>3. Part!Quiet(0, 0, c)
      BY <1>1, <1>5, SameCells DEF Part!Quiet, Part!Unused
    <2>4. QED
      BY <1>3, <2>1, <2>2, <2>3 DEF Empty
  <1>7. \A t \in ThreadIds : Part!StillRaw(t)
    BY <1>3, OwnIndex, InitControl DEF Part!StillRaw
  <1>8. QED
    BY <1>4, <1>6, <1>7 DEF Alone, OneHolder, Init

IInv == Typed /\ OneHolder /\ Alone

LEMMA Always == Spec => []IInv
  <1>1. Init => IInv
    BY InitTyped, InitAlone DEF IInv
  <1>2. IInv /\ [Next]_vars => IInv'
    BY StepTyped, StepHolder, StepAlone DEF IInv, Typed
  <1>3. QED
    BY <1>1, <1>2, PTL DEF Spec

-----------------------------------------------------------------------------
(* The theorems. *)

LEMMA OwnerOfNode ==
  ASSUME NEW t \in ThreadIds, NEW x \in Part!Own(t)
  PROVE  x \in Nodes /\ Owner(x) = t
  <1>1. x \in Int /\ x - t * iterations \in 0 .. iterations - 1 /\ x \in Nodes
    BY Part!OwnNodes, Assumed, SameCells DEF Part!Own, startind
  <1>2. t \in Nat /\ iterations \in Nat /\ iterations > 0
    BY SizesAssumption, ListSizesAssumption DEF ThreadIds
  <1>3. x \div iterations = t
    BY <1>1, <1>2
  <1>4. QED
    BY <1>1, <1>3 DEF Owner

\* Type correctness: no pointer of lab2a/lab2_list.c ever points anywhere but to a node,
\* the head or where malloc left it, and a thread never leaves its part of nodelist.
THEOREM TypesCorrect == Spec => []TypeOK
  <1>1. ASSUME IInv PROVE TypeOK
    <2>1. Control /\ TempOK /\ Part!Apart /\ lock \in BOOLEAN
      BY <1>1 DEF IInv, Typed, OneHolder
    <2>2. /\ next \in [Cells -> Cells \cup {NULL, Wild}] /\ prev \in [Cells -> Cells \cup {NULL, Wild}]
          /\ nextnode \in [ThreadIds -> Cells \cup {NULL, Wild}]
      BY <2>1, SameCells DEF Part!Apart, Part!LinksWithin, Part!Pointers
    <2>3. \A t \in ThreadIds : i[t] \in Nodes /\ Owner(i[t]) = t
      BY <2>1, OwnIndex, OwnerOfNode
    <2>4. DOMAIN key = Cells /\ \A c \in Cells : IF c \in Nodes THEN key[c] \in Keys ELSE key[c] = NULL
      BY <2>1 DEF Control, Cells
    <2>5. QED
      BY <2>1, <2>2, <2>3, <2>4 DEF TypeOK, ListsTypeOK, Control, TempOK
  <1>2. QED
    BY <1>1, Always, PTL

\* Under the mutex or the spin lock of lab2a/lab2_list.c nothing is in the list but nodes
\* of the thread between taking the lock and releasing it, and whoever finds the lock free
\* finds the list empty and linked to itself.
THEOREM NobodyElseInTheList == Spec => []OwnNodesOnly
  <1>1. ASSUME IInv PROVE OwnNodesOnly
    <2>1. SUFFICES ASSUME UsesLock
                   PROVE  /\ \A n \in Nodes : Linked(n) => Holds(Owner(n))
                          /\ ~lock => Sound(0) /\ Walk(0) = {list}
      BY DEF OwnNodesOnly
    <2>2. ASSUME NEW x \in Nodes, Linked(x)
          PROVE  Holds(Owner(x))
      <3>1. lock
        BY <1>1, <2>1, <2>2 DEF IInv, Alone, Empty
      <3>2. PICK t \in ThreadIds : Holds(t)
        BY <1>1, <3>1 DEF IInv, OneHolder
      <3>3. x \in InList(t)
        BY <1>1, <2>1, <2>2, <3>2 DEF IInv, Alone
      <3>4. x \in Part!Own(t)
        BY <3>3 DEF InList
      <3>5. QED
        BY <3>2, <3>4, OwnerOfNode
    <2>3. ASSUME ~lock
          PROVE  Sound(0) /\ Walk(0) = {list}
      <3>1. PICK c \in [0 .. 1 -> Cells] : Part!Chain(0, 0, c) /\ Part!Quiet(0, 0, c)
        BY <1>1, <2>1, <2>3 DEF IInv, Alone, Empty
      <3>2. Part!Members(0, 0, c)
        BY <1>1, <2>1, <2>3, SameCells, SameLinks DEF IInv, Alone, Empty, Part!Members, Part!On
      <3>3. 0 \in Part!Lists /\ Part!Control
        BY <1>1, SameCells, BarControl DEF IInv, Typed
      <3>4. Part!Sound(0)
        BY <3>1, <3>2, <3>3, Part!QuietIsSound, Assumed
      <3>5. Part!Walk(0) = {Part!HeadOf(0)} \cup {c[k] : k \in 1 .. 0}
        BY <3>1, <3>3, Part!WalkOfChain, Assumed
      <3>6. QED
        BY <3>4, <3>5, SameLinks, SameCells DEF list
    <2>4. QED
      BY <2>2, <2>3
  <1>2. QED
    BY <1>1, Always, PTL

\* With the lock, a thread that calls SortedList_delete() finds the list properly linked
\* and in it, besides the head, exactly the nodes that it has still to delete.
THEOREM FindsWhatItInserted == Spec => []DeletesWhatItInserted
  <1>1. ASSUME IInv PROVE DeletesWhatItInserted
    <2>1. SUFFICES ASSUME UsesLock, NEW t \in ThreadIds, pc[t] = "delete"
                   PROVE  Sound(0) /\ Walk(0) \ {list} = i[t] .. Last(t)
      BY DEF DeletesWhatItInserted
    <2>2. Control /\ Part!Control /\ 0 \in Part!Lists /\ Holds(t)
      BY <1>1, <2>1, SameCells, BarControl DEF IInv, Typed, Holds, ListPcs
    <2>3. Part!WorksOn(t, 0) /\ \A x \in Nodes : Linked(x) <=> x \in InList(t)
      BY <1>1, <2>1, <2>2 DEF IInv, Alone
    <2>4. PICK n \in Nat : \E c \in [0 .. n + 1 -> Part!Cells] : \E p \in Nat :
            Part!Chain(0, n, c) /\ Part!Members(0, n, c) /\ Part!At(t, 0, n, c, p)
      BY <2>3 DEF Part!WorksOn
    <2>5. PICK c \in [0 .. n + 1 -> Part!Cells] :
            Part!Chain(0, n, c) /\ Part!Members(0, n, c) /\ Part!Quiet(0, n, c)
      BY <2>1, <2>4 DEF Part!At, Part!AtDelete, Part!DeletePcs, Part!Quiet, PcBar
    <2>6. Part!Sound(0) /\ Part!Walk(0) \ {Part!HeadOf(0)}
                            = {x \in Part!Nodes : Part!Linked(x) /\ key[x] % num_lists = 0}
      BY <2>2, <2>5, Part!QuietIsSound, Assumed
    <2>7. Walk(0) \ {list} = {x \in Nodes : Linked(x)}
      BY <2>2, <2>6, OnlyList, SameCells, SameLinks DEF list
    <2>8. phase[t] = "delete" /\ Part!Own(t) \subseteq Nodes
      BY <2>1, <2>2, OwnIndex DEF Control, ThreadOK, PcsOf, Part!InsertPcs, Part!LengthPcs
    <2>9. InList(t) = {x \in Part!Own(t) : x > i[t] \/ x = i[t]}
      BY <2>1, <2>8 DEF InList
    <2>10. \A x : x \in InList(t) <=> x \in i[t] .. Last(t)
      BY <2>2, <2>9, OwnIndex, SizesAssumption, SameCells DEF Part!Own, Last
    <2>11. Walk(0) \ {list} = i[t] .. Last(t)
      BY <2>3, <2>7, <2>8, <2>9, <2>10
    <2>12. QED
      BY <2>6, <2>11, SameLinks
  <1>2. QED
    BY <1>1, Always, PTL
-----------------------------------------------------------------------------
(* How it ends. *)

\* A thread that has been joined is done.
AllDone ==
  /\ mainpc = "join" => \A t \in ThreadIds : t < mi => pc[t] = "done"
  /\ mainpc = "report" => \A t \in ThreadIds : pc[t] = "done"

\* With the lock no deletion fails, nobody follows a bad pointer, and a program
\* that comes to its report ends with status 0.
NoDeath ==
  UsesLock =>
    /\ \A t \in ThreadIds : pc[t] # "fail"
    /\ exit # DeathByCorruption
    /\ mainpc = "report" => exit \in {Running, 0}

LEMMA StepAllDone ==
  ASSUME Typed, AllDone, [Next]_vars
  PROVE  AllDone'
  <1>1. pc \in [ThreadIds -> ListPcs \cup {"unborn", "lock", "unlock", "done"}] /\ mi \in 0 .. threads
        /\ ThreadIds = 0 .. threads - 1 /\ threads \in Nat
    BY SizesAssumption DEF Typed, Control, ThreadIds
  <1>2. CASE \E t \in ThreadIds : Thread(t)
    <2>1. PICK t \in ThreadIds : Thread(t)
      BY <1>2
    <2>2. pc[t] # "done" /\ \A u \in ThreadIds : u # t => pc'[u] = pc[u]
      <3>1. CASE ListStep(t)
        <4>1. pc[t] \in StepPcs /\ \E label \in ListPcs : pc' = [pc EXCEPT ![t] = label]
          BY <3>1, ListStepMoves DEF Typed
        <4>2. QED
          BY <1>1, <4>1 DEF StepPcs, Part!InsertPcs, Part!LengthPcs, DeletePcs
      <3>2. CASE NextCall(t)
        BY <1>1, <3>2, NextCallMoves DEF Typed
      <3>3. CASE Lock(t) \/ Unlock(t) \/ Die(t)
        BY <1>1, <3>3 DEF Lock, Unlock, Die, Goto
      <3>4. QED
        BY <2>1, <3>1, <3>2, <3>3 DEF Thread
    <2>3. UNCHANGED <<mainpc, mi>>
      BY <2>1 DEF Thread
    <2>4. QED
      BY <2>2, <2>3 DEF AllDone
  <1>3. CASE Main
    <2>1. CASE CreateThread \/ CreateFails \/ AllCreated
      BY <1>1, <2>1 DEF CreateThread, CreateFails, AllCreated, AllDone
    <2>2. CASE JoinThread
      BY <1>1, <2>2 DEF JoinThread, AllDone
    <2>3. CASE AllJoined
      BY <1>1, <2>3 DEF AllJoined, AllDone
    <2>4. CASE Report
      BY <2>4 DEF Report, AllDone
    <2>5. QED
      BY <1>3, <2>1, <2>2, <2>3, <2>4 DEF Main
  <1>4. CASE UNCHANGED vars
    BY <1>4 DEF vars, listVars, AllDone
  <1>5. QED
    BY <1>2, <1>3, <1>4 DEF Next, Ended

\* The holder of the lock is never at a bad pointer, and the node that it is about
\* to delete is linked both ways.
LEMMA HolderIsSafe ==
  ASSUME IInv, UsesLock, NEW t \in ThreadIds, pc[t] \in ListPcs
  PROVE  /\ pc[t] # "segv"
         /\ Delete(t, i[t]) \/ DeleteCheck(t, i[t]) => pc'[t] # "fail"
  <1>1. Holds(t) /\ Control /\ TempOK
    BY DEF Holds, IInv, Typed
  <1>2. PICK n \in Nat : \E c \in [0 .. n + 1 -> Part!Cells] : \E p \in Nat :
          Part!Chain(0, n, c) /\ Part!Members(0, n, c) /\ Part!At(t, 0, n, c, p)
    BY <1>1 DEF IInv, Alone, Part!WorksOn
  <1>3. PICK c \in [0 .. n + 1 -> Part!Cells], p \in Nat : Part!Chain(0, n, c) /\ Part!At(t, 0, n, c, p)
    BY <1>2
  <1>4. PcBar[t] = pc[t]
    BY DEF PcBar, ListPcs
  <1>5. pc[t] # "segv"
    BY <1>3, <1>4 DEF Part!At
  <1>6. ASSUME Delete(t, i[t]) \/ DeleteCheck(t, i[t])
        PROVE  pc'[t] # "fail"
    <2>1. pc[t] \in {"delete", "check"} /\ phase[t] = "delete"
      BY <1>1, <1>6 DEF Delete, DeleteCheck, Control, ThreadOK, PcsOf, Part!InsertPcs, Part!LengthPcs
    <2>2. TempBar[t] = i[t]
      BY <2>1 DEF TempBar, DeletePcs
    <2>3. p \in 1 .. n /\ c[p] = i[t] /\ Part!Circular(n, c)
      BY <1>3, <1>4, <2>1, <2>2 DEF Part!At, Part!AtDelete, Part!DeletePcs
    <2>4. next[i[t]] = c[p + 1] /\ prev[i[t]] = c[p - 1]
      BY <2>3 DEF Part!Circular, Part!Forward, Part!Backward
    <2>5. prev[c[p + 1]] = c[p] /\ next[c[p - 1]] = c[p]
      BY <2>3 DEF Part!Circular, Part!Forward, Part!Backward
    <2>6. c[p + 1] # NULL /\ c[p - 1] # NULL
      BY <2>3, SameCells, PointersAssumption
    <2>7. \E label \in {"check", "segv", "unlink1"} : pc' = [pc EXCEPT ![t] = label]
      BY <1>6, <2>4, <2>5, <2>6 DEF Delete, DeleteCheck, Goto
    <2>8. QED
      BY <1>1, <2>7 DEF Control
  <1>7. QED
    BY <1>5, <1>6

LEMMA ListStepNeverFails ==
  ASSUME IInv, UsesLock, NEW t \in ThreadIds, ListStep(t)
  PROVE  pc'[t] # "fail"
  <1>1. \A label : Goto(t, label) => pc'[t] = label
    BY DEF Goto, IInv, Typed, Control
  <1>2. pc[t] \in ListPcs
    BY ListStepMoves DEF IInv, Typed, StepPcs, Part!InsertPcs, Part!LengthPcs, DeletePcs, ListPcs
  <1>3. CASE InsertStep(t, list, i[t])
    BY <1>1, <1>3 DEF InsertStep, Insert, EmptyLink, ScanHead, ScanCompare, ScanAdvance, TakeNextNode, Link
  <1>4. CASE Length(t, list) \/ LengthStep(t, list)
    BY <1>1, <1>4 DEF Length, LengthStep
  <1>5. CASE DeleteStep(t, i[t])
    <2>1. CASE Delete(t, i[t]) \/ DeleteCheck(t, i[t])
      BY <1>2, <2>1, HolderIsSafe
    <2>2. CASE Unlink(t, i[t])
      BY <1>1, <2>2 DEF Unlink
    <2>3. QED
      BY <1>5, <2>1, <2>2 DEF DeleteStep
  <1>6. QED
    BY <1>3, <1>4, <1>5 DEF ListStep

LEMMA ReportsEmpty ==
  ASSUME IInv, AllDone, UsesLock, Report
  PROVE  exit' = 0
  <1>1. ~lock
    BY DEF IInv, OneHolder, AllDone, Report, Holds, ListPcs
  <1>2. PICK c \in [0 .. 1 -> Cells] : Part!Chain(0, 0, c) /\ Part!Quiet(0, 0, c)
    BY <1>1 DEF IInv, Alone, Empty
  <1>3. c[0] = HeadOf(0) /\ c[1] = HeadOf(0)
    BY <1>2, SameCells DEF Part!Chain
  <1>4. next[HeadOf(0)] \in {NULL, HeadOf(0)}
    BY <1>2, <1>3, SameCells DEF Part!Quiet, Part!Unused, Part!Circular, Part!Forward
  <1>5. QED
    BY <1>1, <1>4 DEF Report, list

LEMMA StepNoDeath ==
  ASSUME IInv, AllDone, NoDeath, [Next]_vars
  PROVE  NoDeath'
  <1>1. Control /\ TempOK
    BY DEF IInv, Typed
  <1>2. opt_sync' = opt_sync
    BY <1>1, ListStepMoves, NextCallMoves
       DEF Next, Thread, Main, Ended, Lock, Unlock, Die, vars, threadVars,
           CreateThread, CreateFails, AllCreated, JoinThread, AllJoined, Report
  <1>3. SUFFICES ASSUME UsesLock
                 PROVE  /\ \A t \in ThreadIds : pc'[t] # "fail"
                        /\ exit' # DeathByCorruption
                        /\ mainpc' = "report" => exit' \in {Running, 0}
    BY <1>2 DEF NoDeath, UsesLock
  <1>4. /\ \A t \in ThreadIds : pc[t] # "fail"
        /\ exit # DeathByCorruption
        /\ mainpc = "report" => exit \in {Running, 0}
    BY <1>3 DEF NoDeath
  <1>5. CASE \E t \in ThreadIds : Thread(t)
    <2>1. PICK t \in ThreadIds : Thread(t)
      BY <1>5
    <2>2. ~Die(t)
      <3>1. CASE pc[t] \in ListPcs
        BY <1>3, <1>4, <3>1, HolderIsSafe DEF Die
      <3>2. CASE pc[t] \notin ListPcs
        BY <3>2 DEF Die, ListPcs
      <3>3. QED
        BY <3>1, <3>2
    <2>3. UNCHANGED <<exit, mainpc>>
      BY <2>1, <2>2 DEF Thread
    <2>4. pc'[t] # "fail" /\ \A u \in ThreadIds : u # t => pc'[u] = pc[u]
      <3>1. CASE ListStep(t)
        <4>1. \E label \in ListPcs : pc' = [pc EXCEPT ![t] = label]
          BY <1>1, <3>1, ListStepMoves
        <4>2. QED
          BY <1>1, <1>3, <3>1, <4>1, ListStepNeverFails DEF Control
      <3>2. CASE NextCall(t)
        BY <1>1, <3>2, NextCallMoves DEF Control
      <3>3. CASE Lock(t) \/ Unlock(t)
        BY <1>1, <3>3 DEF Lock, Unlock, Goto, Control
      <3>4. QED
        BY <2>1, <2>2, <3>1, <3>2, <3>3 DEF Thread
    <2>5. QED
      BY <1>4, <2>3, <2>4
  <1>6. CASE Main
    <2>1. CASE CreateThread
      BY <1>1, <1>3, <1>4, <2>1 DEF CreateThread, Goto, Control
    <2>2. CASE CreateFails
      BY <1>4, <2>2 DEF CreateFails, DeathByCorruption
    <2>3. CASE AllCreated \/ JoinThread
      BY <1>4, <2>3 DEF AllCreated, JoinThread
    <2>4. CASE AllJoined
      BY <1>4, <1>6, <2>4 DEF AllJoined, Main
    <2>5. CASE Report
      <3>1. exit' = 0
        BY <1>3, <2>5, ReportsEmpty
      <3>2. QED
        BY <1>4, <2>5, <3>1 DEF Report, DeathByCorruption
    <2>6. QED
      BY <1>6, <2>1, <2>2, <2>3, <2>4, <2>5 DEF Main
  <1>7. CASE UNCHANGED vars
    BY <1>4, <1>7 DEF vars, listVars
  <1>8. QED
    BY <1>5, <1>6, <1>7 DEF Next, Ended

\* With its lock on, lab2a/lab2_list.c never exits with status 2: no deletion fails, no
\* bad pointer is followed, and when all threads have been joined the list is empty, so
\* that the program that comes to its report ends with status 0.
THEOREM NeverDiesOfCorruption ==
  Spec => [](UsesLock => exit # DeathByCorruption /\ (mainpc = "report" => exit \in {Running, 0}))
  <1>1. Init => AllDone /\ NoDeath
    BY DEF Init, AllDone, NoDeath, Running, DeathByCorruption
  <1>2. IInv /\ AllDone /\ NoDeath /\ [Next]_vars => AllDone' /\ NoDeath'
    BY StepAllDone, StepNoDeath DEF IInv
  <1>3. Spec => [](AllDone /\ NoDeath)
    BY <1>1, <1>2, Always, PTL DEF Spec
  <1>4. NoDeath => (UsesLock => exit # DeathByCorruption /\ (mainpc = "report" => exit \in {Running, 0}))
    BY DEF NoDeath
  <1>5. QED
    BY <1>3, <1>4, PTL
=============================================================================
