------------------------- MODULE AddCounter_proofs -------------------------
(***************************************************************************)
(* Proofs about AddCounter, for every number of threads and iterations.    *)
(***************************************************************************)
EXTENDS AddCounter, FiniteSetTheorems, TLAPS

\* Where a thread can be under each --sync, and what it has loaded there: a
\* value that is still the counter's if nobody else can have stored.
PcInv ==
  \A t \in ThreadIds :
    /\ pc[t] \in {"lock", "unlock"} => UsesLock
    /\ pc[t] = "cas" => opt_sync = "c"
    /\ pc[t] = "store" => opt_sync # "c"
    /\ pc[t] \in {"unborn", "done"} => value[t] = 1
    /\ pc[t] \notin {"unborn", "done"} => i[t] < iterations
    /\ pc[t] = "unborn" => i[t] = 0
    /\ Exact /\ pc[t] = "store" => loaded[t] = counter

\* main joins thread after thread, so the ones before mi are done.
JoinInv ==
  /\ mainpc = "create" => \A t \in ThreadIds : t >= mi => pc[t] = "unborn"
  /\ mainpc = "join" => \A t \in ThreadIds : t < mi => pc[t] = "done"
  /\ mainpc = "report" => \A t \in ThreadIds : pc[t] = "done"
  /\ exit = 0 => mainpc = "report"

\* The inductive invariant.
IInv == TypeOK /\ LockProtects /\ PcInv /\ JoinInv /\ CounterAccounted

-----------------------------------------------------------------------------
(* One step of a thread. *)

LEMMA LabelTypes ==
  /\ EntryPoint \in {"lock", "load"}
  /\ EntryPoint = "lock" <=> UsesLock
  /\ {"unborn", "lock", "load", "store", "unlock", "cas", "done"} = PcLabels
  BY DEF EntryPoint, PcLabels

\* What returning from an add does to the thread's registers.
LEMMA ReturnEffect ==
  ASSUME TypeOK, NEW t \in ThreadIds, i[t] < iterations, Return(t)
  PROVE  /\ \E l \in {EntryPoint, "done"} :
              /\ pc' = [pc EXCEPT ![t] = l]
              /\ l = "done" => value'[t] = 1
              /\ l # "done" => i'[t] < iterations
         /\ value' = [value EXCEPT ![t] = IF value[t] = 1 THEN -1 ELSE 1]
         /\ i' = IF value[t] = 1 THEN i ELSE [i EXCEPT ![t] = i[t] + 1]
         /\ pc' \in [ThreadIds -> PcLabels]
         /\ value' \in [ThreadIds -> {1, -1}]
         /\ i' \in [ThreadIds -> 0 .. iterations]
  <1> USE CountsAssumption
  <1>1. CASE value[t] = 1
    BY <1>1, LabelTypes DEF Return, Goto, TypeOK, PcLabels
  <1>2. CASE value[t] # 1
    <2>1. value[t] = -1
      BY <1>2 DEF TypeOK
    <2>2. i' = [i EXCEPT ![t] = i[t] + 1] /\ value' = [value EXCEPT ![t] = 1]
      BY <1>2 DEF Return
    <2>3. i[t] + 1 \in 0 .. iterations /\ i'[t] = i[t] + 1
      BY <2>2 DEF TypeOK
    <2>4. pc' = [pc EXCEPT ![t] = IF i[t] + 1 < iterations THEN EntryPoint ELSE "done"]
      BY <1>2 DEF Return, Goto, MoreRounds
    <2>5. value'[t] = 1
      BY <2>2 DEF TypeOK
    <2>6. i' \in [ThreadIds -> 0 .. iterations]
          /\ value' \in [ThreadIds -> {1, -1}]
      BY <2>2, <2>3 DEF TypeOK
    <2>7. CASE i[t] + 1 < iterations
      BY <2>2, <2>3, <2>4, <2>5, <2>6, <2>7, <1>2, LabelTypes DEF TypeOK, PcLabels
    <2>8. CASE ~(i[t] + 1 < iterations)
      BY <2>2, <2>4, <2>5, <2>6, <2>8, <1>2 DEF TypeOK, PcLabels
    <2>9. QED
      BY <2>7, <2>8
  <1>3. QED
    BY <1>1, <1>2

LEMMA ThreadTypes ==
  ASSUME TypeOK, PcInv, NEW t \in ThreadIds, Thread(t)
  PROVE  TypeOK'
  <1>1. i[t] < iterations
    BY DEF PcInv, Thread, Lock, Load, Store, Unlock, CasSucceeds, CasFails
  <1>2. UNCHANGED <<opt_sync, mainpc, mi, exit>>
    BY DEF Thread, mainVars
  <1>3. CASE Lock(t)
    BY <1>2, <1>3 DEF TypeOK, Lock, Goto, PcLabels
  <1>4. CASE Load(t)
    BY <1>2, <1>4 DEF TypeOK, Load, Goto, PcLabels
  <1>5. CASE Store(t)
    <2>1. loaded[t] + value[t] \in Int
      BY DEF TypeOK
    <2>2. CASE UsesLock
      BY <1>2, <1>5, <2>1, <2>2 DEF TypeOK, Store, Goto, PcLabels
    <2>3. CASE ~UsesLock
      BY <1>1, <1>2, <1>5, <2>1, <2>3, ReturnEffect DEF TypeOK, Store
    <2>4. QED
      BY <2>2, <2>3
  <1>6. CASE Unlock(t)
    BY <1>1, <1>2, <1>6, ReturnEffect DEF TypeOK, Unlock
  <1>7. CASE CasSucceeds(t)
    <2>1. loaded[t] + value[t] \in Int
      BY DEF TypeOK
    <2>2. QED
      BY <1>1, <1>2, <1>7, <2>1, ReturnEffect DEF TypeOK, CasSucceeds
  <1>8. CASE CasFails(t)
    BY <1>2, <1>8 DEF TypeOK, CasFails, Goto, PcLabels
  <1>9. QED
    BY <1>3, <1>4, <1>5, <1>6, <1>7, <1>8 DEF Thread
\* main's steps do not touch what the threads work on, except that creating a
\* thread puts it at its entry point.
LEMMA MainTypes ==
  ASSUME TypeOK, Main
  PROVE  TypeOK'
  <1> USE CountsAssumption
  <1>1. CASE CreateThread /\ UNCHANGED opt_sync
    BY <1>1, LabelTypes DEF TypeOK, CreateThread, Goto, PcLabels, ThreadIds
  <1>2. CASE Main /\ ~CreateThread
    <2>1. UNCHANGED <<opt_sync, counter, lock, pc, i, value, loaded>>
      BY <1>2 DEF Main, CreateFails, AllCreated, JoinThread, AllJoined, Report, threadVars
    <2>2. mainpc' \in {"create", "join", "report"} /\ mi' \in 0 .. threads
          /\ exit' \in {Running, 0, 1, DivideByZero}
      BY <1>2 DEF TypeOK, Main, CreateFails, AllCreated, JoinThread, AllJoined, Report
    <2>3. QED
      BY <2>1, <2>2 DEF TypeOK
  <1>3. QED
    BY <1>1, <1>2 DEF Main

\* A thread changes no other thread's registers, and only a store or a
\* successful CAS changes the counter.
LEMMA OnlyItself ==
  ASSUME TypeOK, PcInv, NEW t \in ThreadIds, Thread(t)
  PROVE  /\ \A u \in ThreadIds \ {t} :
              /\ pc'[u] = pc[u]
              /\ i'[u] = i[u]
              /\ value'[u] = value[u]
              /\ loaded'[u] = loaded[u]
         /\ UNCHANGED <<opt_sync, mainpc, mi, exit>>
         /\ pc[t] \notin {"unborn", "done"}
         /\ counter' # counter => Store(t) \/ CasSucceeds(t)
  <1> USE CountsAssumption
  <1>1. i[t] < iterations
    BY DEF PcInv, Thread, Lock, Load, Store, Unlock, CasSucceeds, CasFails
  <1>2. UNCHANGED <<opt_sync, mainpc, mi, exit>>
    BY DEF Thread, mainVars
  <1>3. CASE Lock(t) \/ Load(t) \/ CasFails(t)
    BY <1>2, <1>3 DEF TypeOK, Lock, Load, CasFails, Goto
  <1>4. CASE Store(t) /\ UsesLock
    BY <1>2, <1>4 DEF TypeOK, Store, Goto
  <1>5. CASE (Store(t) /\ ~UsesLock) \/ Unlock(t) \/ CasSucceeds(t)
    <2>1. Return(t)
      BY <1>5 DEF Store, Unlock, CasSucceeds
    <2>2. \A u \in ThreadIds \ {t} :
            pc'[u] = pc[u] /\ i'[u] = i[u] /\ value'[u] = value[u]
      BY <1>1, <2>1, ReturnEffect DEF TypeOK
    <2>3. UNCHANGED loaded /\ pc[t] \notin {"unborn", "done"}
      BY <1>5 DEF Store, Unlock, CasSucceeds
    <2>4. QED
      BY <1>2, <1>5, <2>2, <2>3 DEF Unlock
  <1>6. QED
    BY <1>3, <1>4, <1>5 DEF Thread

LEMMA ThreadPcInv ==
  ASSUME TypeOK, LockProtects, PcInv, NEW t \in ThreadIds, Thread(t)
  PROVE  PcInv'
  <1> USE CountsAssumption, SyncAssumption
  <1>1. UNCHANGED opt_sync /\ (UsesLock' <=> UsesLock) /\ (Exact' <=> Exact)
    BY OnlyItself DEF UsesLock, Exact
  <1>2. i[t] < iterations
    BY DEF PcInv, Thread, Lock, Load, Store, Unlock, CasSucceeds, CasFails
  <1>3. ASSUME NEW u \in ThreadIds, u # t, Exact, pc[u] = "store"
        PROVE  counter' = counter
    <2>1. opt_sync \in {"m", "s"}
      BY <1>3 DEF PcInv, Exact, ThreadIds, TypeOK
    <2>2. InCriticalSection(u) /\ ~InCriticalSection(t)
      BY <1>3, <2>1 DEF InCriticalSection, UsesLock, LockProtects
    <2>3. ~Store(t) /\ ~CasSucceeds(t)
      BY <2>1, <2>2 DEF InCriticalSection, UsesLock, PcInv, Store, CasSucceeds
    <2>4. QED
      BY <2>3, OnlyItself
  <1>4. ASSUME NEW u \in ThreadIds, u # t
        PROVE  PcInv!(u)'
    BY <1>1, <1>3, <1>4, OnlyItself DEF PcInv
  <1>5. PcInv!(t)'
    <2>1. CASE Lock(t) \/ Load(t) \/ CasFails(t)
      BY <1>1, <1>2, <2>1 DEF TypeOK, PcInv, Lock, Load, CasFails, Goto
    <2>2. CASE Store(t) /\ UsesLock
      BY <1>1, <1>2, <2>2 DEF TypeOK, PcInv, Store, Goto
    <2>3. CASE (Store(t) /\ ~UsesLock) \/ Unlock(t) \/ CasSucceeds(t)
      <3>1. Return(t)
        BY <2>3 DEF Store, Unlock, CasSucceeds
      <3>2. pc'[t] \in {EntryPoint, "done"}
            /\ (pc'[t] = "done" => value'[t] = 1)
            /\ (pc'[t] # "done" => i'[t] < iterations)
        BY <1>2, <3>1, ReturnEffect DEF TypeOK
      <3>3. QED
        BY <1>1, <3>2, LabelTypes
    <2>4. QED
      BY <2>1, <2>2, <2>3 DEF Thread
  <1>6. QED
    BY <1>4, <1>5 DEF PcInv

\* The lock: taking it needs it free, so nobody is between taking and
\* releasing it; releasing it leaves nobody there.
LEMMA ThreadLock ==
  ASSUME TypeOK, LockProtects, PcInv, NEW t \in ThreadIds, Thread(t)
  PROVE  LockProtects'
  <1> USE CountsAssumption, SyncAssumption
  <1>1. UNCHANGED opt_sync /\ (UsesLock' <=> UsesLock)
    BY OnlyItself DEF UsesLock
  <1>2. \A u \in ThreadIds \ {t} : InCriticalSection(u)' <=> InCriticalSection(u)
    BY <1>1, OnlyItself DEF InCriticalSection
  <1>3. i[t] < iterations
    BY DEF PcInv, Thread, Lock, Load, Store, Unlock, CasSucceeds, CasFails
  <1>4. CASE ~UsesLock
    <2>1. ~Lock(t) /\ ~Unlock(t)
      BY <1>4 DEF PcInv, Lock, Unlock
    <2>2. UNCHANGED lock
      BY <2>1 DEF Thread, Load, Store, CasSucceeds, CasFails
    <2>3. QED
      BY <1>1, <1>4, <2>2 DEF LockProtects, InCriticalSection
  <1>5. CASE UsesLock /\ Lock(t)
    <2>1. InCriticalSection(t)' /\ lock' /\ ~lock
      BY <1>1, <1>5 DEF Lock, Goto, InCriticalSection, TypeOK
    <2>2. QED
      BY <1>2, <2>1 DEF LockProtects
  <1>6. CASE UsesLock /\ Unlock(t)
    <2>1. InCriticalSection(t) /\ ~lock'
      BY <1>6 DEF Unlock, InCriticalSection
    <2>2. pc'[t] \in {EntryPoint, "done"}
      BY <1>3, <1>6, ReturnEffect DEF Unlock, TypeOK
    <2>3. ~InCriticalSection(t)'
      BY <1>6, <2>2, LabelTypes DEF InCriticalSection
    <2>4. QED
      BY <1>2, <2>1, <2>3 DEF LockProtects
  <1>7. CASE UsesLock /\ (Load(t) \/ Store(t))
    <2>1. InCriticalSection(t) /\ UNCHANGED lock
      BY <1>7 DEF Load, Store, InCriticalSection
    <2>2. InCriticalSection(t)'
      BY <1>1, <1>7 DEF Load, Store, Goto, InCriticalSection, UsesLock, TypeOK
    <2>3. QED
      BY <1>2, <2>1, <2>2 DEF LockProtects
  <1>8. CASE UsesLock /\ (CasSucceeds(t) \/ CasFails(t))
    BY <1>8 DEF PcInv, UsesLock, CasSucceeds, CasFails
  <1>9. QED
    BY <1>4, <1>5, <1>6, <1>7, <1>8 DEF Thread

-----------------------------------------------------------------------------
(* What a step does to the counter and to the threads that owe it an add. *)

\* A thread's step is an add of 1 to the value it loaded, an add of -1, or
\* neither; the value it loaded is the counter's where no update can be lost.
AddsOne(t) ==
  /\ pc[t] \in {"store", "cas"}
  /\ t \notin Added
  /\ Rounds[t] < iterations
  /\ counter' = loaded[t] + 1
  /\ Exact => loaded[t] = counter
  /\ Added' = Added \cup {t}
  /\ Rounds' = Rounds

SubtractsOne(t) ==
  /\ pc[t] \in {"store", "cas"}
  /\ t \in Added
  /\ Rounds[t] < iterations
  /\ counter' = loaded[t] - 1
  /\ Exact => loaded[t] = counter
  /\ Added' = Added \ {t}
  /\ Rounds' = [Rounds EXCEPT ![t] = @ + 1]

AddsNothing ==
  /\ counter' = counter
  /\ Added' = Added
  /\ Rounds' = Rounds

LEMMA OthersAdded ==
  ASSUME TypeOK, TypeOK', PcInv, NEW t \in ThreadIds, Thread(t)
  PROVE  \A u \in ThreadIds \ {t} :
           /\ u \in Added' <=> u \in Added
           /\ Rounds'[u] = Rounds[u]
  BY OnlyItself DEF Added, Rounds

LEMMA ThreadEffect ==
  ASSUME TypeOK, TypeOK', PcInv, NEW t \in ThreadIds, Thread(t)
  PROVE  AddsOne(t) \/ SubtractsOne(t) \/ AddsNothing
  <1> USE CountsAssumption, SyncAssumption
  <1>1. i[t] < iterations
    BY DEF PcInv, Thread, Lock, Load, Store, Unlock, CasSucceeds, CasFails
  <1>2. /\ Added \subseteq ThreadIds /\ Added' \subseteq ThreadIds
        /\ DOMAIN Rounds = ThreadIds /\ DOMAIN Rounds' = ThreadIds
        /\ Rounds = [u \in ThreadIds |-> Rounds[u]]
        /\ Rounds' = [u \in ThreadIds |-> Rounds'[u]]
    BY DEF Added, Rounds
  <1>3. CASE Lock(t) \/ Load(t) \/ CasFails(t)
    <2>1. UNCHANGED <<counter, value, i>>
          /\ pc[t] \notin {"unlock", "unborn", "done"} /\ pc'[t] # "unlock"
      BY <1>3 DEF Lock, Load, CasFails, Goto, TypeOK
    <2>2. (t \in Added' <=> t \in Added) /\ Rounds'[t] = Rounds[t]
      BY <2>1 DEF Added, Rounds
    <2>3. QED
      BY <1>2, <2>1, <2>2, OthersAdded DEF AddsNothing
  <1>4. CASE Unlock(t)
    <2>1. /\ UNCHANGED counter
          /\ pc[t] = "unlock" /\ UsesLock
          /\ value' = [value EXCEPT ![t] = IF value[t] = 1 THEN -1 ELSE 1]
          /\ i' = IF value[t] = 1 THEN i ELSE [i EXCEPT ![t] = i[t] + 1]
          /\ pc'[t] \in {EntryPoint, "done"}
      BY <1>1, <1>4, ReturnEffect DEF Unlock, PcInv, TypeOK
    <2>2. pc'[t] # "unlock" /\ value[t] \in {1, -1} /\ i[t] \in Nat
      BY <2>1, LabelTypes DEF TypeOK
    <2>3. (t \in Added' <=> t \in Added) /\ Rounds'[t] = Rounds[t]
      <3>1. CASE value[t] = 1
        <4>1. value'[t] = -1 /\ i'[t] = i[t]
          BY <2>1, <3>1 DEF TypeOK
        <4>2. QED
          BY <2>1, <2>2, <3>1, <4>1 DEF Added, Rounds
      <3>2. CASE value[t] = -1
        <4>1. value'[t] = 1 /\ i'[t] = i[t] + 1
          BY <2>1, <3>2 DEF TypeOK
        <4>2. QED
          BY <2>1, <2>2, <3>2, <4>1 DEF Added, Rounds
      <3>3. QED
        BY <2>2, <3>1, <3>2
    <2>4. QED
      BY <1>2, <2>1, <2>3, OthersAdded DEF AddsNothing
  <1>5. CASE Store(t) \/ CasSucceeds(t)
    <2>1. /\ pc[t] \in {"store", "cas"}
          /\ value[t] \in {1, -1}
          /\ counter' = loaded[t] + value[t]
          /\ Exact => loaded[t] = counter
          /\ i[t] \in Nat /\ loaded[t] \in Int
      BY <1>5 DEF Store, CasSucceeds, PcInv, TypeOK
    <2>2. Rounds[t] = i[t] /\ (t \in Added <=> value[t] = -1)
      BY <2>1 DEF Added, Rounds
    <2>3. /\ t \in Added' <=> value[t] = 1
          /\ Rounds'[t] = IF value[t] = 1 THEN i[t] ELSE i[t] + 1
      <3>1. CASE Store(t) /\ UsesLock
        <4>1. pc'[t] = "unlock" /\ UNCHANGED <<i, value>>
          BY <3>1 DEF Store, Goto, TypeOK
        <4>2. QED
          BY <2>1, <4>1 DEF Added, Rounds
      <3>2. CASE (Store(t) /\ ~UsesLock) \/ CasSucceeds(t)
        <4>1. Return(t)
          BY <3>2 DEF Store, CasSucceeds
        <4>2. /\ value' = [value EXCEPT ![t] = IF value[t] = 1 THEN -1 ELSE 1]
              /\ i' = IF value[t] = 1 THEN i ELSE [i EXCEPT ![t] = i[t] + 1]
              /\ pc'[t] \in {EntryPoint, "done"}
          BY <1>1, <4>1, ReturnEffect DEF TypeOK
        <4>3. pc'[t] # "unlock"
          BY <4>2, LabelTypes
        <4>4. CASE value[t] = 1
          <5>1. value'[t] = -1 /\ i'[t] = i[t]
            BY <4>2, <4>4 DEF TypeOK
          <5>2. QED
            BY <2>1, <4>3, <4>4, <5>1 DEF Added, Rounds
        <4>5. CASE value[t] = -1
          <5>1. value'[t] = 1 /\ i'[t] = i[t] + 1
            BY <4>2, <4>5 DEF TypeOK
          <5>2. QED
            BY <2>1, <4>3, <4>5, <5>1 DEF Added, Rounds
        <4>6. QED
          BY <2>1, <4>4, <4>5
      <3>3. QED
        BY <1>5, <3>1, <3>2
    <2>4. CASE value[t] = 1
      <3>1. Added' = Added \cup {t} /\ Rounds' = Rounds
        BY <1>2, <2>2, <2>3, <2>4, OthersAdded
      <3>2. QED
        BY <1>1, <2>1, <2>2, <2>4, <3>1 DEF AddsOne
    <2>5. CASE value[t] = -1
      <3>1. Added' = Added \ {t}
        BY <1>2, <2>2, <2>3, <2>5, OthersAdded
      <3>2. Rounds' = [Rounds EXCEPT ![t] = Rounds[t] + 1]
        BY <1>2, <2>2, <2>3, <2>5, OthersAdded
      <3>3. counter' = loaded[t] - 1
        BY <2>1, <2>5
      <3>4. QED
        BY <1>1, <2>1, <2>2, <2>5, <3>1, <3>2, <3>3 DEF SubtractsOne
    <2>6. QED
      BY <2>1, <2>4, <2>5
  <1>6. QED
    BY <1>3, <1>4, <1>5 DEF Thread

\* main's steps are neither an add nor take part in one.
LEMMA MainEffect ==
  ASSUME TypeOK, TypeOK', PcInv, JoinInv, Main
  PROVE  /\ AddsNothing
         /\ UNCHANGED <<opt_sync, lock, i, value, loaded>>
         /\ \A t \in ThreadIds :
              \/ pc'[t] = pc[t]
              \/ pc[t] = "unborn" /\ pc'[t] = "done" /\ iterations = 0
              \/ pc[t] = "unborn" /\ pc'[t] = EntryPoint /\ i[t] < iterations
  <1> USE CountsAssumption
  <1>1. CASE CreateThread
    <2>1. /\ mi \in ThreadIds /\ pc[mi] = "unborn" /\ value[mi] = 1 /\ i[mi] = 0
          /\ UNCHANGED <<counter, lock, i, value, loaded>>
          /\ pc' = [pc EXCEPT ![mi] = IF iterations = 0 THEN "done" ELSE EntryPoint]
      BY <1>1 DEF CreateThread, Goto, JoinInv, PcInv, TypeOK, ThreadIds
    <2>2. pc'[mi] \in {"lock", "load", "done"}
          /\ \A t \in ThreadIds : t # mi => pc'[t] = pc[t]
      BY <2>1, LabelTypes DEF TypeOK
    <2>3. Added' = Added /\ Rounds' = Rounds
      BY <2>1, <2>2 DEF Added, Rounds
    <2>4. UNCHANGED opt_sync
      BY DEF Main
    <2>5. QED
      BY <2>1, <2>2, <2>3, <2>4 DEF AddsNothing, TypeOK
  <1>2. CASE ~CreateThread
    <2>1. UNCHANGED <<opt_sync, counter, lock, pc, i, value, loaded>>
      BY <1>2 DEF Main, CreateFails, AllCreated, JoinThread, AllJoined, Report, threadVars
    <2>2. QED
      BY <2>1 DEF AddsNothing, Added, Rounds
  <1>3. QED
    BY <1>1, <1>2

LEMMA JoinStep ==
  ASSUME TypeOK, TypeOK', PcInv, JoinInv, [Next]_vars
  PROVE  JoinInv'
  <1> USE CountsAssumption DEF JoinInv
  <1>1. CASE \E t \in ThreadIds : Thread(t)
    BY <1>1, OnlyItself
  <1>2. CASE CreateThread
    BY <1>2 DEF CreateThread, Goto, TypeOK, ThreadIds
  <1>3. CASE CreateFails \/ AllCreated \/ JoinThread \/ AllJoined \/ Report
    BY <1>3 DEF CreateFails, AllCreated, JoinThread, AllJoined, Report,
                threadVars, TypeOK, ThreadIds, DivideByZero
  <1>4. CASE UNCHANGED vars
    BY <1>4 DEF vars
  <1>5. QED
    BY <1>1, <1>2, <1>3, <1>4 DEF Next, Main, Ended

LEMMA AddedIsFinite == IsFiniteSet(Added)
  <1>1. IsFiniteSet(ThreadIds)
    BY CountsAssumption, FS_Interval DEF ThreadIds
  <1>2. QED
    BY <1>1, FS_Subset DEF Added

LEMMA AccountingStep ==
  ASSUME TypeOK, TypeOK', PcInv, JoinInv, CounterAccounted, [Next]_vars
  PROVE  CounterAccounted'
  <1>1. (Exact' <=> Exact) /\ counter \in Int
    BY OnlyItself, MainEffect DEF Next, Exact, Ended, vars, TypeOK
  <1>2. IsFiniteSet(Added) /\ Cardinality(Added) \in Nat
    BY AddedIsFinite, FS_CardinalityType
  <1>3. ASSUME NEW t \in ThreadIds, AddsOne(t)
        PROVE  CounterAccounted'
    <2>1. Cardinality(Added \cup {t}) = Cardinality(Added) + 1
      BY <1>2, <1>3, FS_AddElement DEF AddsOne
    <2>2. QED
      BY <1>1, <1>2, <1>3, <2>1 DEF CounterAccounted, AddsOne
  <1>4. ASSUME NEW t \in ThreadIds, SubtractsOne(t)
        PROVE  CounterAccounted'
    <2>1. Cardinality(Added \ {t}) = Cardinality(Added) - 1
      BY <1>2, <1>4, FS_RemoveElement DEF SubtractsOne
    <2>2. QED
      BY <1>1, <1>2, <1>4, <2>1 DEF CounterAccounted, SubtractsOne
  <1>5. CASE AddsNothing
    BY <1>1, <1>5 DEF CounterAccounted, AddsNothing
  <1>6. CASE UNCHANGED vars
    BY <1>6 DEF vars, CounterAccounted, Exact, Added
  <1>7. QED
    BY <1>3, <1>4, <1>5, <1>6, ThreadEffect, MainEffect DEF Next, Ended

-----------------------------------------------------------------------------
(* The inductive invariant. *)

LEMMA Inductive ==
  ASSUME IInv, [Next]_vars
  PROVE  IInv'
  <1> USE DEF IInv
  <1>1. CASE \E t \in ThreadIds : Thread(t)
    <2>1. TypeOK' /\ PcInv' /\ LockProtects'
      BY <1>1, ThreadTypes, ThreadPcInv, ThreadLock
    <2>2. QED
      BY <2>1, JoinStep, AccountingStep
  <1>2. CASE Main
    <2>1. TypeOK'
      BY <1>2, MainTypes
    <2>2. PcInv'
      BY <1>2, <2>1, MainEffect, LabelTypes DEF PcInv, AddsNothing, UsesLock, Exact, TypeOK
    <2>3. LockProtects'
      BY <1>2, <2>1, MainEffect, LabelTypes DEF LockProtects, InCriticalSection, PcInv, UsesLock
    <2>4. QED
      BY <2>1, <2>2, <2>3, JoinStep, AccountingStep
  <1>3. CASE UNCHANGED vars
    BY <1>3 DEF vars, TypeOK, LockProtects, PcInv, JoinInv, CounterAccounted,
                InCriticalSection, UsesLock, Exact, Added
  <1>4. QED
    BY <1>1, <1>2, <1>3 DEF Next, Ended

LEMMA Initially ==
  ASSUME Init
  PROVE  IInv
  <1> USE CountsAssumption DEF Init
  <1>1. TypeOK
    <2>1. 0 \in 0 .. iterations /\ 0 \in 0 .. threads
      OBVIOUS
    <2>2. /\ i \in [ThreadIds -> 0 .. iterations]
          /\ pc \in [ThreadIds -> PcLabels]
          /\ loaded \in [ThreadIds -> Int]
      BY <2>1 DEF PcLabels
    <2>3. value \in [ThreadIds -> {1, -1}]
      OBVIOUS
    <2>4. mainpc \in {"create", "join", "report"}
      OBVIOUS
    <2>5. exit \in {Running, 0, 1, DivideByZero}
      OBVIOUS
    <2>6. counter \in Int /\ mi \in 0 .. threads
      BY <2>1
    <2>7. lock \in BOOLEAN
      BY Zenon
    <2>8. opt_sync \in SyncOptions
      OBVIOUS
    <2>9. QED
      BY <2>2, <2>3, <2>4, <2>5, <2>6, <2>7, <2>8 DEF TypeOK
  <1>2. Added = {}
    BY DEF Added
  <1>3. LockProtects /\ PcInv /\ JoinInv
    BY DEF LockProtects, InCriticalSection, PcInv, JoinInv, ThreadIds, Running
  <1>4. CounterAccounted
    BY <1>2, FS_EmptySet DEF CounterAccounted
  <1>5. QED
    BY <1>1, <1>3, <1>4 DEF IInv

LEMMA Invariance == Spec => []IInv
  <1>1. Init => IInv
    BY Initially
  <1>2. IInv /\ [Next]_vars => IInv'
    BY Inductive
  <1>3. QED
    BY <1>1, <1>2, PTL DEF Spec

-----------------------------------------------------------------------------
(* How far lost updates can take the counter. *)

\* The adds of 1 and of -1 that have reached the counter, by thread and round.
Turns == ThreadIds \X (0 .. iterations - 1)
Ups == {tk \in Turns : tk[2] < Rounds[tk[1]] \/ (tk[2] = Rounds[tk[1]] /\ tk[1] \in Added)}
Downs == {tk \in Turns : tk[2] < Rounds[tk[1]]}

LastLoss(t) == IF t \in Added THEN 1 ELSE 0

\* What a thread is about to add to, however stale, is a value the counter had
\* after no more adds than now; and it is about to add -1 only to a counter that
\* had been added to.
StaleBounds ==
  \A t \in ThreadIds : pc[t] \in {"store", "cas"} =>
    /\ loaded[t] <= Cardinality(Ups)
    /\ loaded[t] >= LastLoss(t) - Cardinality(Downs)

CounterBounds ==
  /\ counter <= Cardinality(Ups)
  /\ Ups = {} => counter = 0
  /\ Ups # {} => counter >= 1 - Cardinality(Downs)

LossInv == StaleBounds /\ CounterBounds

LEMMA TurnsCounted ==
  /\ IsFiniteSet(Ups) /\ Cardinality(Ups) \in Nat /\ Cardinality(Ups) <= threads * iterations
  /\ IsFiniteSet(Downs) /\ Cardinality(Downs) \in Nat /\ Cardinality(Downs) <= threads * iterations
  <1> USE CountsAssumption
  <1>1. IsFiniteSet(ThreadIds) /\ Cardinality(ThreadIds) = threads
    BY FS_Interval DEF ThreadIds
  <1>2. IsFiniteSet(0 .. iterations - 1) /\ Cardinality(0 .. iterations - 1) = iterations
    BY FS_Interval
  <1>3. IsFiniteSet(Turns) /\ Cardinality(Turns) = threads * iterations
    BY <1>1, <1>2, FS_Product DEF Turns
  <1>4. Ups \in SUBSET Turns /\ Downs \in SUBSET Turns
    BY DEF Ups, Downs
  <1>5. QED
    BY <1>3, <1>4, FS_Subset, FS_CardinalityType

LEMMA RoundsTyped ==
  ASSUME TypeOK
  PROVE  Rounds \in [ThreadIds -> Nat] /\ Added \subseteq ThreadIds
  <1>1. \A t \in ThreadIds : i[t] \in Nat
    BY CountsAssumption DEF TypeOK
  <1>2. QED
    BY <1>1 DEF Rounds, Added

\* An add is one more turn that has reached the counter.
LEMMA UpsAndDowns ==
  ASSUME TypeOK, NEW t \in ThreadIds
  PROVE  /\ AddsOne(t) => /\ Cardinality(Ups') = Cardinality(Ups) + 1 /\ Ups' # {}
                          /\ Cardinality(Downs') = Cardinality(Downs)
         /\ SubtractsOne(t) => /\ Cardinality(Ups') = Cardinality(Ups) /\ Ups' # {}
                               /\ Cardinality(Downs') = Cardinality(Downs) + 1
         /\ AddsNothing => Ups' = Ups /\ Downs' = Downs
  <1> DEFINE turn == <<t, Rounds[t]>>
  <1>1. Rounds \in [ThreadIds -> Nat]
    BY RoundsTyped
  <1>2. Rounds[t] < iterations => turn \in Turns
    BY <1>1, CountsAssumption DEF Turns
  <1>3. \A tk \in Turns : /\ tk[1] \in ThreadIds /\ tk[2] \in Nat
                          /\ tk = turn <=> (tk[1] = t /\ tk[2] = Rounds[t])
    BY DEF Turns
  <1>4. CASE AddsOne(t)
    <2>1. Rounds' = Rounds /\ Added' = Added \cup {t} /\ t \notin Added /\ turn \in Turns
      BY <1>2, <1>4 DEF AddsOne
    <2>2. Ups' = Ups \cup {turn}
      BY <1>1, <1>3, <2>1 DEF Ups
    <2>3. turn \notin Ups
      BY <1>1, <2>1 DEF Ups
    <2>4. Downs' = Downs
      BY <2>1 DEF Downs
    <2>5. QED
      BY <1>4, <2>2, <2>3, <2>4, FS_AddElement, TurnsCounted DEF AddsOne, SubtractsOne, AddsNothing
  <1>5. CASE SubtractsOne(t)
    <2>1. Rounds' = [Rounds EXCEPT ![t] = @ + 1] /\ Added' = Added \ {t} /\ t \in Added /\ turn \in Turns
      BY <1>2, <1>5 DEF SubtractsOne
    <2>2. Rounds'[t] = Rounds[t] + 1 /\ \A u \in ThreadIds \ {t} : Rounds'[u] = Rounds[u]
      BY <1>1, <2>1
    <2>3. Ups' = Ups
      <3>1. ASSUME NEW tk \in Turns, tk[1] = t
            PROVE  tk \in Ups' <=> tk \in Ups
        BY <1>1, <1>3, <2>1, <2>2, <3>1 DEF Ups
      <3>2. ASSUME NEW tk \in Turns, tk[1] # t
            PROVE  tk \in Ups' <=> tk \in Ups
        BY <1>1, <1>3, <2>1, <2>2, <3>2 DEF Ups
      <3>3. Ups \subseteq Turns /\ Ups' \subseteq Turns
        BY DEF Ups, Turns, ThreadIds
      <3>4. QED
        BY <3>1, <3>2, <3>3
    <2>4. Downs' = Downs \cup {turn}
      <3>1. ASSUME NEW tk \in Turns, tk[1] = t
            PROVE  tk \in Downs' <=> tk \in Downs \/ tk = turn
        BY <1>1, <1>3, <2>1, <2>2, <3>1 DEF Downs
      <3>2. ASSUME NEW tk \in Turns, tk[1] # t
            PROVE  tk \in Downs' <=> tk \in Downs \/ tk = turn
        BY <1>1, <1>3, <2>1, <2>2, <3>2 DEF Downs
      <3>3. Downs \subseteq Turns /\ Downs' \subseteq Turns
        BY DEF Downs, Turns, ThreadIds
      <3>4. QED
        BY <2>1, <3>1, <3>2, <3>3
    <2>5. turn \notin Downs /\ turn \in Ups
      BY <1>1, <2>1 DEF Downs, Ups
    <2>6. QED
      BY <1>5, <2>3, <2>4, <2>5, FS_AddElement, TurnsCounted DEF AddsOne, SubtractsOne, AddsNothing
  <1>6. AddsNothing => Ups' = Ups /\ Downs' = Downs
    BY DEF AddsNothing, Ups, Downs
  <1>7. QED
    BY <1>4, <1>5, <1>6

\* A thread comes to its store or its CAS from the load only.
LEMMA LoadedJustNow ==
  ASSUME TypeOK, PcInv, NEW t \in ThreadIds, Thread(t), pc'[t] \in {"store", "cas"}
  PROVE  loaded'[t] = counter /\ pc[t] = "load" /\ counter' = counter /\ value' = value
  <1>1. i[t] < iterations
    BY DEF PcInv, Thread, Lock, Load, Store, Unlock, CasSucceeds, CasFails
  <1>2. CASE Load(t)
    BY <1>2 DEF Load, TypeOK
  <1>3. CASE Lock(t) \/ CasFails(t) \/ (Store(t) /\ UsesLock)
    BY <1>3 DEF Lock, CasFails, Store, Goto, TypeOK
  <1>4. CASE (Store(t) /\ ~UsesLock) \/ Unlock(t) \/ CasSucceeds(t)
    <2>1. Return(t)
      BY <1>4 DEF Store, Unlock, CasSucceeds
    <2>2. pc'[t] \in {EntryPoint, "done"}
      BY <1>1, <2>1, ReturnEffect DEF TypeOK
    <2>3. QED
      BY <2>2, LabelTypes
  <1>5. QED
    BY <1>2, <1>3, <1>4 DEF Thread

LEMMA LossThread ==
  ASSUME IInv, TypeOK', LossInv, NEW t \in ThreadIds, Thread(t)
  PROVE  LossInv'
  <1> USE DEF IInv
  <1>1. PICK up \in Nat, down \in Nat : up = Cardinality(Ups) /\ down = Cardinality(Downs)
    BY TurnsCounted
  <1>2. PICK up2 \in Nat, down2 \in Nat : up2 = Cardinality(Ups') /\ down2 = Cardinality(Downs')
    <2>1. Rounds' = Rounds \/ Rounds' # Rounds
      OBVIOUS
    <2>2. Cardinality(Ups') \in Nat /\ Cardinality(Downs') \in Nat
      BY <1>1, ThreadEffect, UpsAndDowns
    <2>3. QED
      BY <2>2
  <1>3. loaded[t] \in Int /\ counter \in Int /\ counter' \in Int
    BY DEF TypeOK
  <1>4. up2 >= up /\ down2 >= down
    BY <1>1, <1>2, ThreadEffect, UpsAndDowns
  <1>5. CounterBounds'
    <2>1. CASE AddsOne(t)
      <3>1. loaded[t] <= up /\ loaded[t] >= -down
        BY <1>1, <2>1 DEF LossInv, StaleBounds, LastLoss, AddsOne
      <3>2. up2 = up + 1 /\ down2 = down /\ Ups' # {} /\ counter' = loaded[t] + 1
        BY <1>1, <1>2, <2>1, UpsAndDowns DEF AddsOne
      <3>3. QED
        BY <1>2, <1>3, <3>1, <3>2 DEF CounterBounds
    <2>2. CASE SubtractsOne(t)
      <3>1. loaded[t] <= up /\ loaded[t] >= 1 - down
        BY <1>1, <2>2 DEF LossInv, StaleBounds, LastLoss, SubtractsOne
      <3>2. up2 = up /\ down2 = down + 1 /\ Ups' # {} /\ counter' = loaded[t] - 1
        BY <1>1, <1>2, <2>2, UpsAndDowns DEF SubtractsOne
      <3>3. QED
        BY <1>2, <1>3, <3>1, <3>2 DEF CounterBounds
    <2>3. CASE AddsNothing
      <3>1. Ups' = Ups /\ Downs' = Downs /\ counter' = counter
        BY <2>3, UpsAndDowns DEF AddsNothing
      <3>2. QED
        BY <3>1 DEF LossInv, CounterBounds
    <2>4. QED
      BY <2>1, <2>2, <2>3, ThreadEffect
  <1>6. ASSUME NEW u \in ThreadIds, u # t, pc'[u] \in {"store", "cas"}
        PROVE  loaded'[u] <= up2 /\ loaded'[u] >= LastLoss(u)' - down2
    <2>1. pc[u] \in {"store", "cas"} /\ loaded'[u] = loaded[u] /\ (u \in Added' <=> u \in Added)
      BY <1>6, OnlyItself, OthersAdded
    <2>2. loaded[u] <= up /\ loaded[u] >= LastLoss(u) - down
      BY <1>1, <2>1 DEF LossInv, StaleBounds
    <2>3. LastLoss(u)' = LastLoss(u) /\ LastLoss(u) \in {0, 1} /\ loaded[u] \in Int
      BY <2>1 DEF LastLoss, TypeOK
    <2>4. QED
      BY <1>4, <2>1, <2>2, <2>3
  <1>7. ASSUME pc'[t] \in {"store", "cas"}
        PROVE  loaded'[t] <= up2 /\ loaded'[t] >= LastLoss(t)' - down2
    <2>1. loaded'[t] = counter /\ pc[t] = "load" /\ counter' = counter /\ value' = value
      BY <1>7, LoadedJustNow
    <2>2. counter <= up /\ (Ups = {} => counter = 0) /\ (Ups # {} => counter >= 1 - down)
      BY <1>1 DEF LossInv, CounterBounds
    <2>3. CASE t \in Added'
      <3>1. t \in Added /\ Rounds[t] = i[t] /\ i[t] < iterations /\ i[t] \in Nat
        BY <1>7, <2>1, <2>3, CountsAssumption DEF Added, Rounds, PcInv, TypeOK
      <3>2. <<t, Rounds[t]>> \in Turns
        BY <3>1, CountsAssumption DEF Turns
      <3>3. <<t, Rounds[t]>> \in Ups
        BY <3>1, <3>2 DEF Ups
      <3>4. QED
        BY <1>3, <1>4, <2>1, <2>2, <2>3, <3>3 DEF LastLoss
    <2>4. CASE t \notin Added'
      BY <1>3, <1>4, <2>1, <2>2, <2>4 DEF LastLoss
    <2>5. QED
      BY <2>3, <2>4
  <1>8. StaleBounds'
    BY <1>2, <1>6, <1>7 DEF StaleBounds
  <1>9. QED
    BY <1>5, <1>8 DEF LossInv

LEMMA LossStep ==
  ASSUME IInv, IInv', LossInv, [Next]_vars
  PROVE  LossInv'
  <1>1. CASE \E t \in ThreadIds : Thread(t)
    BY <1>1, LossThread DEF IInv
  <1>2. CASE Main
    <2>1. AddsNothing /\ UNCHANGED loaded
      BY <1>2, MainEffect DEF IInv
    <2>2. Ups' = Ups /\ Downs' = Downs /\ counter' = counter /\ Added' = Added
      BY <2>1 DEF AddsNothing, Ups, Downs
    <2>3. \A t \in ThreadIds : pc'[t] \in {"store", "cas"} => pc[t] \in {"store", "cas"}
      BY <1>2, MainEffect, LabelTypes DEF IInv
    <2>4. QED
      BY <2>1, <2>2, <2>3 DEF LossInv, StaleBounds, CounterBounds, LastLoss
  <1>3. CASE UNCHANGED vars
    BY <1>3 DEF vars, LossInv, StaleBounds, CounterBounds, LastLoss, Ups, Downs, Rounds, Added
  <1>4. QED
    BY <1>1, <1>2, <1>3 DEF Next, Ended

LEMMA LossInitially ==
  ASSUME Init
  PROVE  LossInv
  <1>1. Added = {} /\ \A t \in ThreadIds : Rounds[t] = 0 /\ pc[t] = "unborn"
    BY DEF Init, Added, Rounds
  <1>2. Ups = {}
    BY <1>1 DEF Ups, Turns
  <1>3. Cardinality(Ups) = 0 /\ counter = 0
    BY <1>2, FS_EmptySet DEF Init
  <1>4. QED
    BY <1>1, <1>2, <1>3 DEF LossInv, StaleBounds, CounterBounds

-----------------------------------------------------------------------------
(* The theorems, for every number of threads and iterations and every --sync. *)

\* The variables of lab2_add.c keep their types; the loop index never passes
\* the number of iterations and main's never passes the number of threads.
THEOREM TypeCorrect == Spec => []TypeOK
  <1>1. IInv => TypeOK
    BY DEF IInv
  <1>2. QED
    BY <1>1, Invariance, PTL

\* add_mutex and add_spin exclude each other's critical sections.
THEOREM MutualExclusion == Spec => []LockProtects
  <1>1. IInv => LockProtects
    BY DEF IInv
  <1>2. QED
    BY <1>1, Invariance, PTL

\* The mutex, the spin lock, the CAS loop, and a thread that runs alone lose
\* no update.
THEOREM NoUpdateLost == Spec => []CounterAccounted
  <1>1. IInv => CounterAccounted
    BY DEF IInv
  <1>2. QED
    BY <1>1, Invariance, PTL

\* The counter lab2_add prints is 0 unless several threads ran without
\* synchronisation.
THEOREM ReportIsZero == Spec => []ReportsZero
  <1>1. IInv => ReportsZero
    <2>1. SUFFICES ASSUME IInv, Exact, exit = 0
                   PROVE  counter = 0
      BY DEF ReportsZero
    <2>2. \A t \in ThreadIds : pc[t] = "done" /\ value[t] = 1
      BY <2>1 DEF IInv, JoinInv, PcInv
    <2>3. Added = {}
      BY <2>2 DEF Added
    <2>4. QED
      BY <2>1, <2>3, FS_EmptySet DEF IInv, CounterAccounted
  <1>2. QED
    BY <1>1, Invariance, PTL

\* Where no update can be lost, lab2_add implements AtomicAdd: a load and the
\* store or CAS that follows act as one step, the store or the CAS.
THEOREM Refinement == Spec => ImplementsAtomicAdd
  <1>1. Init => Atomic!Init
    BY DEF Init, Atomic!Init, Added, Rounds, ThreadIds, Atomic!ThreadIds
  <1>2. IInv /\ IInv' /\ Exact /\ [Next]_vars => [Atomic!Next]_(Atomic!vars)
    <2>1. SUFFICES ASSUME IInv, IInv', Exact, [Next]_vars
                   PROVE  [Atomic!Next]_(Atomic!vars)
      OBVIOUS
    <2>2. ASSUME NEW t \in ThreadIds, AddsOne(t)
          PROVE  Atomic!AddOne(t)
      BY <2>1, <2>2 DEF AddsOne, Atomic!AddOne
    <2>3. ASSUME NEW t \in ThreadIds, SubtractsOne(t)
          PROVE  Atomic!SubtractOne(t)
      BY <2>1, <2>3 DEF SubtractsOne, Atomic!SubtractOne
    <2>4. CASE AddsNothing
      BY <2>4 DEF AddsNothing, Atomic!vars
    <2>5. CASE UNCHANGED vars
      BY <2>5 DEF vars, Atomic!vars, Added, Rounds
    <2>6. QED
      BY <2>1, <2>2, <2>3, <2>4, <2>5, ThreadEffect, MainEffect
      DEF IInv, Next, Ended, Atomic!Next, ThreadIds, Atomic!ThreadIds
  <1>3. QED
    BY <1>1, <1>2, Invariance, PTL DEF Spec, ImplementsAtomicAdd
\* However many unsynchronised updates are lost (lab2_add.c:86-91), the counter
\* stays within what the adds of 1 and of -1 could have made of it.
THEOREM LossesAreBounded == Spec => []LossBounded
  <1>1. IInv /\ LossInv => LossBounded
    <2>1. SUFFICES ASSUME IInv, LossInv PROVE LossBounded
      OBVIOUS
    <2>2. PICK all \in Nat : all = threads * iterations
      BY CountsAssumption
    <2>3. PICK up \in Nat, down \in Nat :
            up = Cardinality(Ups) /\ down = Cardinality(Downs) /\ up <= all /\ down <= all
      BY <2>2, TurnsCounted
    <2>4. counter \in Int
      BY <2>1 DEF IInv, TypeOK
    <2>5. QED
      BY <2>1, <2>2, <2>3, <2>4 DEF LossInv, CounterBounds, LossBounded
  <1>2. Init => LossInv
    BY LossInitially
  <1>3. IInv /\ IInv' /\ LossInv /\ [Next]_vars => LossInv'
    BY LossStep
  <1>4. QED
    BY <1>1, <1>2, <1>3, Invariance, PTL DEF Spec
=============================================================================
