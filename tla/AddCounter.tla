---------------------------- MODULE AddCounter ----------------------------
(***************************************************************************)
(* lab2a/lab2_add.c: `threads` threads each add 1 to a shared counter and  *)
(* take it back, `iterations` times, under the synchronisation chosen by   *)
(* --sync: none ("n"), a mutex ("m"), a spin lock ("s") or compare-and-    *)
(* swap ("c").  Each load, store, lock operation and CAS is one step.      *)
(* opt_yield only calls sched_yield() between a load and the store that    *)
(* follows; every such schedule is already an interleaving of the steps.   *)
(***************************************************************************)
EXTENDS Integers, FiniteSets

CONSTANTS threads,       \* --threads
          iterations,    \* --iterations
          SyncOptions    \* the values of --sync under study

ASSUME CountsAssumption == threads \in Nat /\ iterations \in Nat
ASSUME SyncAssumption == SyncOptions \subseteq {"n", "m", "s", "c"}

ThreadIds == 0 .. threads - 1

Running == -1       \* the process has not ended
DivideByZero == 136 \* 128 + SIGFPE, as the shell reports it

VARIABLES
  opt_sync,  \* chosen on the command line, never changed
  counter,   \* the shared counter
  lock,      \* is the mutex (m) or the spin lock (s) taken
  pc,        \* where each thread is in runThread and the add it calls
  i,         \* each thread's loop index in runThread
  value,     \* the argument of its current add: 1, then -1
  loaded,    \* what its current add read from the counter
  mainpc,    \* where main is: "create", "join" or "report"
  mi,        \* main's loop index in those loops
  exit       \* Running, or the exit status of the process

vars == <<opt_sync, counter, lock, pc, i, value, loaded, mainpc, mi, exit>>
threadVars == <<counter, lock, pc, i, value, loaded>>
mainVars == <<mainpc, mi, exit>>

UsesLock == opt_sync \in {"m", "s"}

EntryPoint == IF UsesLock THEN "lock" ELSE "load"

Init ==
  /\ opt_sync \in SyncOptions
  /\ counter = 0
  /\ lock = FALSE
  /\ pc = [t \in ThreadIds |-> "unborn"]
  /\ i = [t \in ThreadIds |-> 0]
  /\ value = [t \in ThreadIds |-> 1]
  /\ loaded = [t \in ThreadIds |-> 0]
  /\ mainpc = "create"
  /\ mi = 0
  /\ exit = Running

-----------------------------------------------------------------------------
(* runThread and the four adds. *)

Goto(t, label) == pc' = [pc EXCEPT ![t] = label]

\* Mutant: the loop test is i <= iterations.
OneMoreRound(t) == i[t] + 1 <= iterations

\* The test of runThread's loop after i++.
MoreRounds(t) == i[t] + 1 < iterations

\* The current add returns: runThread calls the next one or leaves its loop.
Return(t) ==
  IF value[t] = 1
  THEN /\ value' = [value EXCEPT ![t] = -1]
       /\ Goto(t, EntryPoint)
       /\ UNCHANGED i
  ELSE /\ value' = [value EXCEPT ![t] = 1]
       /\ i' = [i EXCEPT ![t] = @ + 1]
       /\ Goto(t, IF MoreRounds(t) THEN EntryPoint ELSE "done")

\* Mutant: the result of the test-and-set is not looked at.
LockUnguarded(t) ==
  /\ pc[t] = "lock"
  /\ lock' = TRUE
  /\ Goto(t, "load")
  /\ UNCHANGED <<counter, i, value, loaded>>

\* pthread_mutex_lock returns, or the test-and-set finds the spin lock free.
\* A failing test-and-set changes nothing.
Lock(t) ==
  /\ pc[t] = "lock"
  /\ ~lock
  /\ lock' = TRUE
  /\ Goto(t, "load")
  /\ UNCHANGED <<counter, i, value, loaded>>

Load(t) ==
  /\ pc[t] = "load"
  /\ loaded' = [loaded EXCEPT ![t] = counter]
  /\ Goto(t, IF opt_sync = "c" THEN "cas" ELSE "store")
  /\ UNCHANGED <<counter, lock, i, value>>

\* Mutant: *pointer += sum.
StoreAccumulates(t) ==
  /\ pc[t] = "store"
  /\ counter' = counter + loaded[t] + value[t]
  /\ IF UsesLock THEN Goto(t, "unlock") /\ UNCHANGED <<i, value>> ELSE Return(t)
  /\ UNCHANGED <<lock, loaded>>

Store(t) ==
  /\ pc[t] = "store"
  /\ counter' = loaded[t] + value[t]
  /\ IF UsesLock THEN Goto(t, "unlock") /\ UNCHANGED <<i, value>> ELSE Return(t)
  /\ UNCHANGED <<lock, loaded>>

\* pthread_mutex_unlock, or __sync_lock_release.
Unlock(t) ==
  /\ pc[t] = "unlock"
  /\ lock' = FALSE
  /\ Return(t)
  /\ UNCHANGED <<counter, loaded>>

\* Mutant: *pointer = new, without comparing.
CasBlind(t) ==
  /\ pc[t] = "cas"
  /\ counter' = loaded[t] + value[t]
  /\ Return(t)
  /\ UNCHANGED <<lock, loaded>>

CasSucceeds(t) ==
  /\ pc[t] = "cas"
  /\ counter = loaded[t]
  /\ counter' = loaded[t] + value[t]
  /\ Return(t)
  /\ UNCHANGED <<lock, loaded>>

\* Mutant: old is read once, before the do-while loop.
CasKeepsOld(t) ==
  /\ pc[t] = "cas"
  /\ counter # loaded[t]
  /\ Goto(t, "cas")
  /\ UNCHANGED <<counter, lock, i, value, loaded>>

CasFails(t) ==
  /\ pc[t] = "cas"
  /\ counter # loaded[t]
  /\ Goto(t, "load")
  /\ UNCHANGED <<counter, lock, i, value, loaded>>

Thread(t) ==
  /\ exit = Running
  /\ \/ Lock(t) \/ Load(t) \/ Store(t) \/ Unlock(t)
     \/ CasSucceeds(t) \/ CasFails(t)
  /\ UNCHANGED <<opt_sync, mainVars>>

-----------------------------------------------------------------------------
(* main. *)

CreateThread ==
  /\ mainpc = "create" /\ mi < threads
  /\ Goto(mi, IF iterations = 0 THEN "done" ELSE EntryPoint)
  /\ mi' = mi + 1
  /\ UNCHANGED <<counter, lock, i, value, loaded, mainpc, exit>>

\* pthread_create fails: main exits and takes the running threads with it.
CreateFails ==
  /\ mainpc = "create" /\ mi < threads
  /\ exit' = 1
  /\ UNCHANGED <<threadVars, mainpc, mi>>

AllCreated ==
  /\ mainpc = "create" /\ mi = threads
  /\ mainpc' = "join" /\ mi' = 0
  /\ UNCHANGED <<threadVars, exit>>

\* Mutant: main does not wait for the threads.
JoinNoWait ==
  /\ mainpc = "join" /\ mi < threads
  /\ mi' = mi + 1
  /\ UNCHANGED <<threadVars, mainpc, exit>>

JoinThread ==
  /\ mainpc = "join" /\ mi < threads
  /\ pc[mi] = "done"
  /\ mi' = mi + 1
  /\ UNCHANGED <<threadVars, mainpc, exit>>

AllJoined ==
  /\ mainpc = "join" /\ mi = threads
  /\ mainpc' = "report"
  /\ UNCHANGED <<threadVars, mi, exit>>

\* pthread_mutex_destroy (EBUSY if the mutex is held), the division by the
\* number of operations, and the line of output with the counter.
Report ==
  /\ mainpc = "report"
  /\ exit' = IF opt_sync = "m" /\ lock THEN 1
             ELSE IF threads * iterations * 2 = 0 THEN DivideByZero
             ELSE 0
  /\ UNCHANGED <<threadVars, mainpc, mi>>

Main ==
  /\ exit = Running
  /\ \/ CreateThread \/ CreateFails \/ AllCreated
     \/ JoinThread \/ AllJoined \/ Report
  /\ UNCHANGED opt_sync

\* The process has ended: nothing moves any more.
Ended == exit # Running /\ UNCHANGED vars

Next == (\E t \in ThreadIds : Thread(t)) \/ Main \/ Ended

Spec == Init /\ [][Next]_vars

\* The kernel runs every runnable thread eventually; a lock that is free when
\* several threads want it goes to any of them.
FairSpec ==
  /\ Spec
  /\ \A t \in ThreadIds : WF_vars(Thread(t))
  /\ WF_vars(Main)

-----------------------------------------------------------------------------
(* Properties. *)

PcLabels == {"unborn", "lock", "load", "store", "unlock", "cas", "done"}

\* Type invariant of the variables of lab2_add.c.
TypeOK ==
  /\ opt_sync \in SyncOptions
  /\ counter \in Int
  /\ lock \in BOOLEAN
  /\ pc \in [ThreadIds -> PcLabels]
  /\ i \in [ThreadIds -> 0 .. iterations]
  /\ value \in [ThreadIds -> {1, -1}]
  /\ loaded \in [ThreadIds -> Int]
  /\ mainpc \in {"create", "join", "report"}
  /\ mi \in 0 .. threads
  /\ exit \in {Running, 0, 1, DivideByZero}

InCriticalSection(t) == UsesLock /\ pc[t] \in {"load", "store", "unlock"}

\* add_mutex and add_spin: the lock is held exactly while one thread is
\* between taking it and releasing it, and by no second thread.
LockProtects ==
  /\ lock <=> \E t \in ThreadIds : InCriticalSection(t)
  /\ \A t, u \in ThreadIds :
       InCriticalSection(t) /\ InCriticalSection(u) => t = u

\* The adds that cannot lose an update: all but the plain add() of several
\* threads.
Exact == opt_sync # "n" \/ threads = 1

\* The threads whose add of 1 has reached the counter and whose add of -1
\* has not.
Added ==
  {t \in ThreadIds : IF value[t] = 1 THEN pc[t] = "unlock" ELSE pc[t] # "unlock"}

\* No update is lost, torn or applied twice: at every instant the counter is
\* the number of threads between their two adds.
CounterAccounted == Exact => counter = Cardinality(Added)

\* The value lab2_add prints is 0 whenever the adds are synchronised or only
\* one thread runs: main reads the counter only after every add is over.
ReportsZero == Exact /\ exit = 0 => counter = 0

\* Unsynchronised adds lose updates, but each store is one more or one less
\* than a value the counter really had: it never exceeds the number of adds
\* of 1, and never falls to minus the number of adds of -1, because the first
\* add of -1 reads a counter that has been added to.
LossBounded ==
  /\ counter <= threads * iterations
  /\ counter > -(threads * iterations) \/ counter = 0

\* Every thread gets the lock or wins its CAS often enough to finish, main
\* joins them all, and the program ends.
Terminates == <>(exit # Running)

Rounds ==
  [t \in ThreadIds |-> i[t] + (IF value[t] = -1 /\ pc[t] = "unlock" THEN 1 ELSE 0)]

Atomic == INSTANCE AtomicAdd WITH added <- Added, rounds <- Rounds

\* With a lock, with CAS or with one thread, lab2_add behaves as if each add
\* were one step: Exact never changes, so this is Exact => Atomic!Spec in the
\* form that TLC can check.
ImplementsAtomicAdd ==
  /\ Exact => Atomic!Init
  /\ [][Exact => [Atomic!Next]_(Atomic!vars)]_vars
=============================================================================
