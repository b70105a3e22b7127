--------------------------- MODULE BenchmarkProofs ---------------------------
(***************************************************************************)
(* What the library's guarantees are worth to a client: the benchmark's    *)
(* threads never undo each other's additions, and what main prints has all *)
(* that the threads it joined have added.                                  *)
(***************************************************************************)
EXTENDS Benchmark, SchedulerPlacesProofs

-----------------------------------------------------------------------------
(* The client's own control, as far as the scheduler's steps depend on it  *)
(* or it on them.                                                          *)

WrapperPoints ==
  {"wrap_check", "wrap_pause_exit", "wrap_ret", "wrap_term",
   "wrap_pause_end", "wrap_end"}
MainPoints == CreatePoints \cup {"user", "create_timer", "join_spin",
                                 "join_read"}
MainOnlyPoints == MainPoints \ {"user"}

(* Only main creates, one thread after the other, so the n-th create gives *)
(* its tcb and its caller the number n.                                    *)
MainCreatesAll ==
  /\ pc[Main] \in MainPoints
  /\ \A t \in Workers : pc[t] \notin MainOnlyPoints
  /\ pc[Main] \in CreatePoints => tcb_node[Main] = TID
TidsInOrder ==
  \A n \in Tcbs :
    tid[n] = IF n > TID \/ (n = TID /\ pc[Main] = "create_tid") THEN 0 ELSE n
HandlesGiven ==
  \A n \in 1 .. TID :
    \/ n \in handles
    \/ n = TID /\ pc[Main] \in {"create_tid", "create_handle"}

(* Where main is in its own code.                                          *)
MainProgress ==
  /\ at[Main] \in MainPlaces
  /\ at[Main] \in {"init", "create"} => index[Main] = 0
  /\ at[Main] \notin {"init", "create"} => TID = MaxThreads
  /\ at[Main] = "join" => index[Main] \in 0 .. MaxThreads - 1
  /\ at[Main] \in {"print", "clear"} => index[Main] = MaxThreads
  /\ at[Main] \in {"clear", "row_load", "row_store"} => pc[Main] = "user"
  /\ at[Main] = "row_load" => index[Main] \in 0 .. Rows
  /\ at[Main] = "row_store" => index[Main] \in 0 .. Rows - 1

(* And a worker: from lock to unlock it has the mutex or is on the way to  *)
(* it, unless lock has followed a null current_tcb; and it returns with    *)
(* all its items added.                                                    *)
InProgress(t) ==
  /\ at[t] \in WorkerPlaces
  /\ index[t] \in 0 .. Items
  /\ at[t] \in {"load", "store"} => index[t] < Items
  /\ at[t] = "load" =>
       \/ pc[t] \in LockPoints
       \/ pc[t] = "user" /\ (held[t] # {} \/ process = "crashed")
  /\ at[t] \in {"store", "unlock"} => pc[t] = "user" /\ held[t] # {}
  /\ pc[t] \in WrapperPoints => at[t] = "lock" /\ index[t] = Items
  /\ state[t] = "TERMINATED" => pc[t] \in WrapperPoints
WorkerProgress == \A t \in Workers : InProgress(t)

OneMutex ==
  /\ at[Main] = "init" => usable = {}
  /\ \A m, k \in usable : m = k

ProgramTypes ==
  /\ at \in [Tcbs -> MainPlaces \cup WorkerPlaces]
  /\ index \in [Tcbs -> Nat]

MainInvariant ==
  /\ MainCreatesAll /\ TidsInOrder /\ HandlesGiven
  /\ MainProgress /\ OneMutex

ProgramInvariant == ProgramTypes /\ MainInvariant /\ WorkerProgress

(* Nobody stores between a worker's load and its store until main          *)
(* verifies, nor between main's then if it has joined every thread.        *)
LoadedIsCurrent ==
  /\ ~Verifying => \A t \in Workers : at[t] = "store" => register[t] = sum
  /\ at[Main] = "row_store" /\ gone = {} => register[Main] = sum

(* What main has joined has terminated, or main waits for it.              *)
Joined == IF Verifying THEN Workers ELSE 1 .. index[Main]
JoinedHasTerminated ==
  \A n \in Joined \ gone :
    \/ state[n] = "TERMINATED"
    \/ n = index[Main] /\ pc[Main] = "join_spin" /\ tcb_node[Main] = n

SumInvariant ==
  /\ BenchmarkTypeOK /\ NoLostUpdate /\ LoadedIsCurrent
  /\ JoinedHasTerminated /\ PrintedIsJoined

-----------------------------------------------------------------------------
(* What a thread may count on while the library, or another thread, takes  *)
(* a step: its place in its own code stays as it was, up to a lock that    *)
(* succeeds.                                                               *)

LEMMA ProgramConstants ==
  /\ Workers = 1 .. MaxThreads /\ Main \notin Workers
  /\ Workers \subseteq Tcbs /\ Tcbs = Workers \cup {Main}
  /\ Items \in Nat \ {0} /\ MaxThreads \in Nat /\ Main = 0
  /\ Rows \in Nat
BY SchedulerAssumption, BenchmarkAssumption DEF Workers, Tcbs, Main, Rows

Steady(s) ==
  /\ pc[s] = "user" => pc'[s] = "user"
  /\ pc[s] \in LockPoints =>
       pc'[s] \in LockPoints \/ (pc'[s] = "user" /\ held'[s] # {})
  /\ held[s] # {} => held'[s] # {}
  /\ pc'[s] \in WrapperPoints <=> pc[s] \in WrapperPoints
  /\ state'[s] = "TERMINATED" =>
       state[s] = "TERMINATED" \/ pc[s] \in WrapperPoints
  /\ pc'[s] \in MainOnlyPoints => pc[s] \in MainOnlyPoints

LEMMA NoneRevives ==
  ASSUME [Next]_vars PROVE process = "crashed" => process' = "crashed"
<1>1. ASSUME NEW t \in Tcbs, ThreadStep(t) PROVE process = "alive"
  BY <1>1 DEF ThreadStep, CreateTid, CreateHandle, CreateSchedule,
       CreateTimer, WrapperEntry, WrapperCheck, WrapperStoresResult,
       WrapperTerminates, WrapperReturns, JoinSpin, JoinRead, TestAndSet,
       LockDequeue, LockEnqueue, UnlockDequeue, UnlockSchedule, UnlockMark, At
<1>2. ASSUME NEW t \in Tcbs, ClientCall(t) PROVE process = "alive"
  BY <1>2 DEF ClientCall, Create, Join, JoinThread, Exit, FunctionReturns,
       Yield, MainReturns, MutexInit, MutexLock, MutexUnlock, At
<1>3. ASSUME HandlerStep \/ \E expired \in BOOLEAN : Tick(expired)
      PROVE  process = "alive"
  BY <1>3 DEF HandlerStep, YieldHelper, YieldAfterUnlockHelper, Tick
<1> QED
  BY <1>1, <1>2, <1>3 DEF Next, vars

LEMMA ThreadStepSteady ==
  ASSUME TypeInvariant, FreshInvariant, NEW t \in Tcbs, ThreadStep(t)
  PROVE  Steady(t)
<1> USE LocalTypes, StateTypes, ClientTypes
    DEF Goto, At, Crash, queues, fields, client, Steady, LockPoints,
        WrapperPoints, MainOnlyPoints, MainPoints, CreatePoints
<1>1. CASE CreateTid(t)
  BY <1>1 DEF CreateTid
<1>2. CASE CreateHandle(t)
  BY <1>2 DEF CreateHandle
<1>3. CASE CreateSchedule(t)
  <2>1. tcb_node[t] \in Tcbs /\ pc[tcb_node[t]] = "none"
    BY <1>3 DEF CreateSchedule, LocalsOK, PointsWithTcb,
                FreshInvariant, FreshTcbs
  <2> QED
    BY <1>3, <2>1 DEF CreateSchedule
<1>4. CASE CreateTimer(t)
  BY <1>4 DEF CreateTimer
<1>5. CASE WrapperEntry(t)
  BY <1>5 DEF WrapperEntry
<1>6. CASE WrapperCheck(t)
  BY <1>6 DEF WrapperCheck
<1>7. CASE WrapperStoresResult(t)
  BY <1>7 DEF WrapperStoresResult
<1>8. CASE WrapperTerminates(t)
  BY <1>8 DEF WrapperTerminates
<1>9. CASE WrapperReturns(t)
  BY <1>9 DEF WrapperReturns
<1>10. CASE JoinSpin(t)
  BY <1>10 DEF JoinSpin
<1>11. CASE JoinRead(t)
  BY <1>11 DEF JoinRead
<1>12. CASE TestAndSet(t)
  <2>1. pc[t] = "lock_tas" /\ state' = state
    BY <1>12 DEF TestAndSet
  <2>2. \/ pc'[t] = "user" /\ held'[t] = held[t] \cup {mutex[t]}
        \/ pc'[t] = "lock_deq" /\ held' = held
    BY <1>12 DEF TestAndSet
  <2>3. pc'[t] = "user" => held'[t] # {}
    BY <2>2
  <2> QED
    BY <2>1, <2>2, <2>3
<1>13. CASE LockDequeue(t)
  BY <1>13 DEF LockDequeue
<1>14. CASE LockEnqueue(t)
  BY <1>14 DEF LockEnqueue
<1>15. CASE UnlockDequeue(t)
  BY <1>15 DEF UnlockDequeue
<1>16. CASE UnlockSchedule(t)
  BY <1>16 DEF UnlockSchedule
<1>17. CASE UnlockMark(t)
  BY <1>17 DEF UnlockMark
<1> QED
  BY <1>1, <1>2, <1>3, <1>4, <1>5, <1>6, <1>7, <1>8, <1>9, <1>10, <1>11,
     <1>12, <1>13, <1>14, <1>15, <1>16, <1>17
     DEF ThreadStep

LEMMA AloneSteady ==
  ASSUME NEW t, OthersAlone(t)
  PROVE  \A s \in Tcbs \ {t} : Steady(s)
BY DEF OthersAlone, Steady, LockPoints, WrapperPoints, MainOnlyPoints,
       MainPoints, CreatePoints

LEMMA HandlerSteady ==
  ASSUME TypeInvariant,
         HandlerStep \/ \E expired \in BOOLEAN : Tick(expired)
  PROVE  \A s \in Tcbs :
           /\ Steady(s)
           /\ pc[s] \in MainPoints => pc'[s] = pc[s]
           /\ tcb_node'[s] = tcb_node[s]
           /\ state'[s] = "TERMINATED" <=> state[s] = "TERMINATED"
<1>1. CASE HandlerStep
  <2>1. UNCHANGED <<pc, tcb_node, held>>
    BY <1>1, HandlerFrame, HandlerLocks DEF LocksUntouched
  <2> QED
    BY <1>1, <2>1, HandlerStates DEF Steady
<1>2. CASE \E expired \in BOOLEAN : Tick(expired)
  <2>1. /\ pc' \in {pc, [pc EXCEPT ![current_tcb] = AfterPause(@)]}
        /\ UNCHANGED <<tcb_node, held, state>>
    BY <1>2 DEF Tick, SignalHandler, Crash, fields, client
  <2>2. \A s \in Tcbs : pc'[s] \in {pc[s], AfterPause(pc[s])}
    BY <2>1, LocalTypes
  <2> QED
    BY <2>1, <2>2
       DEF Steady, AfterPause, LockPoints, WrapperPoints, MainOnlyPoints,
           MainPoints, CreatePoints
<1> QED
  BY <1>1, <1>2

LEMMA SteadyProgress ==
  ASSUME NEW s \in Workers, InProgress(s), Steady(s),
         at'[s] = at[s], index'[s] = index[s], [Next]_vars
  PROVE  InProgress(s)'
BY NoneRevives DEF InProgress, Steady, LockPoints, WrapperPoints

-----------------------------------------------------------------------------
(* The library's steps.                                                    *)

(* A step that does nothing to main or in its name.                        *)
MainUndisturbed ==
  /\ pc'[Main] = pc[Main] /\ tcb_node'[Main] = tcb_node[Main]
  /\ UNCHANGED <<TID, tid, handles, usable>>
  /\ \A t \in Workers : pc'[t] \in MainOnlyPoints => pc[t] \in MainOnlyPoints
  /\ at'[Main] = at[Main] /\ index'[Main] = index[Main]

LEMMA UndisturbedMain ==
  ASSUME MainInvariant, MainUndisturbed
  PROVE  MainInvariant'
<1> USE DEF MainInvariant, MainUndisturbed
<1>1. MainCreatesAll'
  BY DEF MainCreatesAll
<1>2. TidsInOrder'
  BY DEF TidsInOrder
<1>3. HandlesGiven'
  BY DEF HandlesGiven
<1>4. MainProgress'
  BY DEF MainProgress
<1>5. OneMutex'
  BY DEF OneMutex
<1> QED
  BY <1>1, <1>2, <1>3, <1>4, <1>5

(* Main is in create or join, and goes on there.                           *)
LEMMA MainThreadSteps ==
  ASSUME TypeInvariant, FreshInvariant, ThreadStep(Main),
         pc[Main] \in MainPoints
  PROVE  pc[Main] # "user" /\
         \/ /\ CreateTid(Main) /\ UNCHANGED <<tcb_node, handles>>
            /\ pc[Main] = "create_tid" /\ pc'[Main] = "create_handle"
         \/ /\ CreateHandle(Main) /\ UNCHANGED <<tcb_node, tid>>
            /\ pc[Main] = "create_handle" /\ pc'[Main] = "create_sched"
         \/ /\ pc[Main] \notin {"create_tid", "create_handle"}
            /\ pc'[Main] \in {"create_timer", "user", "join_read"}
            /\ UNCHANGED <<tid, handles>>
            /\ pc[Main] = "create_sched" => CreateSchedule(Main)
<1> USE LocalTypes, ConstantTypes
    DEF Goto, At, fields, client, MainPoints, CreatePoints
<1>1. CASE CreateTid(Main)
  BY <1>1 DEF CreateTid
<1>2. CASE CreateHandle(Main)
  BY <1>2 DEF CreateHandle
<1>3. CASE CreateSchedule(Main)
  <2>1. tcb_node[Main] \in Tcbs /\ pc[tcb_node[Main]] = "none"
    BY <1>3 DEF CreateSchedule, LocalsOK, PointsWithTcb,
                FreshInvariant, FreshTcbs
  <2> QED
    BY <1>3, <2>1 DEF CreateSchedule
<1>4. CASE CreateTimer(Main) \/ JoinSpin(Main) \/ JoinRead(Main)
  BY <1>4 DEF CreateTimer, JoinSpin, JoinRead
<1>5. CASE \/ WrapperEntry(Main) \/ WrapperCheck(Main)
           \/ WrapperStoresResult(Main) \/ WrapperTerminates(Main)
           \/ WrapperReturns(Main)
  BY <1>5 DEF WrapperEntry, WrapperCheck, WrapperStoresResult,
              WrapperTerminates, WrapperReturns
<1>6. CASE \/ TestAndSet(Main) \/ LockDequeue(Main) \/ LockEnqueue(Main)
           \/ UnlockDequeue(Main) \/ UnlockSchedule(Main) \/ UnlockMark(Main)
  BY <1>6 DEF TestAndSet, LockDequeue, LockEnqueue, UnlockDequeue,
              UnlockSchedule, UnlockMark
<1> QED
  BY <1>1, <1>2, <1>3, <1>4, <1>5, <1>6 DEF ThreadStep

(* The numbers, and the rest of a thread's client, are main's alone.       *)
LEMMA WorkerThreadSteps ==
  ASSUME TypeInvariant, NEW t \in Workers, ThreadStep(t),
         pc[t] \notin MainOnlyPoints
  PROVE  UNCHANGED <<tid, handles>>
<1> USE DEF At, fields, client, Crash, MainOnlyPoints, MainPoints, CreatePoints
<1>1. CASE \/ CreateTid(t) \/ CreateHandle(t) \/ CreateSchedule(t)
           \/ CreateTimer(t) \/ JoinSpin(t) \/ JoinRead(t)
  BY <1>1 DEF CreateTid, CreateHandle, CreateSchedule, CreateTimer, JoinSpin,
              JoinRead
<1>2. CASE \/ WrapperEntry(t) \/ WrapperCheck(t) \/ WrapperStoresResult(t)
           \/ WrapperTerminates(t) \/ WrapperReturns(t)
  BY <1>2 DEF WrapperEntry, WrapperCheck, WrapperStoresResult,
              WrapperTerminates, WrapperReturns
<1>3. CASE \/ TestAndSet(t) \/ LockDequeue(t) \/ LockEnqueue(t)
           \/ UnlockDequeue(t) \/ UnlockSchedule(t) \/ UnlockMark(t)
  BY <1>3 DEF TestAndSet, LockDequeue, LockEnqueue, UnlockDequeue,
              UnlockSchedule, UnlockMark
<1> QED
  BY <1>1, <1>2, <1>3 DEF ThreadStep

LEMMA MainThreadStepMain ==
  ASSUME TypeInvariant, FreshInvariant, MainInvariant, ThreadStep(Main),
         UNCHANGED <<at, index>>
  PROVE  MainInvariant'
<1>1. /\ TID \in 0 .. MaxThreads /\ TID' = TID /\ usable' = usable
      /\ \A t \in Workers : pc'[t] \notin MainOnlyPoints
  <2>1. \A t \in Workers : Steady(t)
    BY ThreadStepAlone, AloneSteady, ProgramConstants
  <2> QED
    BY <2>1, ThreadStepFrame, StateTypes, ConstantTypes
       DEF MainInvariant, MainCreatesAll, Steady
<1>2. pc[Main] \in MainPoints
  BY DEF MainInvariant, MainCreatesAll
<1>3. MainCreatesAll'
  BY <1>1, <1>2, MainThreadSteps
     DEF MainInvariant, MainCreatesAll, MainPoints, CreatePoints
<1>4. TidsInOrder'
  <2>1. CASE CreateTid(Main)
    <3>1. /\ pc[Main] = "create_tid" /\ pc'[Main] = "create_handle"
          /\ tid' = [tid EXCEPT ![TID] = TID]
      BY <1>2, <2>1, MainThreadSteps, ConstantTypes
         DEF CreateTid, CreateHandle, At, MainInvariant, MainCreatesAll,
             CreatePoints
    <3>2. tid \in [Tcbs -> 0 .. MaxThreads]
      BY DEF TypeInvariant, TypeOK
    <3> QED
      BY <1>1, <3>1, <3>2, ConstantTypes
         DEF MainInvariant, TidsInOrder, Tcbs
  <2>2. CASE ~CreateTid(Main)
    <3>1. /\ pc[Main] # "create_tid" /\ pc'[Main] # "create_tid"
          /\ tid' = tid
      BY <1>2, <2>2, MainThreadSteps
    <3> QED
      BY <1>1, <3>1 DEF MainInvariant, TidsInOrder
  <2> QED
    BY <2>1, <2>2
<1>5. HandlesGiven'
  <2>1. CASE CreateHandle(Main)
    <3>1. /\ pc[Main] = "create_handle" /\ handles' = handles \cup {TID}
      BY <2>1, ConstantTypes DEF CreateHandle, At
    <3> QED
      BY <1>1, <3>1 DEF MainInvariant, HandlesGiven
  <2>2. CASE ~CreateHandle(Main)
    BY <1>1, <1>2, <2>2, MainThreadSteps DEF MainInvariant, HandlesGiven
  <2> QED
    BY <2>1, <2>2
<1>6. MainProgress' /\ OneMutex'
  BY <1>1, <1>2, MainThreadSteps DEF MainInvariant, MainProgress, OneMutex
<1> QED
  BY <1>3, <1>4, <1>5, <1>6 DEF MainInvariant

LEMMA LibraryProgram ==
  ASSUME TypeInvariant, FreshInvariant, ProgramInvariant, Library
  PROVE  ProgramInvariant'
<1> USE DEF ProgramInvariant
<1>1. UNCHANGED <<at, index>> /\ [Next]_vars
  BY DEF Library, benchmark, Next
<1>2. ASSUME \A s \in Workers : Steady(s)
      PROVE  ProgramTypes' /\ WorkerProgress'
  BY <1>1, <1>2, SteadyProgress DEF ProgramTypes, WorkerProgress
<1>3. CASE ThreadStep(Main)
  <2>1. \A s \in Workers : Steady(s)
    BY <1>3, ThreadStepAlone, AloneSteady, ProgramConstants
  <2> QED
    BY <1>1, <1>2, <1>3, <2>1, MainThreadStepMain
<1>4. ASSUME NEW t \in Workers, ThreadStep(t) PROVE ProgramInvariant'
  <2>1. t \in Tcbs /\ t # Main
    BY ProgramConstants
  <2>2. OthersAlone(t) /\ \A s \in Tcbs : Steady(s)
    BY <1>4, <2>1, ThreadStepAlone, AloneSteady, ThreadStepSteady
  <2>3. MainUndisturbed
    <3>1. /\ pc[Main] \in MainPoints
          /\ \A s \in Workers : pc[s] \notin MainOnlyPoints
      BY DEF MainInvariant, MainCreatesAll
    <3>2. UNCHANGED <<tid, handles, TID, usable>>
      BY <1>4, <2>1, <3>1, WorkerThreadSteps, ThreadStepFrame
    <3>3. pc'[Main] = pc[Main] /\ tcb_node'[Main] = tcb_node[Main]
      BY <2>1, <2>2, <3>1, ConstantTypes
         DEF OthersAlone, MainPoints, CreatePoints
    <3> QED
      BY <1>1, <2>2, <3>2, <3>3, ProgramConstants DEF MainUndisturbed, Steady
  <2> QED
    BY <1>2, <2>2, <2>3, UndisturbedMain, ProgramConstants
<1>5. CASE HandlerStep \/ \E expired \in BOOLEAN : Tick(expired)
  <2>1. \A s \in Tcbs : /\ Steady(s)
                        /\ pc[s] \in MainPoints => pc'[s] = pc[s]
                        /\ tcb_node'[s] = tcb_node[s]
    BY <1>5, HandlerSteady
  <2>2. UNCHANGED <<TID, tid, handles, usable>>
    BY <1>5 DEF HandlerStep, YieldHelper, YieldAfterUnlockHelper, Tick,
                SignalHandler, Crash, fields, globals, client
  <2>3. MainUndisturbed
    BY <1>1, <2>1, <2>2, ProgramConstants
       DEF MainUndisturbed, MainInvariant, MainCreatesAll, Steady
  <2> QED
    BY <1>2, <2>1, <2>3, UndisturbedMain, ProgramConstants
<1> QED
  BY <1>3, <1>4, <1>5, ProgramConstants DEF Library

-----------------------------------------------------------------------------
(* The program's own steps.  Each is a call the client may make, so the    *)
(* benchmark's behaviours are the scheduler's.                             *)

ProgramContext == TypeInvariant /\ FreshInvariant /\ ProgramInvariant

LEMMA MainJoinsIsJoin ==
  ASSUME ProgramContext, MainJoins
  PROVE  /\ Join(Main) /\ TID = MaxThreads
         /\ index[Main] + 1 \in Workers /\ index[Main] \in 0 .. MaxThreads - 1
<1>1. /\ pc[Main] = "user" /\ at[Main] = "join"
      /\ JoinThread(Main, index[Main] + 1)
  BY DEF MainJoins, Step, JoinThread, At
<1>2. /\ TID = MaxThreads /\ index[Main] \in 0 .. MaxThreads - 1
      /\ index[Main] + 1 \in Workers
  BY <1>1, ProgramConstants
     DEF ProgramContext, ProgramInvariant, MainInvariant, MainProgress
<1>3. index[Main] + 1 \in handles
  BY <1>1, <1>2, ProgramConstants
     DEF ProgramContext, ProgramInvariant, MainInvariant, HandlesGiven
<1>4. tid[Main] = 0
  BY <1>1, <1>2, ProgramConstants
     DEF ProgramContext, ProgramInvariant, MainInvariant, TidsInOrder
<1>5. index[Main] + 1 \in handles \ {tid[Main]}
  BY <1>2, <1>3, <1>4, ProgramConstants
<1> QED
  BY <1>1, <1>2, <1>5, BenchmarkAssumption DEF Join

LEMMA ProgramCalls ==
  ASSUME ProgramContext, BenchmarkNext
  PROVE  Next \/ UNCHANGED vars
<1> USE ProgramConstants DEF Next, ClientCall
<1>1. CASE MainInits \/ MainCreates \/ MainJoins
  BY <1>1, MainJoinsIsJoin DEF MainInits, MainCreates
<1>2. CASE MainPrints \/ MainClears \/ RowLoads \/ RowStores \/ MainEnds
  BY <1>2 DEF MainPrints, MainClears, RowLoads, RowStores, MainEnds
<1>3. ASSUME NEW t \in Workers,
             \/ WorkerLocks(t) \/ WorkerLoads(t) \/ WorkerStores(t)
             \/ WorkerUnlocks(t) \/ WorkerReturns(t)
      PROVE  Next \/ UNCHANGED vars
  BY <1>3 DEF WorkerLocks, WorkerLoads, WorkerStores, WorkerUnlocks,
              WorkerReturns
<1>4. CASE Library
  BY <1>4 DEF Library
<1> QED
  BY <1>1, <1>2, <1>3, <1>4 DEF BenchmarkNext

(* What is left of the thread whose step it is not.                        *)
LEMMA CallLeavesOthers ==
  ASSUME ProgramContext, NEW t \in Tcbs, ClientCall(t),
         \A s \in Tcbs \ {t} : at'[s] = at[s] /\ index'[s] = index[s]
  PROVE  /\ \A s \in Workers \ {t} : InProgress(s)'
         /\ t # Main => /\ pc'[Main] = pc[Main]
                        /\ tcb_node'[Main] = tcb_node[Main]
                        /\ at'[Main] = at[Main] /\ index'[Main] = index[Main]
<1>1. OthersAlone(t) /\ \A s \in Tcbs \ {t} : Steady(s)
  BY ClientCallAlone, AloneSteady DEF ProgramContext
<1>2. \A s \in Workers \ {t} : InProgress(s)'
  BY <1>1, SteadyProgress, ProgramConstants
     DEF ProgramContext, ProgramInvariant, WorkerProgress, Next
<1>3. pc[Main] \in MainPoints
  BY DEF ProgramContext, ProgramInvariant, MainInvariant, MainCreatesAll
<1> QED
  BY <1>1, <1>2, <1>3, ConstantTypes
     DEF OthersAlone, MainPoints, CreatePoints

(* The other threads stay out of create and join.                          *)
LEMMA CallKeepsWorkersOut ==
  ASSUME ProgramContext, NEW t \in Tcbs, ClientCall(t),
         t \in Workers => pc'[t] \notin MainOnlyPoints
  PROVE  \A s \in Workers : pc'[s] \notin MainOnlyPoints
<1>1. \A s \in Tcbs \ {t} : Steady(s)
  BY ClientCallAlone, AloneSteady DEF ProgramContext
<1> QED
  BY <1>1, ProgramConstants
     DEF ProgramContext, ProgramInvariant, MainInvariant, MainCreatesAll,
         Steady

LEMMA MainInitsProgram ==
  ASSUME ProgramContext, MainInits
  PROVE  ProgramInvariant'
<1> USE DEF ProgramContext, ProgramInvariant, MainPlaces
<1>1. /\ at[Main] = "init" /\ at' = [at EXCEPT ![Main] = "create"]
      /\ UNCHANGED <<index, pc, tcb_node, TID, tid, handles>>
      /\ ClientCall(Main)
  BY DEF MainInits, Step, MutexInit, ClientCall, fields, globals
<1>2. \E m \in Mutexes : usable' = {m}
  BY <1>1 DEF MainInits, MutexInit, MainInvariant, OneMutex
<1>3. ProgramTypes'
  BY <1>1 DEF ProgramTypes
<1>4. WorkerProgress'
  BY <1>1, CallLeavesOthers, ProgramConstants DEF ProgramTypes, WorkerProgress
<1>5. MainCreatesAll' /\ TidsInOrder' /\ HandlesGiven'
  BY <1>1 DEF MainInvariant, MainCreatesAll, TidsInOrder, HandlesGiven
<1>6. MainProgress' /\ OneMutex'
  BY <1>1, <1>2, ProgramConstants
     DEF ProgramTypes, MainInvariant, MainProgress, OneMutex
<1> QED
  BY <1>3, <1>4, <1>5, <1>6 DEF MainInvariant

LEMMA MainCreatesProgram ==
  ASSUME ProgramContext, MainCreates
  PROVE  ProgramInvariant'
<1> USE DEF ProgramContext, ProgramInvariant, MainPlaces
<1> DEFINE next == IF TID + 1 = MaxThreads THEN "join" ELSE "create"
<1>1. /\ at[Main] = "create" /\ at' = [at EXCEPT ![Main] = next]
      /\ UNCHANGED <<index, tid, handles, usable>>
      /\ TID' = TID + 1 /\ TID < MaxThreads /\ TID \in 0 .. MaxThreads
      /\ pc[Main] = "user" /\ ClientCall(Main)
  BY StateTypes DEF MainCreates, Step, Create, ClientCall, At, client
<1>2. pc'[Main] = "create_tid" /\ tcb_node'[Main] = TID + 1
  BY LocalTypes, ProgramConstants DEF MainCreates, Create, Goto
<1>3. ProgramTypes'
  BY <1>1 DEF ProgramTypes
<1>4. WorkerProgress'
  BY <1>1, CallLeavesOthers, ProgramConstants DEF ProgramTypes, WorkerProgress
<1>5. MainCreatesAll'
  <2>1. \A s \in Workers : pc'[s] \notin MainOnlyPoints
    BY <1>1, CallKeepsWorkersOut, ProgramConstants
  <2> QED
    BY <1>1, <1>2, <2>1 DEF MainCreatesAll, MainPoints, CreatePoints
<1>6. TidsInOrder'
  BY <1>1, <1>2, ProgramConstants DEF MainInvariant, TidsInOrder, Tcbs
<1>7. HandlesGiven'
  BY <1>1, <1>2, ProgramConstants DEF MainInvariant, HandlesGiven
<1>8. MainProgress' /\ OneMutex'
  BY <1>1, ProgramConstants
     DEF ProgramTypes, MainInvariant, MainProgress, OneMutex
<1> QED
  BY <1>3, <1>4, <1>5, <1>6, <1>7, <1>8 DEF MainInvariant

LEMMA MainJoinsProgram ==
  ASSUME ProgramContext, MainJoins
  PROVE  ProgramInvariant'
<1> USE DEF ProgramContext, ProgramInvariant, MainPlaces
<1> DEFINE n == index[Main] + 1
           next == IF n = MaxThreads THEN "print" ELSE "join"
<1>1. /\ Join(Main) /\ TID = MaxThreads /\ n \in Workers
      /\ index[Main] \in 0 .. MaxThreads - 1
  BY MainJoinsIsJoin
<1>2. /\ at[Main] = "join" /\ at' = [at EXCEPT ![Main] = next]
      /\ index' = [index EXCEPT ![Main] = n]
      /\ UNCHANGED <<TID, tid, handles, usable>>
      /\ pc[Main] = "user" /\ pc'[Main] \in {"user", "join_spin"}
      /\ ClientCall(Main)
  BY <1>1, LocalTypes, ConstantTypes
     DEF MainJoins, Step, JoinThread, ClientCall, At, Goto, fields, globals
<1>3. ProgramTypes'
  BY <1>1, <1>2, ProgramConstants DEF ProgramTypes
<1>4. WorkerProgress'
  BY <1>2, CallLeavesOthers, ProgramConstants DEF ProgramTypes, WorkerProgress
<1>5. MainCreatesAll'
  <2>1. \A s \in Workers : pc'[s] \notin MainOnlyPoints
    BY <1>2, CallKeepsWorkersOut, ProgramConstants
  <2> QED
    BY <1>2, <2>1 DEF MainCreatesAll, MainPoints, CreatePoints
<1>6. TidsInOrder' /\ HandlesGiven'
  BY <1>2 DEF MainInvariant, TidsInOrder, HandlesGiven
<1>7. MainProgress' /\ OneMutex'
  BY <1>1, <1>2, ProgramConstants
     DEF ProgramTypes, MainInvariant, MainProgress, OneMutex
<1> QED
  BY <1>3, <1>4, <1>5, <1>6, <1>7 DEF MainInvariant

(* Main's steps between two calls.                                         *)
LEMMA MainOwnProgram ==
  ASSUME ProgramContext, MainPrints \/ MainClears \/ RowLoads \/ RowStores
  PROVE  ProgramInvariant'
<1> USE DEF ProgramContext, ProgramInvariant
<1>1. /\ UNCHANGED <<pc, tcb_node, TID, tid, handles, usable, state, held>>
      /\ pc[Main] = "user"
  BY DEF MainPrints, MainClears, RowLoads, RowStores, At, vars, fields,
         globals, client
<1>2. \E p \in {"clear", "row_load", "row_store"} :
        /\ at' = [at EXCEPT ![Main] = p]
        /\ p = "clear" => index' = index /\ at[Main] = "print"
        /\ at[Main] \notin {"init", "create", "join"}
  BY DEF MainPrints, MainClears, RowLoads, RowStores, Step
<1>3. /\ index' \in [Tcbs -> Nat]
      /\ \A s \in Workers : index'[s] = index[s]
  BY ProgramConstants
     DEF MainPrints, MainClears, RowLoads, RowStores, ProgramTypes
<1>4. ProgramTypes'
  BY <1>2, <1>3 DEF ProgramTypes, MainPlaces
<1>5. at'[Main] \in {"clear", "row_load", "row_store"}
      /\ \A s \in Workers : at'[s] = at[s]
  BY <1>2, ProgramConstants DEF ProgramTypes
<1>6. WorkerProgress'
  <2>1. \A s \in Workers : Steady(s)
    BY <1>1 DEF Steady
  <2>2. [Next]_vars
    BY DEF MainPrints, MainClears, RowLoads, RowStores
  <2> QED
    BY <1>3, <1>5, <2>1, <2>2, SteadyProgress DEF WorkerProgress
<1>7. MainCreatesAll' /\ TidsInOrder' /\ HandlesGiven'
  BY <1>1 DEF MainInvariant, MainCreatesAll, TidsInOrder, HandlesGiven
<1>8. MainProgress' /\ OneMutex'
  <2>1. at'[Main] = "clear" => index'[Main] = MaxThreads
    BY <1>2, ProgramConstants
       DEF ProgramTypes, MainInvariant, MainProgress
  <2>2. TID' = MaxThreads
    BY <1>1, <1>2 DEF MainInvariant, MainProgress, MainPlaces
  <2>3. /\ at'[Main] = "row_load" => index'[Main] \in 0 .. Rows
        /\ at'[Main] = "row_store" => index'[Main] \in 0 .. Rows - 1
    <3>1. CASE MainPrints
      BY <1>5, <3>1, ProgramConstants
         DEF MainPrints, Step, ProgramTypes
    <3>2. CASE MainClears
      BY <3>2, ProgramConstants DEF MainClears, Step, ProgramTypes
    <3>3. CASE RowLoads
      BY <3>3, ProgramConstants
         DEF RowLoads, Step, ProgramTypes, MainInvariant, MainProgress
    <3>4. CASE RowStores
      BY <3>4, ProgramConstants
         DEF RowStores, Step, ProgramTypes, MainInvariant, MainProgress
    <3> QED
      BY <3>1, <3>2, <3>3, <3>4
  <2> QED
    BY <1>1, <1>5, <2>1, <2>2, <2>3
       DEF MainInvariant, MainProgress, OneMutex, MainPlaces
<1> QED
  BY <1>4, <1>6, <1>7, <1>8 DEF MainInvariant

(* A worker's step between two calls.                                      *)
LEMMA OwnCodeProgram ==
  ASSUME ProgramContext, NEW t \in Workers,
         WorkerLoads(t) \/ WorkerStores(t)
  PROVE  ProgramInvariant'
<1> USE DEF ProgramContext, ProgramInvariant
<1>1. /\ UNCHANGED <<pc, tcb_node, TID, tid, handles, usable, state, held,
                      process>>
      /\ pc[t] = "user" /\ t \in Tcbs /\ t # Main /\ process = "alive"
  BY ProgramConstants
     DEF WorkerLoads, WorkerStores, At, vars, fields, globals, client
<1>2. \/ /\ at[t] = "load" /\ at' = [at EXCEPT ![t] = "store"]
         /\ index' = index
      \/ /\ at[t] = "store" /\ at' = [at EXCEPT ![t] = "unlock"]
         /\ index' = [index EXCEPT ![t] = @ + 1]
  BY DEF WorkerLoads, WorkerStores, Step
<1>3. index[t] \in 0 .. Items /\ index[t] < Items /\ held[t] # {}
  BY <1>1, <1>2 DEF WorkerProgress, InProgress, LockPoints
<1>4. ProgramTypes'
  <2>1. index[t] + 1 \in Nat
    BY <1>3, ProgramConstants
  <2>2. index' \in [Tcbs -> Nat]
    BY <1>2, <2>1 DEF ProgramTypes
  <2>3. at' \in [Tcbs -> MainPlaces \cup WorkerPlaces]
    BY <1>2 DEF ProgramTypes, WorkerPlaces
  <2> QED
    BY <2>2, <2>3 DEF ProgramTypes
<1>5. MainInvariant'
  <2>1. MainUndisturbed
    BY <1>1, <1>2, ProgramConstants DEF MainUndisturbed, ProgramTypes
  <2> QED
    BY <2>1, UndisturbedMain
<1>6. InProgress(t)'
  BY <1>1, <1>2, <1>3, ProgramConstants
     DEF ProgramTypes, WorkerProgress, InProgress, WrapperPoints, WorkerPlaces
<1>7. \A s \in Workers \ {t} : InProgress(s)'
  BY <1>1, <1>2, ProgramConstants
     DEF ProgramTypes, WorkerProgress, InProgress
<1> QED
  BY <1>4, <1>5, <1>6, <1>7 DEF WorkerProgress

(* A call a worker makes.                                                  *)
LEMMA WorkerCallProgram ==
  ASSUME ProgramContext, NEW t \in Workers,
         WorkerLocks(t) \/ WorkerUnlocks(t) \/ WorkerReturns(t)
  PROVE  ProgramInvariant'
<1> USE DEF ProgramContext, ProgramInvariant
<1>1. t \in Tcbs /\ t # Main
  BY ProgramConstants
<1>3. /\ index' = index /\ pc[t] = "user" /\ state' = state
      /\ UNCHANGED <<TID, tid, handles, usable>>
      /\ ClientCall(t)
  BY DEF WorkerLocks, WorkerUnlocks, WorkerReturns, MutexLock, MutexUnlock,
         FunctionReturns, ClientCall, At, Crash, benchmark, fields, globals,
         client
<1>4. \/ /\ index[t] < Items /\ at' = [at EXCEPT ![t] = "load"]
         /\ \/ pc'[t] = "lock_tas"
            \/ pc'[t] = "user" /\ process' = "crashed"
      \/ pc'[t] = "unlock_deq" /\ at' = [at EXCEPT ![t] = "lock"]
      \/ /\ pc'[t] = "wrap_check" /\ at' = at
         /\ at[t] = "lock" /\ index[t] = Items
  BY <1>1, LocalTypes
     DEF WorkerLocks, WorkerUnlocks, WorkerReturns, MutexLock, MutexUnlock,
         FunctionReturns, Goto, At, Crash, Step, benchmark
<1>5. ProgramTypes'
  BY <1>3, <1>4 DEF ProgramTypes, WorkerPlaces
<1>6. /\ \A s \in Workers \ {t} : InProgress(s)'
      /\ pc'[Main] = pc[Main] /\ tcb_node'[Main] = tcb_node[Main]
      /\ at'[Main] = at[Main] /\ index'[Main] = index[Main]
  <2>1. \A s \in Tcbs \ {t} : at'[s] = at[s] /\ index'[s] = index[s]
    BY <1>3, <1>4 DEF ProgramTypes
  <2> QED
    BY <1>1, <1>3, <2>1, CallLeavesOthers
<1>7. MainInvariant'
  <2>1. \A s \in Workers : pc'[s] \notin MainOnlyPoints
    BY <1>1, <1>3, <1>4, CallKeepsWorkersOut
       DEF MainOnlyPoints, MainPoints, CreatePoints
  <2> QED
    BY <1>3, <1>6, <2>1, UndisturbedMain DEF MainUndisturbed
<1>8. InProgress(t)'
  BY <1>1, <1>3, <1>4
     DEF ProgramTypes, WorkerProgress, InProgress, WrapperPoints, LockPoints,
         WorkerPlaces
<1> QED
  BY <1>5, <1>6, <1>7, <1>8 DEF WorkerProgress

LEMMA NextProgram ==
  ProgramContext /\ [BenchmarkNext]_<<vars, benchmark>> => ProgramContext'
<1> SUFFICES ASSUME ProgramContext, [BenchmarkNext]_<<vars, benchmark>>
             PROVE  ProgramContext'
  OBVIOUS
<1>1. TypeInvariant' /\ FreshInvariant'
  <2>1. [Next]_vars
    BY ProgramCalls
  <2> QED
    BY <2>1, NextTypes, NextFresh DEF ProgramContext
<1>2. ProgramInvariant'
  <2>1. CASE MainInits \/ MainCreates \/ MainJoins
    BY <2>1, MainInitsProgram, MainCreatesProgram, MainJoinsProgram
  <2>2. ASSUME NEW t \in Workers,
               \/ WorkerLocks(t) \/ WorkerLoads(t) \/ WorkerStores(t)
               \/ WorkerUnlocks(t) \/ WorkerReturns(t)
        PROVE  ProgramInvariant'
    BY <2>2, OwnCodeProgram, WorkerCallProgram
  <2>3. CASE Library
    BY <2>3, LibraryProgram DEF ProgramContext
  <2>4. CASE MainPrints \/ MainClears \/ RowLoads \/ RowStores
    BY <2>4, MainOwnProgram
  <2>5. CASE MainEnds \/ UNCHANGED <<vars, benchmark>>
    <3>1. UNCHANGED <<pc, tcb_node, TID, tid, handles, usable, state, held,
                      at, index>>
      BY <2>5 DEF MainEnds, MainReturns, vars, benchmark, fields, globals,
                  client
    <3>2. MainUndisturbed /\ \A s \in Workers : Steady(s)
      BY <3>1 DEF MainUndisturbed, Steady
    <3>3. [Next]_vars
      BY ProgramCalls
    <3> QED
      BY <3>1, <3>2, <3>3, UndisturbedMain, SteadyProgress
         DEF ProgramContext, ProgramInvariant, ProgramTypes, WorkerProgress
  <2> QED
    BY <2>1, <2>2, <2>3, <2>4, <2>5 DEF BenchmarkNext
<1> QED
  BY <1>1, <1>2 DEF ProgramContext

LEMMA InitProgram == BenchmarkInit => ProgramContext
<1> SUFFICES ASSUME BenchmarkInit PROVE ProgramContext
  OBVIOUS
<1>1. Init
  BY DEF BenchmarkInit
<1>2. /\ pc = [n \in Tcbs |-> IF n = Main THEN "user" ELSE "none"]
      /\ tid = [n \in Tcbs |-> 0] /\ state = [n \in Tcbs |-> "RUNNING"]
      /\ TID = 0 /\ handles = {} /\ usable = {}
      /\ at = [t \in Tcbs |-> IF t = Main THEN "init" ELSE "lock"]
      /\ index = [t \in Tcbs |-> 0]
  BY DEF BenchmarkInit, Init
<1>3. ProgramTypes
  BY <1>2, ProgramConstants DEF ProgramTypes, MainPlaces, WorkerPlaces
<1>4. MainInvariant
  BY <1>2, ProgramConstants
     DEF MainInvariant, MainCreatesAll, TidsInOrder, HandlesGiven,
         MainProgress, OneMutex, MainOnlyPoints, MainPoints, CreatePoints,
         MainPlaces
<1>5. WorkerProgress
  BY <1>2, ProgramConstants
     DEF WorkerProgress, InProgress, WrapperPoints, WorkerPlaces
<1> QED
  BY <1>1, <1>3, <1>4, <1>5, InitTypes, InitFresh
     DEF ProgramContext, ProgramInvariant

LEMMA ProgramContextHolds == BenchmarkSpec => []ProgramContext
BY InitProgram, NextProgram, PTL DEF BenchmarkSpec

(* The benchmark is a client of the library: all that is proved of Spec    *)
(* holds of its runs.                                                      *)
THEOREM BenchmarkRunsTheScheduler == BenchmarkSpec => Spec
<1>1. BenchmarkInit => Init
  BY DEF BenchmarkInit
<1>2. ProgramContext /\ [BenchmarkNext]_<<vars, benchmark>> => [Next]_vars
  BY ProgramCalls
<1> QED
  BY <1>1, <1>2, ProgramContextHolds, PTL DEF BenchmarkSpec, Spec

-----------------------------------------------------------------------------
(* What get_tcb finds (my_pthread.c:90-111).                               *)

LEMMA get_tcbFinds ==
  ASSUME TypeInvariant, SingleLevel, NEW id
  PROVE  /\ get_tcb(id) # NoTcb => tid[get_tcb(id)] = id
         /\ get_tcb(id) = NoTcb => \A n \in Tcbs : Queued(n) => tid[n] # id
<1> DEFINE Matches(l) == {i \in 1 .. Len(mlpq[l]) : tid[mlpq[l][i]] = id}
           levels == {l \in Levels : Matches(l) # {}}
           first == Least(levels)
<1>1. get_tcb(id) = IF levels = {} THEN NoTcb
                    ELSE mlpq[first][Least(Matches(first))]
  BY DEF get_tcb
<1>2. \A l \in Levels : mlpq[l] \in Seq(Tcbs)
  BY DEF TypeInvariant, TypeOK
<1>3. CASE levels = {}
  <2>1. Matches(0) = {}
    BY <1>3, ConstantTypes
  <2>2. get_tcb(id) = NoTcb /\ \A n \in Tcbs : Queued(n) => tid[n] # id
    BY <1>1, <1>3, <2>1 DEF Queued, Member
  <2> QED
    BY <2>2
<1>4. CASE levels # {}
  <2>1. levels \in SUBSET Nat
    <3>1. levels \subseteq Levels
      OBVIOUS
    <3> QED
      BY <3>1, ConstantTypes
  <2>2. first \in Levels /\ Matches(first) # {}
    <3>1. Least(levels) \in levels
      BY <1>4, <2>1, LeastProperties
    <3> QED
      BY <3>1
  <2>3. Matches(first) \in SUBSET Nat
    BY <1>2, <2>2
  <2>4. Least(Matches(first)) \in Matches(first)
    BY <2>2, <2>3, LeastProperties
  <2>5. get_tcb(id) = mlpq[first][Least(Matches(first))]
    BY <1>1, <1>4
  <2> HIDE DEF first
  <2>6. PICK i \in 1 .. Len(mlpq[first]) :
          i = Least(Matches(first)) /\ tid[mlpq[first][i]] = id
    BY <2>4
  <2>7. get_tcb(id) = mlpq[first][i] /\ mlpq[first] \in Seq(Tcbs)
    BY <1>2, <2>2, <2>5, <2>6
  <2> HIDE DEF Matches, levels
  <2>8. tid[get_tcb(id)] = id /\ get_tcb(id) \in Tcbs
    BY <2>6, <2>7
  <2> QED
    BY <2>8, ConstantTypes
<1> QED
  BY <1>3, <1>4

-----------------------------------------------------------------------------
(* The sum.                                                                *)

LEMMA OneHolder ==
  ASSUME ProgramContext, LockInvariant, NEW s \in Tcbs, NEW t \in Tcbs,
         held[s] # {}, held[t] # {}
  PROVE  s = t
<1>1. PICK m \in Mutexes, k \in Mutexes : m \in held[s] /\ k \in held[t]
  BY ClientTypes DEF ProgramContext
<1>2. m = k
  BY <1>1 DEF ProgramContext, ProgramInvariant, MainInvariant, OneMutex,
              LockInvariant, MutexesAreUsable
<1> QED
  BY <1>1, <1>2 DEF LockInvariant, MutualExclusion

(* Main's busy wait ends when the thread it waits for has terminated.      *)
JoinGoesOn ==
  pc[Main] = "join_spin" =>
    \/ pc'[Main] = "join_spin" /\ tcb_node'[Main] = tcb_node[Main]
    \/ state[tcb_node[Main]] = "TERMINATED"

LEMMA NextJoinGoesOn ==
  ASSUME TypeInvariant, FreshInvariant, [Next]_vars
  PROVE  JoinGoesOn
<1> SUFFICES ASSUME pc[Main] = "join_spin" PROVE JoinGoesOn
  BY DEF JoinGoesOn
<1>1. CASE ThreadStep(Main)
  <2>1. JoinSpin(Main)
    BY <1>1 DEF ThreadStep, CreateTid, CreateHandle, CreateSchedule,
         CreateTimer, WrapperEntry, WrapperCheck, WrapperStoresResult,
         WrapperTerminates, WrapperReturns, JoinRead, TestAndSet, LockDequeue,
         LockEnqueue, UnlockDequeue, UnlockSchedule, UnlockMark, At
  <2> QED
    BY <2>1 DEF JoinSpin, JoinGoesOn
<1>2. ASSUME NEW t \in Tcbs, t # Main, ThreadStep(t) \/ ClientCall(t)
      PROVE  JoinGoesOn
  BY <1>2, ThreadStepAlone, ClientCallAlone, ConstantTypes
     DEF OthersAlone, JoinGoesOn
<1>3. ~ClientCall(Main)
  BY DEF ClientCall, Create, Join, JoinThread, Exit, FunctionReturns, Yield,
         MainReturns, MutexInit, MutexLock, MutexUnlock, At
<1>4. CASE HandlerStep \/ \E expired \in BOOLEAN : Tick(expired)
  BY <1>4, HandlerSteady, ConstantTypes DEF JoinGoesOn, MainPoints
<1>5. CASE UNCHANGED vars
  BY <1>5 DEF vars, JoinGoesOn
<1> QED
  BY <1>1, <1>2, <1>3, <1>4, <1>5 DEF Next

SumContext ==
  ProgramContext /\ LockInvariant /\ SingleLevel /\ SumInvariant

LEMMA IndexTypes ==
  ASSUME ProgramContext
  PROVE  /\ Joined \subseteq Workers
         /\ \A t \in Workers : index[t] \in 0 .. Items
BY ProgramConstants
   DEF ProgramContext, ProgramInvariant, MainInvariant, MainProgress,
       WorkerProgress, InProgress, Joined, Verifying, MainPlaces

LEMMA JoinedStays ==
  ASSUME SumContext, TerminatedStays, JoinGoesOn,
         index'[Main] = index[Main], gone' = gone, Verifying' <=> Verifying
  PROVE  JoinedHasTerminated'
<1> SUFFICES ASSUME NEW n \in Joined \ gone
             PROVE  \/ state'[n] = "TERMINATED"
                    \/ /\ n = index[Main] /\ pc'[Main] = "join_spin"
                       /\ tcb_node'[Main] = n
  BY DEF JoinedHasTerminated, Joined
<1>1. n \in Tcbs
  BY IndexTypes, ProgramConstants DEF SumContext
<1>2. \/ state[n] = "TERMINATED"
      \/ n = index[Main] /\ pc[Main] = "join_spin" /\ tcb_node[Main] = n
  BY DEF SumContext, SumInvariant, JoinedHasTerminated
<1> QED
  BY <1>1, <1>2 DEF TerminatedStays, JoinGoesOn

(* A step that is neither a join, nor a print, nor a store.                *)
LEMMA QuietSum ==
  ASSUME SumContext, ProgramContext', TerminatedStays, JoinGoesOn,
         UNCHANGED <<index, sum, gone, printed>>, Verifying' <=> Verifying,
         register' \in [Tcbs -> SUBSET Addends],
         \A t \in Tcbs : at'[t] \in {"store", "row_store"} =>
           \/ register'[t] = sum
           \/ at[t] = at'[t] /\ register'[t] = register[t]
  PROVE  SumInvariant'
<1> USE DEF SumContext, SumInvariant
<1>1. BenchmarkTypeOK'
  BY DEF BenchmarkTypeOK, ProgramContext, ProgramInvariant, ProgramTypes
<1>2. NoLostUpdate' /\ PrintedIsJoined'
  BY DEF NoLostUpdate, PrintedIsJoined
<1>3. LoadedIsCurrent'
  BY ProgramConstants DEF LoadedIsCurrent
<1>4. JoinedHasTerminated'
  BY JoinedStays
<1> QED
  BY <1>1, <1>2, <1>3, <1>4

LEMMA MainJoinsSum ==
  ASSUME SumContext, ProgramContext', TerminatedStays, MainJoins
  PROVE  SumInvariant'
<1> USE DEF SumContext, SumInvariant
<1> DEFINE n == index[Main] + 1
<1>1. /\ n \in Workers /\ index' = [index EXCEPT ![Main] = n]
      /\ index[Main] \in 0 .. MaxThreads - 1
      /\ UNCHANGED <<register, sum, printed>>
      /\ gone' = IF get_tcb(n) = NoTcb THEN gone \cup {n} ELSE gone
      /\ pc[Main] = "user" /\ at[Main] = "join"
      /\ at' = [at EXCEPT ![Main] = IF n = MaxThreads THEN "print" ELSE "join"]
  BY MainJoinsIsJoin DEF MainJoins, Step, JoinThread, At
<1>2. /\ index'[Main] = n /\ at'[Main] \in {"print", "join"}
      /\ \A t \in Workers : at'[t] = at[t] /\ index'[t] = index[t]
  BY <1>1, ProgramConstants DEF BenchmarkTypeOK
<1>3. BenchmarkTypeOK'
  <2>1. gone' \subseteq Workers
    BY <1>1 DEF BenchmarkTypeOK
  <2> QED
    BY <1>1, <2>1 DEF BenchmarkTypeOK, ProgramContext, ProgramInvariant,
                      ProgramTypes
<1>4. ~Verifying /\ ~Verifying'
  BY <1>1, <1>2 DEF Verifying
<1>5. NoLostUpdate' /\ LoadedIsCurrent'
  BY <1>1, <1>2, <1>4 DEF NoLostUpdate, LoadedIsCurrent
<1>6. PrintedIsJoined'
  <2>1. gone \subseteq gone'
    BY <1>1
  <2> QED
    BY <1>1, <2>1 DEF PrintedIsJoined
<1>7. JoinedHasTerminated'
  <2> SUFFICES ASSUME NEW k \in (1 .. n) \ gone'
               PROVE  \/ state'[k] = "TERMINATED"
                      \/ /\ k = n /\ pc'[Main] = "join_spin"
                         /\ tcb_node'[Main] = k
    BY <1>2, <1>4 DEF JoinedHasTerminated, Joined
  <2>1. CASE k = n
    <3>1. get_tcb(n) # NoTcb
      BY <1>1, <2>1
    <3>2. get_tcb(n) \in Tcbs /\ tid[get_tcb(n)] = n
      BY <3>1, get_tcbType, get_tcbFinds DEF ProgramContext
    <3>3. get_tcb(n) = n
      BY <1>1, <3>2, ProgramConstants
         DEF ProgramContext, ProgramInvariant, MainInvariant, TidsInOrder
    <3>4. pc'[Main] = "join_spin" /\ tcb_node'[Main] = get_tcb(n)
      BY <3>1, LocalTypes, ConstantTypes
         DEF MainJoins, JoinThread, Goto, ProgramContext
    <3> QED
      BY <2>1, <3>3, <3>4
  <2>2. CASE k # n
    <3>1. k \in (1 .. index[Main]) \ gone /\ k \in Tcbs
      BY <1>1, <2>2, ProgramConstants
    <3>2. state[k] = "TERMINATED"
      BY <1>1, <1>4, <3>1 DEF JoinedHasTerminated, Joined
    <3> QED
      BY <3>1, <3>2 DEF TerminatedStays
  <2> QED
    BY <2>1, <2>2
<1> QED
  BY <1>3, <1>5, <1>6, <1>7

(* After its last join main has found each thread terminated, or not.      *)
LEMMA AllJoined ==
  ASSUME SumContext, at[Main] \in {"print", "clear", "row_load", "row_store"},
         pc[Main] = "user"
  PROVE  /\ \A t \in Workers \ gone :
              state[t] = "TERMINATED" /\ at[t] = "lock" /\ index[t] = Items
         /\ Verifying \/ Joined = Workers
<1> USE DEF SumContext, SumInvariant
<1>1. Joined = Workers
  BY ProgramConstants
     DEF Joined, Verifying, ProgramContext, ProgramInvariant, MainInvariant,
         MainProgress
<1>2. \A t \in Workers \ gone : state[t] = "TERMINATED"
  BY <1>1 DEF JoinedHasTerminated
<1> QED
  BY <1>1, <1>2
     DEF ProgramContext, ProgramInvariant, WorkerProgress, InProgress

LEMMA MainPrintsSum ==
  ASSUME SumContext, ProgramContext', TerminatedStays, JoinGoesOn, MainPrints
  PROVE  SumInvariant'
<1> USE DEF SumContext, SumInvariant
<1>1. /\ UNCHANGED <<index, register, sum, gone>> /\ printed' = {sum}
      /\ at[Main] = "print" /\ at'[Main] = "clear" /\ pc[Main] = "user"
      /\ \A t \in Workers : at'[t] = at[t]
  BY ProgramConstants DEF MainPrints, At, Step, BenchmarkTypeOK
<1>2. BenchmarkTypeOK'
  <2>1. printed' \subseteq SUBSET Addends
    BY <1>1 DEF BenchmarkTypeOK
  <2> QED
    BY <1>1, <2>1 DEF BenchmarkTypeOK, ProgramContext, ProgramInvariant,
                      ProgramTypes
<1>3. ~Verifying /\ ~Verifying'
  BY <1>1 DEF Verifying
<1>4. NoLostUpdate' /\ LoadedIsCurrent'
  BY <1>1, <1>3 DEF NoLostUpdate, LoadedIsCurrent
<1>5. JoinedHasTerminated'
  BY <1>1, <1>3, JoinedStays
<1>6. PrintedIsJoined'
  BY <1>1, <1>3, AllJoined DEF PrintedIsJoined, NoLostUpdate
<1> QED
  BY <1>2, <1>4, <1>5, <1>6

(* verify starts again from nothing.                                       *)
LEMMA MainClearsSum ==
  ASSUME SumContext, ProgramContext', TerminatedStays, MainClears
  PROVE  SumInvariant'
<1> USE DEF SumContext, SumInvariant
<1>1. /\ UNCHANGED <<register, gone, printed, state, pc>> /\ sum' = {}
      /\ at[Main] = "clear" /\ at'[Main] = "row_load" /\ pc[Main] = "user"
      /\ index'[Main] = 0
  BY ProgramConstants
     DEF MainClears, At, Step, BenchmarkTypeOK, vars, fields
<1>2. BenchmarkTypeOK'
  BY <1>1 DEF BenchmarkTypeOK, ProgramContext, ProgramInvariant, ProgramTypes
<1>3. Verifying' /\ ~Verifying
  BY <1>1 DEF Verifying
<1>4. NoLostUpdate'
  BY <1>1, <1>3 DEF NoLostUpdate
<1>5. LoadedIsCurrent'
  BY <1>1, <1>3 DEF LoadedIsCurrent
<1>6. JoinedHasTerminated'
  BY <1>1, <1>3, AllJoined DEF JoinedHasTerminated, Joined
<1>7. PrintedIsJoined'
  BY <1>1 DEF PrintedIsJoined
<1> QED
  BY <1>2, <1>4, <1>5, <1>6, <1>7

(* Nobody but main stores while it verifies, if it has joined every thread.*)
LEMMA RowStoresSum ==
  ASSUME SumContext, ProgramContext', TerminatedStays, RowStores
  PROVE  SumInvariant'
<1> USE DEF SumContext, SumInvariant
<1> DEFINE n == index[Main] + 1
<1>1. /\ UNCHANGED <<register, gone, printed, state, pc>>
      /\ at[Main] = "row_store" /\ at'[Main] = "row_load"
      /\ pc[Main] = "user" /\ index'[Main] = n
      /\ sum' = register[Main] \cup {<<Main, n>>}
  BY ProgramConstants
     DEF RowStores, At, Step, BenchmarkTypeOK, vars, fields
<1>2. index[Main] \in 0 .. Rows - 1 /\ n \in 1 .. Rows
  BY <1>1, ProgramConstants
     DEF ProgramContext, ProgramInvariant, MainInvariant, MainProgress
<1>3. BenchmarkTypeOK'
  <2>1. register[Main] \subseteq Addends
    BY ProgramConstants DEF BenchmarkTypeOK
  <2>2. sum' \subseteq Addends
    BY <1>1, <1>2, <2>1 DEF Addends
  <2> QED
    BY <1>1, <2>2
       DEF BenchmarkTypeOK, ProgramContext, ProgramInvariant, ProgramTypes
<1>4. Verifying' /\ Verifying
  BY <1>1 DEF Verifying
<1>5. NoLostUpdate'
  <2> SUFFICES ASSUME gone = {} PROVE sum' = {Main} \X (1 .. n)
    BY <1>1, <1>4 DEF NoLostUpdate
  <2>1. register[Main] = {Main} \X (1 .. index[Main])
    BY <1>1, <1>4 DEF LoadedIsCurrent, NoLostUpdate
  <2>2. 1 .. n = (1 .. index[Main]) \cup {n}
    BY <1>2, ProgramConstants
  <2> QED
    BY <1>1, <2>1, <2>2
<1>6. LoadedIsCurrent'
  BY <1>1, <1>4 DEF LoadedIsCurrent
<1>7. JoinedHasTerminated'
  BY <1>1, <1>4, AllJoined DEF JoinedHasTerminated, Joined
<1>8. PrintedIsJoined'
  BY <1>1 DEF PrintedIsJoined
<1> QED
  BY <1>3, <1>5, <1>6, <1>7, <1>8

(* The store puts back what was loaded with one item more; nobody else is  *)
(* between a load and a store, for nobody else has the mutex.              *)
LEMMA WorkerStoresSum ==
  ASSUME SumContext, ProgramContext', TerminatedStays, JoinGoesOn,
         NEW t \in Workers, WorkerStores(t)
  PROVE  SumInvariant'
<1> USE DEF SumContext, SumInvariant
<1> DEFINE n == index[t] + 1
<1>1. /\ t \in Tcbs /\ t # Main /\ at[t] = "store"
      /\ index[t] \in 0 .. Items /\ n \in 1 .. Items /\ held[t] # {}
  BY ProgramConstants
     DEF WorkerStores, Step, ProgramContext, ProgramInvariant, WorkerProgress,
         InProgress
<1>2. /\ UNCHANGED <<register, gone, printed>>
      /\ index' = [index EXCEPT ![t] = n]
      /\ at' = [at EXCEPT ![t] = "unlock"]
      /\ sum' = register[t] \cup {<<t, index'[t]>>}
  BY DEF WorkerStores, Step
<1>3. /\ index'[t] = n /\ at'[t] = "unlock"
      /\ \A s \in Tcbs \ {t} : index'[s] = index[s] /\ at'[s] = at[s]
  BY <1>1, <1>2 DEF BenchmarkTypeOK
<1>4. at'[Main] = at[Main] /\ index'[Main] = index[Main]
      /\ (Verifying' <=> Verifying)
  BY <1>1, <1>3, ProgramConstants DEF Verifying
<1>5. ~Verifying => sum' = sum \cup {<<t, n>>}
  BY <1>1, <1>2, <1>3 DEF LoadedIsCurrent
<1>6. Verifying => gone # {}
  <2> SUFFICES ASSUME Verifying, gone = {} PROVE FALSE
    OBVIOUS
  <2>1. pc[Main] = "user"
    BY DEF Verifying, ProgramContext, ProgramInvariant, MainInvariant,
           MainProgress
  <2>2. at[t] = "lock"
    BY <2>1, AllJoined DEF Verifying
  <2> QED
    BY <1>1, <2>2
<1>7. BenchmarkTypeOK'
  <2>1. register[t] \subseteq Addends /\ <<t, n>> \in Addends
    BY <1>1 DEF BenchmarkTypeOK, Addends, All
  <2>2. sum' \subseteq Addends
    BY <1>2, <1>3, <2>1
  <2> QED
    BY <1>2, <2>2 DEF BenchmarkTypeOK, ProgramContext, ProgramInvariant,
                      ProgramTypes
<1>8. NoLostUpdate'
  <2>1. CASE Verifying
    BY <1>2, <1>4, <1>6, <2>1 DEF NoLostUpdate
  <2>2. ASSUME ~Verifying, NEW s \in Workers, NEW i \in 1 .. index'[s]
        PROVE  <<s, i>> \in sum'
    <3>1. CASE s = t
      <4>1. i = n \/ i \in 1 .. index[t]
        BY <1>1, <1>3, <2>2, <3>1, ProgramConstants
      <4> QED
        BY <1>5, <2>2, <3>1, <4>1 DEF NoLostUpdate
    <3>2. CASE s # t
      BY <1>3, <1>5, <2>2, <3>2, ProgramConstants DEF NoLostUpdate
    <3> QED
      BY <3>1, <3>2
  <2> QED
    BY <1>4, <2>1, <2>2 DEF NoLostUpdate
<1>9. LoadedIsCurrent'
  <2>1. ASSUME NEW s \in Workers, s # t PROVE at[s] # "store"
    <3>1. at[s] = "store" => held[s] # {}
      BY DEF ProgramContext, ProgramInvariant, WorkerProgress, InProgress
    <3> QED
      BY <1>1, <2>1, <3>1, OneHolder, ProgramConstants
  <2>2. at'[Main] = "row_store" => gone' # {}
    BY <1>2, <1>4, <1>6 DEF Verifying
  <2> QED
    BY <1>3, <2>1, <2>2, ProgramConstants DEF LoadedIsCurrent
<1>10. PrintedIsJoined'
  BY <1>2 DEF PrintedIsJoined
<1>11. JoinedHasTerminated'
  BY <1>2, <1>4, JoinedStays
<1> QED
  BY <1>7, <1>8, <1>9, <1>10, <1>11

LEMMA NextSum ==
  ASSUME SumContext, ProgramContext', [BenchmarkNext]_<<vars, benchmark>>
  PROVE  SumInvariant'
<1>1. [Next]_vars
  BY ProgramCalls DEF SumContext
<1>2. TerminatedStays /\ JoinGoesOn
  BY <1>1, NextFresh, NextJoinGoesOn DEF SumContext, ProgramContext
<1> DEFINE Kept(t) == at'[t] \in {"store", "row_store"} =>
                        \/ register'[t] = sum
                        \/ at[t] = at'[t] /\ register'[t] = register[t]
           Quiet == /\ UNCHANGED <<index, sum, gone, printed>>
                    /\ Verifying' <=> Verifying
                    /\ register' \in [Tcbs -> SUBSET Addends]
                    /\ \A t \in Tcbs : Kept(t)
<1>3. Quiet => SumInvariant'
  BY <1>2, QuietSum
<1>4. /\ register \in [Tcbs -> SUBSET Addends] /\ {} \in SUBSET Addends
      /\ sum \in SUBSET Addends
      /\ at \in [Tcbs -> MainPlaces \cup WorkerPlaces]
      /\ Main \in Tcbs /\ \A t \in Workers : t \in Tcbs /\ t # Main
  BY ProgramConstants DEF SumContext, SumInvariant, BenchmarkTypeOK
<1>5. CASE MainInits \/ MainCreates
  BY <1>3, <1>4, <1>5 DEF MainInits, MainCreates, Step, Verifying
<1>6. CASE MainJoins
  BY <1>2, <1>6, MainJoinsSum
<1>7. CASE MainPrints
  BY <1>2, <1>7, MainPrintsSum
<1>8. ASSUME NEW t \in Workers, WorkerLocks(t) \/ WorkerReturns(t)
      PROVE  SumInvariant'
  <2>1. /\ UNCHANGED <<index, register, sum, gone, printed>>
        /\ \E p \in {at[t], "load"} : at' = [at EXCEPT ![t] = p]
    BY <1>4, <1>8 DEF WorkerLocks, WorkerReturns, Step, benchmark
  <2> QED
    BY <1>3, <1>4, <2>1 DEF Verifying
<1>9. ASSUME NEW t \in Workers, WorkerUnlocks(t) PROVE SumInvariant'
  <2>1. /\ at' = [at EXCEPT ![t] = "lock"]
        /\ register' = [register EXCEPT ![t] = {}]
        /\ UNCHANGED <<index, sum, gone, printed>>
    BY <1>9 DEF WorkerUnlocks, Step
  <2>2. register' \in [Tcbs -> SUBSET Addends]
    BY <1>4, <2>1
  <2>3. \A s \in Tcbs : Kept(s)
    BY <1>4, <2>1
  <2> QED
    BY <1>3, <1>4, <2>1, <2>2, <2>3 DEF Verifying
<1>10. CASE Library \/ MainEnds \/ UNCHANGED <<vars, benchmark>>
  BY <1>3, <1>4, <1>10 DEF Library, MainEnds, benchmark, Verifying
<1>11. ASSUME NEW t \in Tcbs,
              \/ t \in Workers /\ WorkerLoads(t)
              \/ t = Main /\ RowLoads
       PROVE  SumInvariant'
  <2>1. /\ register' = [register EXCEPT ![t] = sum]
        /\ UNCHANGED <<index, sum, gone, printed>>
        /\ \/ t \in Workers /\ at' = [at EXCEPT ![t] = "store"]
           \/ /\ t = Main /\ at[Main] = "row_load"
              /\ at' = [at EXCEPT ![t] = "row_store"]
    BY <1>11 DEF WorkerLoads, RowLoads, Step
  <2>2. register' \in [Tcbs -> SUBSET Addends] /\ \A s \in Tcbs : Kept(s)
    BY <1>4, <2>1
  <2>3. Verifying' <=> Verifying
    BY <1>4, <2>1 DEF Verifying
  <2> QED
    BY <1>3, <2>1, <2>2, <2>3
<1> QED
  BY <1>2, <1>4, <1>5, <1>6, <1>7, <1>8, <1>9, <1>10, <1>11, MainClearsSum,
     RowStoresSum, WorkerStoresSum
     DEF BenchmarkNext

LEMMA InitSum == BenchmarkInit => SumInvariant
<1> SUFFICES ASSUME BenchmarkInit PROVE SumInvariant
  OBVIOUS
<1>1. BenchmarkTypeOK
  BY ProgramConstants
     DEF BenchmarkInit, BenchmarkTypeOK, MainPlaces, WorkerPlaces
<1>2. NoLostUpdate /\ LoadedIsCurrent /\ JoinedHasTerminated
  BY ProgramConstants
     DEF BenchmarkInit, NoLostUpdate, LoadedIsCurrent, JoinedHasTerminated,
         Joined, Verifying
<1>3. PrintedIsJoined
  BY DEF BenchmarkInit, PrintedIsJoined
<1> QED
  BY <1>1, <1>2, <1>3 DEF SumInvariant

LEMMA SumContextHolds == BenchmarkSpec => []SumContext
<1>1. BenchmarkSpec => [](ProgramContext /\ LockInvariant /\ SingleLevel)
  <2>1. Spec => []LockInvariant
    <3>1. Init => LockInvariant
      BY InitLocks
    <3> QED
      BY <3>1, NextLocks, TypeInvariantHolds, PTL DEF Spec
  <2> QED
    BY <2>1, BenchmarkRunsTheScheduler, ProgramContextHolds,
       SingleLevelHolds, PTL
<1>2. /\ ProgramContext /\ LockInvariant /\ SingleLevel /\ SumInvariant
      /\ ProgramContext' /\ [BenchmarkNext]_<<vars, benchmark>>
      => SumInvariant'
  BY NextSum DEF SumContext
<1>3. BenchmarkSpec => []SumInvariant
  BY <1>1, <1>2, InitSum, PTL DEF BenchmarkSpec
<1> QED
  BY <1>1, <1>3, PTL DEF SumContext

(* The types of the program's own variables.                               *)
THEOREM BenchmarkTypeCorrect == BenchmarkSpec => []BenchmarkTypeOK
<1>1. SumContext => BenchmarkTypeOK
  BY DEF SumContext, SumInvariant
<1> QED
  BY <1>1, SumContextHolds, PTL

(* However the timer cuts lock, unlock and sum += item of any number of    *)
(* threads, no addition is lost (parallelCal, with the mutex of            *)
(* my_pthread.c:774-814).                                                  *)
THEOREM NoLostUpdateHolds == BenchmarkSpec => []NoLostUpdate
<1>1. SumContext => NoLostUpdate
  BY DEF SumContext, SumInvariant
<1> QED
  BY <1>1, SumContextHolds, PTL

(* What main prints has every item of the threads that its joins found.    *)
THEOREM PrintedIsJoinedHolds == BenchmarkSpec => []PrintedIsJoined
<1>1. SumContext => PrintedIsJoined
  BY DEF SumContext, SumInvariant
<1> QED
  BY <1>1, SumContextHolds, PTL

-----------------------------------------------------------------------------
(* Whom a join does not find.  get_tcb looks in the run queue only, so it  *)
(* misses a tcb in a wait queue or in the hands of lock or unlock.  Before *)
(* the join every thread has been started, and so is somewhere.            *)

AllStarted ==
  \A n \in 1 .. TID :
    pc[n] = "none" => n = TID /\ pc[Main] \in CreatePoints

LEMMA KeptStarted ==
  ASSUME ProgramContext, AllStarted, PointsKept,
         pc[Main] \in CreatePoints => pc'[Main] \in CreatePoints
  PROVE  AllStarted'
<1>1. 1 .. TID \subseteq Tcbs
  BY StateTypes, ProgramConstants DEF ProgramContext, Tcbs
<1> QED
  BY <1>1 DEF AllStarted, PointsKept

LEMMA LibraryStarted ==
  ASSUME ProgramContext, AllStarted, Library
  PROVE  AllStarted'
<1> USE DEF ProgramContext
<1>1. /\ pc[Main] \in MainPoints
      /\ \A t \in Workers : pc[t] \notin MainOnlyPoints
      /\ pc[Main] \in CreatePoints => tcb_node[Main] = TID
  BY DEF ProgramInvariant, MainInvariant, MainCreatesAll
<1>2. CASE CreateSchedule(Main)
  <2>1. TID' = TID /\ TID \in 0 .. MaxThreads
    BY <1>2, ThreadStepFrame, StateTypes, ProgramConstants DEF ThreadStep
  <2>2. OthersAlone(Main)
    BY <1>2, ThreadStepAlone, ProgramConstants DEF ThreadStep
  <2>3. pc'[TID] = "entry"
    BY <1>1, <1>2, <2>1, LocalTypes, ProgramConstants
       DEF CreateSchedule, At, CreatePoints, Tcbs
  <2> QED
    BY <2>1, <2>2, <2>3, ProgramConstants DEF AllStarted, OthersAlone, Tcbs
<1>3. CASE ThreadStep(Main) /\ ~CreateSchedule(Main)
  <2>1. PointsKept
    BY <1>3, ThreadStepFresh, ProgramConstants
  <2>2. pc[Main] \in CreatePoints => pc'[Main] \in CreatePoints
    BY <1>1, <1>3, MainThreadSteps DEF CreatePoints
  <2> QED
    BY <2>1, <2>2, KeptStarted
<1>4. ASSUME NEW t \in Workers, ThreadStep(t) PROVE AllStarted'
  <2>1. ~CreateSchedule(t)
    BY <1>1 DEF CreateSchedule, At, MainOnlyPoints, MainPoints, CreatePoints
  <2>2. PointsKept /\ OthersAlone(t)
    BY <1>4, <2>1, ThreadStepFresh, ThreadStepAlone, ProgramConstants
  <2>3. pc[Main] \in CreatePoints => pc'[Main] \in CreatePoints
    BY <2>2, ProgramConstants DEF OthersAlone, CreatePoints
  <2> QED
    BY <2>2, <2>3, KeptStarted
<1>5. CASE HandlerStep \/ \E expired \in BOOLEAN : Tick(expired)
  <2>1. PointsKept
    BY <1>5, HandlerFresh
  <2>2. pc'[Main] = pc[Main]
    BY <1>1, <1>5, HandlerSteady, ProgramConstants
  <2> QED
    BY <2>1, <2>2, KeptStarted
<1> QED
  BY <1>2, <1>3, <1>4, <1>5, ProgramConstants DEF Library

LEMMA NoNewTid ==
  ASSUME TypeInvariant, NEW t, TID' = TID
  PROVE  ~Create(t)
BY StateTypes DEF Create

LEMMA NextStarted ==
  ASSUME ProgramContext, AllStarted, [BenchmarkNext]_<<vars, benchmark>>
  PROVE  AllStarted'
<1> USE DEF ProgramContext
<1>1. ASSUME NEW t \in Tcbs, ClientCall(t), ~Create(t) PROVE AllStarted'
  <2>1. PointsKept /\ OthersAlone(t)
    BY <1>1, ClientCallFresh, ClientCallAlone
  <2>2. pc[t] = "user"
    BY <1>1 DEF ClientCall, Join, JoinThread, Exit, FunctionReturns, Yield,
                MainReturns, MutexInit, MutexLock, MutexUnlock, At
  <2>3. pc[Main] \in CreatePoints => pc'[Main] \in CreatePoints
    BY <2>1, <2>2, ProgramConstants DEF OthersAlone, CreatePoints
  <2> QED
    BY <2>1, <2>3, KeptStarted
<1>2. CASE MainCreates
  <2>1. /\ TID' = TID + 1 /\ TID \in 0 .. MaxThreads /\ pc[Main] = "user"
        /\ pc' = [pc EXCEPT ![Main] = "create_tid"]
    BY <1>2, StateTypes DEF MainCreates, Create, At, Goto
  <2>2. pc'[Main] = "create_tid" /\ \A n \in Workers : pc'[n] = pc[n]
    BY <2>1, LocalTypes, ProgramConstants
  <2>3. \A n \in 1 .. TID : n \in Workers
    BY <2>1, ProgramConstants
  <2> QED
    BY <2>1, <2>2, <2>3, ProgramConstants DEF AllStarted, CreatePoints
<1>3. CASE MainInits \/ MainJoins
  <2>1. ClientCall(Main)
    BY <1>3, MainJoinsIsJoin DEF MainInits, ClientCall
  <2>2. TID' = TID
    BY <1>3 DEF MainInits, MutexInit, MainJoins, JoinThread, globals
  <2> QED
    BY <1>1, <2>1, <2>2, NoNewTid, ProgramConstants
<1>4. ASSUME NEW t \in Workers,
             WorkerLocks(t) \/ WorkerUnlocks(t) \/ WorkerReturns(t)
      PROVE  AllStarted'
  <2>1. ClientCall(t)
    BY <1>4 DEF WorkerLocks, WorkerUnlocks, WorkerReturns, ClientCall
  <2>2. TID' = TID
    BY <1>4 DEF WorkerLocks, WorkerUnlocks, WorkerReturns, MutexLock,
                MutexUnlock, FunctionReturns, Crash, globals
  <2> QED
    BY <1>1, <2>1, <2>2, NoNewTid, ProgramConstants
<1>5. CASE \/ MainPrints \/ MainClears \/ RowLoads \/ RowStores \/ MainEnds
           \/ \E t \in Workers : WorkerLoads(t) \/ WorkerStores(t)
           \/ UNCHANGED <<vars, benchmark>>
  <2>1. pc' = pc /\ TID' = TID
    BY <1>5 DEF MainPrints, MainClears, RowLoads, RowStores, MainEnds,
                MainReturns, WorkerLoads, WorkerStores, vars, globals
  <2> QED
    BY <2>1 DEF AllStarted
<1> QED
  BY <1>2, <1>3, <1>4, <1>5, LibraryStarted DEF BenchmarkNext

(* The thread that an unlock has taken off a wait queue, and not yet put   *)
(* back on the run queue, is still inside lock.                            *)
WokenInLock ==
  \A t, n \in Tcbs : pc[t] = "unlock_sched" /\ tcb_node[t] = n =>
    pc[n] \in LockPoints

LEMMA InitWoken == Init => WokenInLock
BY DEF Init, WokenInLock

LEMMA WakesAWaiter ==
  ASSUME LateContext, NEW t \in Tcbs, ThreadStep(t), pc'[t] = "unlock_sched"
  PROVE  \E n \in Tcbs \ {t} :
           tcb_node'[t] = n /\ pc[n] \in LockPoints
<1> USE DEF LateContext, ServingInvariant
<1>1. UnlockDequeue(t)
  <2> USE LocalTypes DEF Goto, Crash
  <2>1. CASE \/ CreateTid(t) \/ CreateHandle(t) \/ CreateTimer(t)
             \/ WrapperEntry(t) \/ WrapperCheck(t) \/ WrapperStoresResult(t)
             \/ WrapperTerminates(t) \/ WrapperReturns(t)
    BY <2>1 DEF CreateTid, CreateHandle, CreateTimer, WrapperEntry,
                WrapperCheck, WrapperStoresResult, WrapperTerminates,
                WrapperReturns, At
  <2>2. CASE \/ JoinSpin(t) \/ JoinRead(t)
             \/ TestAndSet(t) \/ LockDequeue(t) \/ LockEnqueue(t)
             \/ UnlockSchedule(t) \/ UnlockMark(t)
    BY <2>2 DEF JoinSpin, JoinRead, TestAndSet, LockDequeue, LockEnqueue,
                UnlockSchedule, UnlockMark, At
  <2>3. CASE CreateSchedule(t)
    <3>1. tcb_node[t] \in Tcbs /\ pc[tcb_node[t]] = "none"
      BY <2>3 DEF CreateSchedule, LocalsOK, PointsWithTcb, At,
                  FreshInvariant, FreshTcbs, CreatePoints
    <3> QED
      BY <2>3, <3>1 DEF CreateSchedule, At
  <2> QED
    BY <2>1, <2>2, <2>3 DEF ThreadStep
<1>2. pc[t] = "unlock_deq" /\ mutex[t] \in Mutexes
  BY <1>1, LocalTypes DEF UnlockDequeue, At, LocalsOK, PointsWithMutex
<1>3. PICK q \in Seq(Tcbs) : q = lock_wait_queue[mutex[t]]
  BY <1>2, WaitQueueTypes
<1>4. q # <<>> /\ tcb_node'[t] = Head(q)
  BY <1>1, <1>3, LocalTypes DEF UnlockDequeue, Goto, peek
<1>5. PICK n \in Tcbs : n = Head(q) /\ Waits(n, mutex[t])
  <2>1. Head(q) \in Tcbs /\ Head(q) = q[1] /\ 1 \in 1 .. Len(q)
    BY <1>4
  <2> QED
    BY <1>3, <2>1 DEF Waits, Member
<1>6. pc[n] \in LockPoints
  BY <1>2, <1>5 DEF LateInvariant, WaitersInLock, LockPoints
<1>7. n # t
  BY <1>2, <1>6 DEF LockPoints
<1> QED
  BY <1>4, <1>5, <1>6, <1>7

(* It does not run: it would have to be in the run queue, or to have been  *)
(* left running with nobody there, not even the thread that unlocks.       *)
LEMMA WokenIsParked ==
  ASSUME LateContext, WokenInLock, NEW t \in Tcbs, NEW n \in Tcbs,
         pc[t] = "unlock_sched", tcb_node[t] = n,
         process = "alive", handler = "idle"
  PROVE  Running # n
<1> USE DEF LateContext, ServingInvariant
<1>1. Carries(t, n) /\ pc[n] \in LockPoints
  BY DEF Carries, CarryPoints, WokenInLock
<1>2. ASSUME current_tcb = NoTcb PROVE Running # n
  <2>1. CASE TID = 0
    BY <1>1, <1>2, <2>1
       DEF Running, TypeInvariant, BeforeFirstCreate, LockPoints
  <2>2. CASE TID # 0
    <3>1. mlpq[0] = <<>>
      BY <1>2, <2>2 DEF LateInvariant, StrandedPlace, Stranded
    <3>2. Placed(t) /\ ~Queued(t)
      BY <2>2, <3>1, StateTypes
         DEF PlacesInvariant, AllPlaced, Scheduler_tcbs, Queued, Member
    <3>3. \A m \in Mutexes : ~Waits(t, m)
      BY DEF LateInvariant, WaitersInLock, LockPoints
    <3>4. \A s \in Tcbs : ~Carries(s, t)
      BY ConstantTypes
         DEF Carries, CarryPoints, WokenInLock, LockPoints, LateInvariant,
             CarriesItself, Itself
    <3> QED
      BY <3>2, <3>3, <3>4 DEF Placed
  <2> QED
    BY <2>1, <2>2
<1>3. ASSUME current_tcb = n PROVE FALSE
  <2>1. CASE pc[n] \notin LockPause
    BY <1>1, <1>3, <2>1, RunningIsQueued
       DEF PlacesInvariant, Apart, QueuedOrCarried
  <2>2. CASE pc[n] = "lock_pause"
    <3>1. Waits(n, mutex[n]) /\ mutex[n] \in Mutexes
      BY <2>2, LocalTypes
         DEF LateInvariant, PausedWaits, LocalsOK, PointsWithMutex
    <3> QED
      BY <1>1, <3>1 DEF PlacesInvariant, Apart, WaitsOrCarried
  <2>3. CASE pc[n] = "lock_enq"
    <3>1. Carries(n, n)
      BY <1>3, <2>3, ConstantTypes
         DEF LateInvariant, CarriesItself, Itself, Stranded, Carries,
             CarryPoints
    <3> QED
      BY <1>1, <2>3, <3>1 DEF PlacesInvariant, Apart, CarriedOnce
  <2> QED
    BY <2>1, <2>2, <2>3 DEF LockPause
<1> QED
  BY <1>2, <1>3 DEF Running

LEMMA NextWoken ==
  ASSUME LateContext, WokenInLock, [Next]_vars
  PROVE  WokenInLock'
<1> USE DEF LateContext, ServingInvariant
<1> SUFFICES ASSUME NEW t \in Tcbs, NEW n \in Tcbs,
                    pc'[t] = "unlock_sched", tcb_node'[t] = n
             PROVE  pc'[n] \in LockPoints
  BY DEF WokenInLock
<1>1. ASSUME NEW s \in Tcbs, ThreadStep(s) \/ ClientCall(s)
      PROVE  pc'[n] \in LockPoints
  <2>1. /\ OthersAlone(s) /\ Running = s
        /\ process = "alive" /\ handler = "idle"
    <3>1. CASE ThreadStep(s)
      BY <3>1, ThreadStepAlone, ThreadStepFrame, ConstantTypes DEF Running
    <3>2. CASE ClientCall(s)
      BY <3>2, ClientCallAlone
         DEF ClientCall, Create, Join, JoinThread, Exit, FunctionReturns,
             Yield, MainReturns, MutexInit, MutexLock, MutexUnlock, At
    <3> QED
      BY <1>1, <3>1, <3>2
  <2>2. CASE t = s
    <3>1. ThreadStep(s)
      BY <1>1, <2>2, LocalTypes
         DEF ClientCall, Create, Join, JoinThread, Exit, FunctionReturns,
             Yield, SignalHandler, AfterPause, MainReturns, MutexInit,
             MutexLock, MutexUnlock, At, Goto, Crash
    <3> QED
      BY <2>1, <2>2, <3>1, WakesAWaiter DEF OthersAlone, LockPoints
  <2>3. CASE t # s
    <3>1. pc[t] = "unlock_sched" /\ tcb_node[t] = n
      BY <2>1, <2>3 DEF OthersAlone
    <3>2. pc[n] \in LockPoints /\ n # s
      BY <2>1, <3>1, WokenIsParked DEF WokenInLock
    <3> QED
      BY <2>1, <3>2 DEF OthersAlone, LockPoints
  <2> QED
    BY <2>2, <2>3
<1>2. CASE \E expired \in BOOLEAN : Tick(expired)
  <2>1. /\ pc' \in {pc, [pc EXCEPT ![current_tcb] = AfterPause(@)]}
        /\ tcb_node' = tcb_node
    BY <1>2 DEF Tick, SignalHandler, Crash
  <2>2. \A s \in Tcbs : pc'[s] \in {pc[s], AfterPause(pc[s])}
    BY <2>1, LocalTypes
  <2> QED
    BY <2>1, <2>2 DEF WokenInLock, AfterPause, LockPoints
<1>3. CASE HandlerStep \/ UNCHANGED vars
  <2>1. UNCHANGED <<pc, tcb_node>>
    BY <1>3, HandlerFrame DEF vars
  <2> QED
    BY <2>1 DEF WokenInLock
<1> QED
  BY <1>1, <1>2, <1>3 DEF Next

(* A started thread that is not in the run queue is inside lock.           *)
LEMMA UnqueuedIsLocking ==
  ASSUME LateContext, WokenInLock, NEW n \in Workers, pc[n] # "none",
         ~Queued(n)
  PROVE  pc[n] \in LockPoints
<1> USE DEF LateContext, ServingInvariant
<1>1. Placed(n)
  BY ProgramConstants DEF PlacesInvariant, AllPlaced, Scheduler_tcbs
<1>2. ASSUME NEW m \in Mutexes, Waits(n, m)
      PROVE  pc[n] \in LockPoints
  BY <1>2, ProgramConstants DEF LateInvariant, WaitersInLock
<1>3. ASSUME NEW t \in Tcbs, Carries(t, n)
      PROVE  pc[n] \in LockPoints
  <2>1. CASE pc[t] = "unlock_sched"
    BY <1>3, <2>1, ProgramConstants DEF Carries, WokenInLock
  <2>2. CASE pc[t] = "lock_enq"
    BY <1>3, <2>2, ProgramConstants, ConstantTypes
       DEF Carries, LateInvariant, CarriesItself, Itself, LockPoints
  <2> QED
    BY <1>3, <2>1, <2>2 DEF Carries, CarryPoints
<1> QED
  BY <1>1, <1>2, <1>3 DEF Placed

GoneLocks ==
  \A t \in gone' \ gone :
    pc[t] \in {"lock_tas", "lock_deq", "lock_enq", "lock_pause"}

LEMMA NextGone ==
  ASSUME ProgramContext, AllStarted, LateContext, WokenInLock,
         [BenchmarkNext]_<<vars, benchmark>>
  PROVE  GoneLocks
<1>1. CASE MainJoins
  <2> DEFINE n == index[Main] + 1
  <2>1. n \in Workers /\ TID = MaxThreads /\ pc[Main] = "user"
    BY <1>1, MainJoinsIsJoin DEF MainJoins, JoinThread, At
  <2>2. gone' = IF get_tcb(n) = NoTcb THEN gone \cup {n} ELSE gone
    BY <1>1 DEF MainJoins
  <2>3. tid[n] = n /\ pc[n] # "none"
    BY <2>1, ProgramConstants
       DEF ProgramContext, ProgramInvariant, MainInvariant, TidsInOrder,
           AllStarted, CreatePoints
  <2>4. get_tcb(n) = NoTcb => ~Queued(n)
    BY <2>1, <2>3, get_tcbFinds, ProgramConstants
       DEF LateContext, ServingInvariant
  <2> QED
    BY <2>1, <2>2, <2>3, <2>4, UnqueuedIsLocking
       DEF GoneLocks, LockPoints
<1>2. CASE ~MainJoins
  <2>1. gone' = gone
    BY <1>2 DEF BenchmarkNext, MainInits, MainCreates, MainPrints,
                MainClears, RowLoads, RowStores, MainEnds,
                WorkerLocks, WorkerLoads, WorkerStores, WorkerUnlocks,
                WorkerReturns, Library, benchmark
  <2> QED
    BY <2>1 DEF GoneLocks
<1> QED
  BY <1>1, <1>2

(* A join returns without waiting only for a thread that is inside lock.   *)
THEOREM GoneIsLockingHolds ==
  ASSUME ~EarlyTicks
  PROVE  BenchmarkSpec => GoneIsLocking
<1>1. BenchmarkSpec => []AllStarted
  <2>1. BenchmarkInit => AllStarted
    BY DEF BenchmarkInit, Init, AllStarted
  <2>2. ProgramContext /\ AllStarted /\ [BenchmarkNext]_<<vars, benchmark>>
        => AllStarted'
    BY NextStarted
  <2> QED
    BY <2>1, <2>2, ProgramContextHolds, PTL DEF BenchmarkSpec
<1>2. BenchmarkSpec => [](LateContext /\ WokenInLock)
  <2>1. LateContext /\ WokenInLock /\ [Next]_vars => WokenInLock'
    BY NextWoken
  <2>2. Spec => []WokenInLock
    BY <2>1, InitWoken, LateContextHolds, PTL DEF Spec
  <2> QED
    BY <2>2, LateContextHolds, BenchmarkRunsTheScheduler, PTL
<1>3. /\ ProgramContext /\ AllStarted /\ LateContext /\ WokenInLock
      /\ [BenchmarkNext]_<<vars, benchmark>>
      => [GoneLocks]_<<vars, benchmark>>
  BY NextGone
<1>4. BenchmarkSpec => [][GoneLocks]_<<vars, benchmark>>
  BY <1>1, <1>2, <1>3, ProgramContextHolds, PTL DEF BenchmarkSpec
<1> QED
  BY <1>4 DEF GoneIsLocking, GoneLocks
=============================================================================
