-------------------- MODULE SchedulerRefinementProofs --------------------
(***************************************************************************)
(* The thread library implements RoundRobin: for every number of threads,  *)
(* levels and mutexes, with early ticks or not, and whatever the client    *)
(* calls, the handler and the queue operations serve one queue in turn.    *)
(* What follows from it: the handler resumes a live thread.                *)
(***************************************************************************)
EXTENDS SchedulerProofs

Done == {n \in Tcbs : state[n] = "TERMINATED"}

(* No tcb is ever put in the state YIELD that the helpers look for, and    *)
(* while the handler recurses no unlock is marked: it is the after-unlock  *)
(* helper's first act to clear the mark (my_pthread.c:636).                *)
NobodyYields == \A n \in Tcbs : state[n] # "YIELD"
MarkCleared ==
  process = "alive" /\ handler = "yield" => AFTER_UNLOCK_PRIORITY = -1

ServingInvariant ==
  /\ TypeInvariant /\ SingleLevel /\ FreshInvariant
  /\ NobodyYields /\ MarkCleared

(* A step of RoundRobin, or one that it does not see.                      *)
Served == IF TID = 0 THEN NoTcb ELSE Running
Serves == [OneQueue!Next]_(OneQueue!vars)
Unseen == UNCHANGED <<mlpq[0], Served, Done, handler # "idle",
                      AFTER_UNLOCK_PRIORITY # -1>>

LEMMA UnseenServes == ASSUME Unseen PROVE Serves
BY DEF Unseen, Serves, Served, Done, OneQueue!vars

LEMMA ServedKept ==
  ASSUME UNCHANGED <<TID, current_tcb, interrupted>>
  PROVE  Served' = Served /\ Running' = Running
BY DEF Served, Running

LEMMA DoneKept ==
  ASSUME \A n \in Tcbs : state'[n] = "TERMINATED" <=> state[n] = "TERMINATED"
  PROVE  Done' = Done
BY DEF Done

LEMMA FirstLevelType ==
  ASSUME TypeInvariant
  PROVE  mlpq[0] \in Seq(Tcbs) /\ DOMAIN mlpq = Levels /\ 0 \in Levels
BY LevelTypes, ConstantTypes

(* The thread library starts as RoundRobin does.                           *)
LEMMA InitServes == Init => OneQueue!Init /\ NobodyYields /\ MarkCleared
<1> SUFFICES ASSUME Init PROVE OneQueue!Init /\ NobodyYields /\ MarkCleared
  OBVIOUS
<1>1. mlpq[0] = <<>>
  BY ConstantTypes DEF Init
<1>2. Done = {}
  BY DEF Init, Done
<1> QED
  BY <1>1, <1>2 DEF Init, OneQueue!Init, Done, NobodyYields, MarkCleared

(* Tcbs join the queue at its end: create (540, 562), unlock (806-808).    *)
LEMMA AddServes ==
  ASSUME TypeInvariant, handler = "idle", NEW n \in Tcbs,
         mlpq' = Scheduled(mlpq, n, 0), Done' = Done,
         UNCHANGED <<TID, current_tcb, interrupted, handler,
                     AFTER_UNLOCK_PRIORITY>>
  PROVE  Serves
<1>1. mlpq'[0] = Append(mlpq[0], n)
  BY FirstLevelType DEF Scheduled, enqueue
<1>2. OneQueue!Add(n)
  BY <1>1, ServedKept DEF OneQueue!Add, Done, Served
<1> QED
  BY <1>2 DEF Serves, OneQueue!Next

LEMMA ThreadStepServes ==
  ASSUME ServingInvariant, NEW t \in Tcbs, ThreadStep(t)
  PROVE  Serves /\ NobodyYields'
<1> USE DEF ServingInvariant
<1>1. /\ Served = t /\ Served' = Served
      /\ handler = "idle" /\ process = "alive"
      /\ UNCHANGED <<TID, current_tcb, interrupted, handler>>
  BY ThreadStepFrame, ServedKept DEF Served
<1>2. ASSUME UNCHANGED <<mlpq, state, AFTER_UNLOCK_PRIORITY>>
      PROVE  Serves /\ NobodyYields'
  BY <1>1, <1>2, UnseenServes DEF Unseen, Done, NobodyYields
<1> USE DEF queues, fields, globals
<1>3. CASE CreateTid(t)
  BY <1>2, <1>3 DEF CreateTid
<1>4. CASE CreateHandle(t)
  BY <1>2, <1>4 DEF CreateHandle
<1>5. CASE CreateSchedule(t)
  <2>1. /\ tcb_node[t] \in Tcbs /\ pc[tcb_node[t]] = "none"
        /\ pc[t] = "create_sched"
    BY <1>5, LocalTypes
       DEF CreateSchedule, At, LocalsOK, PointsWithTcb, FreshInvariant,
           FreshTcbs, CreatePoints
  <2>2. state[tcb_node[t]] # "TERMINATED"
    BY <2>1 DEF FreshInvariant, NotTerminatedYet
  <2>3. /\ state' = [state EXCEPT ![tcb_node[t]] = "READY"]
        /\ mlpq' = Scheduled(mlpq, tcb_node[t], 0)
        /\ AFTER_UNLOCK_PRIORITY' = AFTER_UNLOCK_PRIORITY
    BY <1>5 DEF CreateSchedule
  <2>4. Done' = Done /\ NobodyYields'
    BY <2>1, <2>2, <2>3, StateTypes, DoneKept DEF NobodyYields
  <2> QED
    BY <1>1, <2>1, <2>3, <2>4, AddServes
<1>6. CASE CreateTimer(t)
  BY <1>2, <1>6 DEF CreateTimer
<1>7. CASE WrapperEntry(t)
  <2>1. /\ state' = [state EXCEPT ![t] = "RUNNING"]
        /\ UNCHANGED <<mlpq, AFTER_UNLOCK_PRIORITY>>
        /\ pc[t] = "entry"
    BY <1>7 DEF WrapperEntry, At
  <2>2. state[t] # "TERMINATED"
    BY <2>1 DEF FreshInvariant, NotTerminatedYet
  <2>3. Done' = Done /\ NobodyYields'
    BY <2>1, <2>2, StateTypes, DoneKept DEF NobodyYields
  <2> QED
    BY <1>1, <2>1, <2>3, UnseenServes DEF Unseen
<1>8. CASE WrapperCheck(t)
  BY <1>2, <1>8 DEF WrapperCheck
<1>9. CASE WrapperStoresResult(t)
  BY <1>2, <1>9 DEF WrapperStoresResult
<1>10. CASE WrapperTerminates(t)
  <2>1. /\ state' = [state EXCEPT ![t] = "TERMINATED"]
        /\ UNCHANGED <<mlpq, AFTER_UNLOCK_PRIORITY>>
    BY <1>10 DEF WrapperTerminates
  <2>2. Done' = Done \cup {Served} /\ NobodyYields'
    BY <1>1, <2>1, StateTypes DEF NobodyYields, Done
  <2>3. OneQueue!Finish
    BY <1>1, <2>1, <2>2 DEF OneQueue!Finish, Done, Served
  <2> QED
    BY <2>2, <2>3 DEF Serves, OneQueue!Next
<1>11. CASE WrapperReturns(t)
  BY <1>2, <1>11 DEF WrapperReturns
<1>12. CASE JoinSpin(t)
  BY <1>2, <1>12 DEF JoinSpin
<1>13. CASE JoinRead(t)
  BY <1>2, <1>13 DEF JoinRead
<1>14. CASE TestAndSet(t)
  BY <1>2, <1>14 DEF TestAndSet
<1>15. CASE LockDequeue(t)
  <2>1. /\ priority[t] = 0
        /\ mlpq' = [mlpq EXCEPT ![0] = dequeue(@)]
        /\ UNCHANGED <<state, AFTER_UNLOCK_PRIORITY>>
    BY <1>15 DEF LockDequeue, SingleLevel
  <2>2. mlpq'[0] = dequeue(mlpq[0])
    BY <2>1, FirstLevelType
  <2>3. CASE mlpq[0] = <<>>
    BY <1>1, <2>1, <2>2, <2>3, UnseenServes
       DEF dequeue, Unseen, Done, NobodyYields
  <2>4. CASE mlpq[0] # <<>>
    <3>1. OneQueue!Leave
      BY <1>1, <2>1, <2>2, <2>4 DEF dequeue, OneQueue!Leave, Served
    <3> QED
      BY <2>1, <3>1 DEF Serves, OneQueue!Next, NobodyYields
  <2> QED
    BY <2>3, <2>4
<1>16. CASE LockEnqueue(t)
  BY <1>2, <1>16 DEF LockEnqueue, Crash
<1>17. CASE UnlockDequeue(t)
  BY <1>2, <1>17 DEF UnlockDequeue
<1>18. CASE UnlockSchedule(t)
  <2>1. tcb_node[t] \in Tcbs
    BY <1>18, LocalTypes DEF UnlockSchedule, At, LocalsOK, PointsWithTcb
  <2>2. /\ mlpq' = Scheduled(mlpq, tcb_node[t], 0)
        /\ UNCHANGED <<state, AFTER_UNLOCK_PRIORITY>>
    BY <1>18 DEF UnlockSchedule
  <2> QED
    BY <1>1, <2>1, <2>2, AddServes DEF Done, NobodyYields
<1>19. CASE UnlockMark(t)
  <2>1. CASE Crash
    BY <1>2, <2>1 DEF Crash
  <2>2. CASE ~Crash
    <3>1. /\ AFTER_UNLOCK_PRIORITY' = 0
          /\ UNCHANGED <<mlpq, state>>
      BY <1>19, <2>2 DEF UnlockMark, SingleLevel
    <3>2. OneQueue!Release
      BY <1>1, <3>1 DEF OneQueue!Release, Served
    <3> QED
      BY <3>1, <3>2 DEF Serves, OneQueue!Next, NobodyYields
  <2> QED
    BY <2>1, <2>2
<1> QED
  BY <1>3, <1>4, <1>5, <1>6, <1>7, <1>8, <1>9, <1>10, <1>11, <1>12, <1>13,
     <1>14, <1>15, <1>16, <1>17, <1>18, <1>19
     DEF ThreadStep

(* The signal handler (384-429): the choice of the next thread begins, or  *)
(* the slice has not expired and nothing happens.                          *)
LEMMA SignalServes ==
  ASSUME handler = "idle", NobodyYields,
         NEW expired \in BOOLEAN, SignalHandler(expired)
  PROVE  Serves /\ NobodyYields' /\ MarkCleared'
<1>1. /\ UNCHANGED <<mlpq, state, AFTER_UNLOCK_PRIORITY>>
      /\ Served' = Served
  BY ServedKept DEF SignalHandler, Crash, queues, fields, globals
<1>2. NobodyYields' /\ MarkCleared'
  BY <1>1 DEF SignalHandler, Crash, NobodyYields, MarkCleared
<1>3. CASE handler' = "idle"
  BY <1>1, <1>2, <1>3, UnseenServes DEF Unseen, Done
<1>4. CASE handler' # "idle"
  BY <1>1, <1>2, <1>4 DEF Serves, OneQueue!Next, OneQueue!Preempt, Served
<1> QED
  BY <1>2, <1>3, <1>4

(* The first create (530-542) is the only step that starts a thread        *)
(* without a choice: main's.                                               *)
LEMMA CreateServes ==
  ASSUME ServingInvariant, NEW t \in Tcbs, Create(t)
  PROVE  Serves /\ NobodyYields'
<1> USE DEF ServingInvariant
<1>1. UNCHANGED <<handler, AFTER_UNLOCK_PRIORITY>>
  BY DEF Create
<1>2. CASE TID = 0
  <2>1. Served = NoTcb /\ state[Main] # "TERMINATED"
    BY <1>2 DEF FreshInvariant, NotTerminatedYet, Served
  <2>2. /\ Served' = Main
        /\ state' = [state EXCEPT ![Main] = "READY"]
        /\ mlpq' = Scheduled(mlpq, Main, 0)
    BY <1>2, ConstantTypes DEF Create, Served, Running
  <2>3. Done' = Done /\ NobodyYields'
    BY <2>1, <2>2, StateTypes, ConstantTypes, DoneKept DEF NobodyYields
  <2>4. mlpq'[0] = Append(mlpq[0], Main)
    BY <2>2, FirstLevelType DEF Scheduled, enqueue
  <2>5. OneQueue!Start(Main)
    BY <1>1, <2>1, <2>2, <2>3, <2>4 DEF OneQueue!Start, Done, Served
  <2> QED
    BY <2>3, <2>5, ConstantTypes DEF Serves, OneQueue!Next
<1>3. CASE TID # 0
  <2>1. UNCHANGED <<mlpq, state, Served>>
    BY <1>3, StateTypes DEF Create, Served, Running
  <2> QED
    BY <1>1, <2>1, UnseenServes DEF Unseen, Done, NobodyYields
<1> QED
  BY <1>2, <1>3

LEMMA ClientCallServes ==
  ASSUME ServingInvariant, NEW t \in Tcbs, ClientCall(t)
  PROVE  Serves /\ NobodyYields' /\ MarkCleared'
<1> USE DEF ServingInvariant
<1>1. handler = "idle"
  BY DEF ClientCall, Create, Join, JoinThread, Exit, FunctionReturns, Yield,
         MainReturns, MutexInit, MutexLock, MutexUnlock, At
<1>2. ASSUME UNCHANGED handler PROVE MarkCleared'
  BY <1>1, <1>2 DEF MarkCleared
<1>3. ASSUME UNCHANGED <<mlpq, state, globals, handler>>
      PROVE  Serves /\ NobodyYields' /\ MarkCleared'
  BY <1>2, <1>3, ServedKept, UnseenServes
     DEF Unseen, Done, NobodyYields, globals
<1> USE DEF queues, fields, globals, Crash
<1>4. CASE Create(t)
  BY <1>2, <1>4, CreateServes DEF Create
<1>5. CASE Join(t)
  BY <1>3, <1>5 DEF Join, JoinThread
<1>6. CASE Exit(t)
  <2>1. CASE current_tcb = NoTcb
    BY <1>3, <1>6, <2>1 DEF Exit
  <2>2. CASE current_tcb # NoTcb
    <3>1. Served = t
      BY <1>6, <2>2
         DEF Exit, At, Running, Served, TypeInvariant, BeforeFirstCreate
    <3>2. /\ state' = [state EXCEPT ![t] = "TERMINATED"]
          /\ UNCHANGED <<mlpq, Served, AFTER_UNLOCK_PRIORITY, handler>>
      BY <1>6, <2>2, ServedKept DEF Exit
    <3>3. Done' = Done \cup {Served} /\ NobodyYields'
      BY <3>1, <3>2, StateTypes DEF NobodyYields, Done
    <3>4. OneQueue!Finish
      BY <1>1, <3>2, <3>3 DEF OneQueue!Finish, Done, Served
    <3> QED
      BY <1>2, <3>2, <3>3, <3>4 DEF Serves, OneQueue!Next
  <2> QED
    BY <2>1, <2>2
<1>7. CASE FunctionReturns(t)
  BY <1>3, <1>7 DEF FunctionReturns
<1>8. CASE Yield(t)
  BY <1>1, <1>3, <1>8, SignalServes DEF Yield
<1>9. CASE MutexInit(t)
  BY <1>3, <1>9 DEF MutexInit
<1>10. CASE MutexLock(t)
  BY <1>3, <1>10 DEF MutexLock
<1>11. CASE MutexUnlock(t)
  BY <1>3, <1>11 DEF MutexUnlock
<1>12. CASE MainReturns(t)
  BY <1>3, <1>12 DEF MainReturns
<1> QED
  BY <1>4, <1>5, <1>6, <1>7, <1>8, <1>9, <1>10, <1>11, <1>12 DEF ClientCall

-----------------------------------------------------------------------------
(* The helpers.  With one level the scan of the levels, wherever HAS_RUN   *)
(* makes it go, can only find the head of level 0 (578-616).               *)
LEMMA SuccessorIsHead ==
  ASSUME TypeInvariant, NEW q \in RunQueues,
         \A l \in Levels \ {0} : q[l] = <<>>
  PROVE  Successor(0, q) = peek(q[0])
<1>1. HeadOf(q, Levels, Successor(0, q)) /\ 0 \in Levels
  BY SuccessorProperties, ConstantTypes DEF TypeInvariant, TypeOK
<1>2. q[0] \in Seq(Tcbs)
  BY <1>1 DEF RunQueues
<1> QED
  BY <1>1, <1>2, ConstantTypes DEF HeadOf, peek

(* The dispatch of a head is RoundRobin's, for either helper.              *)
LEMMA DispatchRuns ==
  ASSUME TypeInvariant, NobodyYields, handler # "idle", UNCHANGED TID,
         NEW q \in RunQueues, \A l \in Levels \ {0} : q[l] = <<>>,
         NEW st \in [Tcbs -> ThreadStates],
         \A n \in Tcbs : st[n] = "TERMINATED" <=> state[n] = "TERMINATED",
         \A n \in Tcbs : st[n] # "YIELD",
         mlpq' = q, Dispatch(0, q, st)
  PROVE  /\ NobodyYields' /\ Done' = Done
         /\ q[0] # <<>> => /\ OneQueue!Run(q[0])
                           /\ current_tcb' = Head(q[0])
         /\ q[0] = <<>> => /\ Served' = Served /\ handler' = "idle"
                           /\ current_tcb' = NoTcb
                           /\ interrupted' = current_tcb
<1>1. q[0] \in Seq(Tcbs)
  BY FirstLevelType DEF RunQueues
<1>2. Successor(0, q) = peek(q[0])
  BY SuccessorIsHead
<1>3. Done' = Done
  BY ConstantTypes, DispatchStates, DoneKept
<1>4. CASE q[0] = <<>>
  <2>1. /\ current_tcb' = NoTcb /\ interrupted' = current_tcb
        /\ state' = st /\ handler' = "idle"
    BY <1>2, <1>4 DEF peek, Dispatch
  <2>2. Served' = Served
    BY <2>1 DEF Served, Running, TypeInvariant, HandlerOK
  <2> QED
    BY <1>3, <1>4, <2>1, <2>2 DEF NobodyYields
<1>5. CASE q[0] # <<>>
  <2> DEFINE next == Head(q[0])
  <2>1. next \in Tcbs /\ Successor(0, q) = next /\ next # NoTcb
    BY <1>1, <1>2, <1>5, HeadIsTcb, ConstantTypes
  <2>2. /\ current_tcb' = next
        /\ state' = [st EXCEPT ![next] = CASE @ = "YIELD"      -> "READY"
                                           [] @ = "TERMINATED" -> @
                                           [] OTHER            -> "RUNNING"]
        /\ handler' = IF st[next] \in Skipped THEN "yield" ELSE "idle"
    BY <2>1 DEF Dispatch
  <2> HIDE DEF next
  <2>3. NobodyYields'
    BY <2>1, <2>2 DEF NobodyYields
  <2>4. (handler' # "idle") <=> next \in Done
    BY <2>1, <2>2 DEF Skipped, Done
  <2>5. Served' = next
    BY <2>1, <2>2 DEF Served, Running, TypeInvariant, BeforeFirstCreate
  <2>6. OneQueue!Run(q[0])
    BY <1>3, <2>4, <2>5 DEF OneQueue!Run, Done, Served, next
  <2> QED
    BY <1>3, <1>5, <2>2, <2>3, <2>6 DEF next
<1> QED
  BY <1>4, <1>5

LEMMA RotatedType ==
  ASSUME NEW q \in Seq(Tcbs), q # <<>>
  PROVE  /\ Append(Tail(q), Head(q)) \in Seq(Tcbs)
         /\ Append(Tail(q), Head(q)) # <<>>
<1>1. Head(q) \in Tcbs /\ Tail(q) \in Seq(Tcbs)
  BY HeadTailProperties
<1>2. \A s \in Seq(Tcbs), n \in Tcbs :
        Append(s, n) \in Seq(Tcbs) /\ Append(s, n) # <<>>
  BY AppendProperties
<1> QED
  BY <1>1, <1>2, Zenon

(* The yield helper's two outcomes: nobody is left to run, or the head of  *)
(* level 0 goes to its end and the new head runs.                          *)
NobodyLeft == peek(mlpq[0]) = NoTcb \/ AllTerminated

LEMMA YieldHelperLevel ==
  ASSUME ServingInvariant, YieldHelper
  PROVE  /\ current_tcb \in Tcbs /\ priority[current_tcb] = 0
         /\ handler = "yield" /\ process = "alive"
         /\ NobodyLeft => Crash
BY DEF YieldHelper, ServingInvariant, TypeInvariant, TypeOK, HandlerOK,
       SingleLevel, NobodyLeft

LEMMA YieldHelperRotates ==
  ASSUME ServingInvariant, YieldHelper, ~NobodyLeft
  PROVE  /\ OneQueue!Rotate /\ NobodyYields' /\ process' = "alive"
         /\ AFTER_UNLOCK_PRIORITY' = -1 /\ current_tcb' \in Tcbs
<1> USE DEF ServingInvariant
<1>1. /\ current_tcb \in Tcbs /\ priority[current_tcb] = 0
      /\ handler = "yield" /\ process = "alive"
  BY YieldHelperLevel
<1> DEFINE node == peek(mlpq[0])
           q == Scheduled([mlpq EXCEPT ![0] = dequeue(@)], node,
                          priority[node])
<1>2. /\ node # NoTcb /\ mlpq' = q /\ Dispatch(0, q, Yielded(node))
      /\ UNCHANGED <<AFTER_UNLOCK_PRIORITY, TID, process>>
  BY <1>1 DEF YieldHelper, NobodyLeft
<1>3. mlpq[0] # <<>> /\ node = Head(mlpq[0]) /\ node \in Tcbs
  BY <1>2, FirstLevelType, HeadIsTcb DEF peek
<1>4. q = [mlpq EXCEPT ![0] = Append(Tail(mlpq[0]), Head(mlpq[0]))]
  BY <1>3, FirstLevelType, LevelTypes
     DEF SingleLevel, Scheduled, enqueue, dequeue
<1>5. /\ Yielded(node) \in [Tcbs -> ThreadStates]
      /\ \A n \in Tcbs :
           Yielded(node)[n] = "TERMINATED" <=> state[n] = "TERMINATED"
      /\ \A n \in Tcbs : Yielded(node)[n] # "YIELD"
  BY <1>3, StateTypes DEF Yielded, ThreadStates, NobodyYields
<1> DEFINE rotated == Append(Tail(mlpq[0]), Head(mlpq[0]))
<1>6. rotated \in Seq(Tcbs) /\ rotated # <<>>
  BY <1>3, FirstLevelType, RotatedType
<1> HIDE DEF node, q, rotated
<1>7. /\ q \in RunQueues /\ q[0] = rotated
      /\ \A l \in Levels \ {0} : q[l] = <<>>
  BY <1>4, <1>6, FirstLevelType, LevelTypes
     DEF RunQueues, SingleLevel, rotated
<1>8. NobodyYields' /\ OneQueue!Run(rotated) /\ current_tcb' \in Tcbs
  BY <1>1, <1>2, <1>5, <1>6, <1>7, DispatchRuns
<1>9. AFTER_UNLOCK_PRIORITY = -1
  BY <1>1 DEF MarkCleared
<1>10. OneQueue!Rotate
  BY <1>1, <1>2, <1>3, <1>8, <1>9 DEF OneQueue!Rotate, rotated
<1> QED
  BY <1>1, <1>2, <1>8, <1>9, <1>10

LEMMA YieldHelperServes ==
  ASSUME ServingInvariant, YieldHelper
  PROVE  Serves /\ NobodyYields' /\ MarkCleared'
<1>1. CASE NobodyLeft
  BY <1>1, YieldHelperLevel, ServedKept, UnseenServes
     DEF Crash, queues, fields, globals, Unseen, Done, NobodyYields,
         MarkCleared, ServingInvariant
<1>2. CASE ~NobodyLeft
  BY <1>2, YieldHelperRotates DEF Serves, OneQueue!Next, MarkCleared
<1> QED
  BY <1>1, <1>2

(* The after-unlock helper's: the head runs, or nobody is in line and the  *)
(* interrupted thread goes on, with current_tcb NULL (669-671).            *)
LEMMA YieldAfterUnlockChoice ==
  ASSUME ServingInvariant, YieldAfterUnlockHelper
  PROVE  /\ NobodyYields' /\ process' = "alive"
         /\ AFTER_UNLOCK_PRIORITY' = -1
         /\ mlpq[0] # <<>> => OneQueue!Resume /\ current_tcb' \in Tcbs
         /\ mlpq[0] = <<>> => /\ OneQueue!GoOn /\ current_tcb' = NoTcb
                              /\ interrupted' = current_tcb
<1> USE DEF ServingInvariant
<1>1. /\ handler = "after_unlock" /\ process' = "alive"
      /\ AFTER_UNLOCK_PRIORITY = 0 /\ AFTER_UNLOCK_PRIORITY' = -1
      /\ mlpq \in RunQueues /\ UNCHANGED <<mlpq, TID>>
      /\ Dispatch(0, mlpq, state)
  BY ConstantTypes
     DEF YieldAfterUnlockHelper, queues, RunQueues, TypeInvariant, TypeOK,
         HandlerOK, SingleLevel
<1>2. /\ NobodyYields' /\ Done' = Done
      /\ mlpq[0] # <<>> => /\ OneQueue!Run(mlpq[0])
                           /\ current_tcb' = Head(mlpq[0])
      /\ mlpq[0] = <<>> => /\ Served' = Served /\ handler' = "idle"
                           /\ current_tcb' = NoTcb
                           /\ interrupted' = current_tcb
  BY <1>1, StateTypes, DispatchRuns DEF SingleLevel, NobodyYields
<1>3. ASSUME mlpq[0] # <<>> PROVE OneQueue!Resume /\ current_tcb' \in Tcbs
  BY <1>1, <1>2, <1>3, FirstLevelType, HeadIsTcb DEF OneQueue!Resume
<1>4. ASSUME mlpq[0] = <<>> PROVE OneQueue!GoOn
  BY <1>1, <1>2, <1>4 DEF OneQueue!GoOn, Done, Served
<1> QED
  BY <1>1, <1>2, <1>3, <1>4

LEMMA YieldAfterUnlockHelperServes ==
  ASSUME ServingInvariant, YieldAfterUnlockHelper
  PROVE  Serves /\ NobodyYields' /\ MarkCleared'
BY YieldAfterUnlockChoice DEF Serves, OneQueue!Next, MarkCleared

LEMMA NextServes ==
  ServingInvariant /\ [Next]_vars
    => Serves /\ NobodyYields' /\ MarkCleared'
<1> SUFFICES ASSUME ServingInvariant, [Next]_vars
             PROVE  Serves /\ NobodyYields' /\ MarkCleared'
  OBVIOUS
<1>1. ASSUME NEW t \in Tcbs, ThreadStep(t)
      PROVE  Serves /\ NobodyYields' /\ MarkCleared'
  BY <1>1, ThreadStepServes, ThreadStepFrame
     DEF MarkCleared, ServingInvariant
<1>2. ASSUME NEW t \in Tcbs, ClientCall(t)
      PROVE  Serves /\ NobodyYields' /\ MarkCleared'
  BY <1>2, ClientCallServes
<1>3. ASSUME NEW expired \in BOOLEAN, Tick(expired)
      PROVE  Serves /\ NobodyYields' /\ MarkCleared'
  BY <1>3, SignalServes DEF Tick, ServingInvariant
<1>4. CASE HandlerStep
  BY <1>4, YieldHelperServes, YieldAfterUnlockHelperServes DEF HandlerStep
<1>5. CASE UNCHANGED vars
  BY <1>5, ServedKept, UnseenServes
     DEF vars, queues, fields, globals, Unseen, Done, NobodyYields,
         MarkCleared, ServingInvariant
<1> QED
  BY <1>1, <1>2, <1>3, <1>4, <1>5 DEF Next

LEMMA ServingInvariantHolds == Spec => []ServingInvariant
<1>1. Spec => [](NobodyYields /\ MarkCleared)
  <2>1. Init => NobodyYields /\ MarkCleared
    BY InitServes
  <2>2. /\ TypeInvariant /\ SingleLevel /\ FreshInvariant
        /\ NobodyYields /\ MarkCleared /\ [Next]_vars
        => NobodyYields' /\ MarkCleared'
    BY NextServes DEF ServingInvariant
  <2> QED
    BY <2>1, <2>2, TypeInvariantHolds, SingleLevelHolds, FreshInvariantHolds,
       PTL DEF Spec
<1> QED
  BY <1>1, TypeInvariantHolds, SingleLevelHolds, FreshInvariantHolds, PTL
     DEF ServingInvariant

(* my_pthread.c:402, "basically round robin": whatever the ticks, the      *)
(* unlocks, the creates and the exits, the two helpers and the moves of    *)
(* tcbs in and out of the run queue serve one queue in turn.               *)
THEOREM ServesInTurnHolds == Spec => ServesInTurn
<1>1. Init => OneQueue!Init
  BY InitServes
<1>2. ServingInvariant /\ [Next]_vars => [OneQueue!Next]_(OneQueue!vars)
  BY NextServes DEF Serves
<1> QED
  BY <1>1, <1>2, ServingInvariantHolds, PTL
     DEF Spec, ServesInTurn, OneQueue!Spec

-----------------------------------------------------------------------------
(* What RoundRobin promises of the end of a choice, the library keeps.     *)

Resumed ==
  handler # "idle" /\ handler' = "idle" /\ current_tcb' # NoTcb =>
    /\ state[current_tcb'] # "TERMINATED"
    /\ mlpq'[priority'[current_tcb']] # <<>>
    /\ Head(mlpq'[priority'[current_tcb']]) = current_tcb'

LEMMA ServingResumesLiveHead ==
  ServingInvariant /\ ServingInvariant' /\ [Next]_vars => Resumed
<1> SUFFICES ASSUME ServingInvariant, ServingInvariant', [Next]_vars,
                    handler # "idle", handler' = "idle",
                    current_tcb' # NoTcb
             PROVE  /\ state[current_tcb'] # "TERMINATED"
                    /\ mlpq'[priority'[current_tcb']] # <<>>
                    /\ Head(mlpq'[priority'[current_tcb']]) = current_tcb'
  BY DEF Resumed
<1>1. mlpq[0] \in Seq(Tcbs)
  BY FirstLevelType DEF ServingInvariant
<1>2. OneQueue!Rotate \/ OneQueue!Resume
  <2>1. YieldHelper \/ YieldAfterUnlockHelper
    BY ThreadStepFrame
       DEF ServingInvariant, Next, HandlerStep, Tick, ClientCall, Create,
           Join, JoinThread, Exit, FunctionReturns, MainReturns, Yield,
           MutexInit, MutexLock, MutexUnlock, At, vars
  <2>2. ~Crash
    BY DEF Crash
  <2> QED
    BY <2>1, <2>2, YieldHelperLevel, YieldHelperRotates,
       YieldAfterUnlockChoice
<1>3. PICK q \in Seq(Tcbs) : q # <<>> /\ OneQueue!Run(q)
  <2>1. CASE OneQueue!Rotate
    <3> DEFINE rotated == Append(Tail(mlpq[0]), Head(mlpq[0]))
    <3>1. mlpq[0] # <<>> /\ OneQueue!Run(rotated)
      BY <2>1 DEF OneQueue!Rotate
    <3>2. rotated \in Seq(Tcbs) /\ rotated # <<>>
      BY <1>1, <3>1, RotatedType
    <3> HIDE DEF rotated
    <3> QED
      BY <3>1, <3>2
  <2>2. CASE OneQueue!Resume
    BY <1>1, <2>2 DEF OneQueue!Resume
  <2> QED
    BY <1>2, <2>1, <2>2
<1>4. mlpq'[0] = q /\ current_tcb' = Head(q) /\ Head(q) \notin Done
  <2>1. /\ mlpq'[0] = q /\ Served' = Head(q) /\ Head(q) \notin Done
    BY <1>3 DEF OneQueue!Run, Done, Served
  <2>2. Head(q) \in Tcbs /\ Head(q) # NoTcb
    BY <1>3, ConstantTypes
  <2> QED
    BY <2>1, <2>2 DEF Served, Running
<1>5. Head(q) \in Tcbs
  BY <1>3
<1>6. priority'[current_tcb'] = 0
  BY <1>4, <1>5 DEF ServingInvariant, SingleLevel
<1> QED
  BY <1>3, <1>4, <1>5, <1>6 DEF Done

(* The thread the handler resumes is alive and at the head of its level    *)
(* (my_pthread.c:617-630, 676-688).                                        *)
THEOREM ResumesLiveHeadHolds == Spec => ResumesLiveHead
<1>1. Spec => [][Resumed]_vars
  BY ServingResumesLiveHead, ServingInvariantHolds, PTL DEF Spec
<1> QED
  BY <1>1 DEF ResumesLiveHead, Resumed

=============================================================================
