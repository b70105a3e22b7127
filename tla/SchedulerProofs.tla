-------------------------- MODULE SchedulerProofs --------------------------
(***************************************************************************)
(* What holds of the thread library for every number of threads, levels    *)
(* and mutexes, with any creators and joiners and with early ticks or not: *)
(* its types and, with them, mutual exclusion, the single level, the       *)
(* permanence of TERMINATED and the value a join reads.                    *)
(***************************************************************************)
EXTENDS Scheduler, TLAPS, SequenceTheorems, WellFoundedInduction

-----------------------------------------------------------------------------
(* Lemmas about the operators of the model.                                *)

LEMMA LessThanIsWellFounded ==
  IsWellFoundedOn({ss \in Nat \X Nat : ss[1] < ss[2]}, Nat)
BY NatLessThanWellFounded DEF OpToRel

(* Least finds the least element of a nonempty set of naturals.            *)
LEMMA LeastProperties ==
  ASSUME NEW S \in SUBSET Nat, S # {}
  PROVE  Least(S) \in S /\ \A y \in S : Least(S) <= y
<1> DEFINE R == {ss \in Nat \X Nat : ss[1] < ss[2]}
<1>1. PICK x \in S : \A y \in S : ~(<<y, x>> \in R)
  <2> HIDE DEF R
  <2>1. IsWellFoundedOn(R, Nat)
    BY LessThanIsWellFounded DEF R
  <2> QED
    BY <2>1, WFMin
<1>2. ASSUME NEW y \in S PROVE x <= y
  <2>1. <<y, x>> \in Nat \X Nat /\ <<y, x>>[1] = y /\ <<y, x>>[2] = x
    OBVIOUS
  <2>2. ~(y < x)
    BY <1>1, <2>1
  <2> QED
    BY <2>2
<1> QED
  BY <1>2 DEF Least

RunQueues == [Levels -> Seq(Tcbs)]

(* A head of one of the levels S, or nothing if all of them are empty.     *)
HeadOf(q, S, n) ==
  \/ n = NoTcb /\ \A l \in S : q[l] = <<>>
  \/ n \in Tcbs /\ \E l \in S : q[l] # <<>> /\ n = Head(q[l])

LEMMA HeadIsTcb ==
  ASSUME NEW q \in Seq(Tcbs), q # <<>>
  PROVE  Head(q) \in Tcbs /\ peek(q) = Head(q)
BY DEF peek

LEMMA FirstHeadProperties ==
  ASSUME NEW q \in RunQueues, NEW S \in SUBSET Levels
  PROVE  HeadOf(q, S, FirstHead(q, S))
<1> DEFINE nonempty == {l \in S : q[l] # <<>>}
<1>1. CASE nonempty = {}
  BY <1>1 DEF FirstHead, HeadOf
<1>2. CASE nonempty # {}
  <2>1. nonempty \in SUBSET Nat
    <3>1. Levels \subseteq Nat
      BY SchedulerAssumption DEF Levels
    <3> QED
      BY <3>1
  <2>2. Least(nonempty) \in nonempty
    BY <1>2, <2>1, LeastProperties
  <2>3. q[Least(nonempty)] \in Seq(Tcbs) /\ q[Least(nonempty)] # <<>>
    BY <2>2 DEF RunQueues
  <2>4. FirstHead(q, S) = peek(q[Least(nonempty)])
    BY <1>2 DEF FirstHead
  <2> QED
    BY <2>2, <2>3, <2>4, HeadIsTcb DEF HeadOf
<1> QED
  BY <1>1, <1>2

(* The helpers' scan (my_pthread.c:578-616) ends at the head of a level    *)
(* that is not empty whenever there is one.                                *)
LEMMA SuccessorProperties ==
  ASSUME NEW q \in RunQueues, NEW cp \in Levels, HAS_RUN \in Nat
  PROVE  HeadOf(q, Levels, Successor(cp, q))
<1> DEFINE start == IF cp = NUMBER_LEVELS - 1 THEN 0 ELSE cp + 1
           Level(i) == (start + i) % NUMBER_LEVELS
           ahead == {i \in 0 .. NUMBER_LEVELS - 2 : q[Level(i)] # <<>>}
<1>1. NUMBER_LEVELS \in Nat \ {0} /\ cp \in 0 .. NUMBER_LEVELS - 1
  BY SchedulerAssumption DEF Levels
<1>2. CASE ~StartsOver(q[cp])
  <2>1. q[cp] \in Seq(Tcbs) /\ HAS_RUN < Len(q[cp])
    BY <1>2 DEF RunQueues, StartsOver
  <2>2. q[cp] # <<>>
    BY <2>1
  <2> QED
    BY <1>2, <2>1, <2>2, HeadIsTcb DEF Successor, HeadOf
<1>3. CASE StartsOver(q[cp]) /\ ahead # {}
  <2>1. ahead \in SUBSET Nat
    BY <1>1
  <2>2. Least(ahead) \in ahead
    BY <1>3, <2>1, LeastProperties
  <2>3. start + Least(ahead) \in Nat
    BY <1>1, <2>1, <2>2
  <2>4. Level(Least(ahead)) \in Levels
    <3>1. \A k \in Nat : k % NUMBER_LEVELS \in 0 .. NUMBER_LEVELS - 1
      BY <1>1
    <3> HIDE DEF start, ahead
    <3> QED
      BY <2>3, <3>1 DEF Levels
  <2>5. q[Level(Least(ahead))] \in Seq(Tcbs)
    BY <2>4 DEF RunQueues
  <2>6. q[Level(Least(ahead))] # <<>>
    BY <2>2
  <2>7. Successor(cp, q) = peek(q[Level(Least(ahead))])
    BY <1>3 DEF Successor
  <2> HIDE DEF ahead, Level
  <2> QED
    BY <2>4, <2>5, <2>6, <2>7, HeadIsTcb DEF HeadOf
<1>4. CASE StartsOver(q[cp]) /\ ahead = {}
  BY <1>4, FirstHeadProperties DEF Successor, LowestHead
<1> QED
  BY <1>2, <1>3, <1>4

-----------------------------------------------------------------------------
(* Type correctness.  It is not inductive alone: what a thread's local     *)
(* pointers may be depends on where the thread is, and before the first    *)
(* create nothing but main can have run.                                   *)

PointsWithTcb == {"create_tid", "create_handle", "create_sched",
                  "unlock_sched", "join_spin", "join_read"}
PointsWithMutex == {"lock_tas", "lock_deq", "lock_enq", "lock_pause",
                    "unlock_deq"}

LocalsOK ==
  \A t \in Tcbs :
    /\ pc[t] \in PointsWithTcb => tcb_node[t] \in Tcbs
    /\ pc[t] \in PointsWithMutex => mutex[t] \in Mutexes

BeforeFirstCreate ==
  TID = 0 =>
    /\ current_tcb = NoTcb /\ interrupted = Main
    /\ ~first_thread /\ handler = "idle" /\ pc[Main] = "user"
    /\ handles = {} /\ held[Main] = {}

(* A signal that finds current_tcb NULL does not get as far as a helper.   *)
HandlerOK ==
  /\ handler # "idle" => current_tcb # NoTcb
  /\ handler = "after_unlock" => AFTER_UNLOCK_PRIORITY \in Levels

TypeInvariant == TypeOK /\ LocalsOK /\ BeforeFirstCreate /\ HandlerOK

LEMMA ConstantTypes ==
  /\ MaxThreads \in Nat /\ NUMBER_LEVELS \in Nat \ {0, 1}
  /\ Main \in Tcbs /\ 0 \in Levels /\ NoTcb \notin Tcbs
  /\ Tcbs \subseteq Nat /\ Levels \subseteq Nat
BY SchedulerAssumption DEF Main, Tcbs, Levels, NoTcb

LEMMA InitTypes == Init => TypeInvariant
<1> SUFFICES ASSUME Init PROVE TypeInvariant
  OBVIOUS
<1>1. TypeOK
  <2>1. <<>> \in Seq(Tcbs)
    OBVIOUS
  <2>2. /\ mlpq \in [Levels -> Seq(Tcbs)]
        /\ lock_wait_queue \in [Mutexes -> Seq(Tcbs)]
    BY <2>1 DEF Init
  <2>3. /\ TID \in 0 .. MaxThreads
        /\ tid \in [Tcbs -> 0 .. MaxThreads]
        /\ HAS_RUN \in Nat
    BY ConstantTypes DEF Init
  <2>4. /\ pc \in [Tcbs -> Points]
        /\ state \in [Tcbs -> ThreadStates]
        /\ priority \in [Tcbs -> Levels]
        /\ return_value \in [Tcbs -> ReturnValues]
        /\ joined \in [Tcbs -> ReturnValues \cup {"none", "error"}]
    BY ConstantTypes DEF Init, ThreadStates, ReturnValues, Points
  <2> QED
    BY <2>2, <2>3, <2>4, ConstantTypes DEF Init, TypeOK
<1>2. LocalsOK
  BY DEF Init, LocalsOK, PointsWithTcb, PointsWithMutex
<1>3. BeforeFirstCreate /\ HandlerOK
  BY ConstantTypes DEF Init, BeforeFirstCreate, HandlerOK
<1> QED
  BY <1>1, <1>2, <1>3 DEF TypeInvariant

(* Where a thread is, when the handler does not run.                       *)
LEMMA RunningType ==
  ASSUME TypeInvariant, NEW t \in Tcbs, NEW p, At(t, p)
  PROVE  pc[t] = p /\ Running = t /\ (p # "user" => TID # 0)
BY DEF At, Running, TypeInvariant, BeforeFirstCreate

LEMMA QueueTypes ==
  ASSUME NEW q \in Seq(Tcbs)
  PROVE  /\ dequeue(q) \in Seq(Tcbs)
         /\ peek(q) \in Tcbs \cup {NoTcb}
         /\ q # <<>> => peek(q) \in Tcbs
         /\ \A n \in Tcbs : enqueue(q, n) \in Seq(Tcbs)
BY DEF dequeue, peek, enqueue

LEMMA ScheduledType ==
  ASSUME NEW q \in RunQueues, NEW n \in Tcbs, NEW l \in Levels
  PROVE  Scheduled(q, n, l) \in RunQueues
<1>1. enqueue(q[l], n) \in Seq(Tcbs)
  BY QueueTypes DEF RunQueues
<1> QED
  BY <1>1 DEF RunQueues, Scheduled

LEMMA CreateTypes ==
  ASSUME TypeInvariant, NEW t \in Tcbs, Create(t)
  PROVE  TypeInvariant'
<1>1. /\ TID + 1 \in Tcbs /\ TID + 1 \in 0 .. MaxThreads
      /\ pc[t] = "user"
  BY ConstantTypes DEF Create, At, TypeInvariant, TypeOK, Tcbs
<1>2. mlpq' \in [Levels -> Seq(Tcbs)]
  <2>1. mlpq \in RunQueues
    BY DEF TypeInvariant, TypeOK, RunQueues
  <2>2. Scheduled(mlpq, Main, 0) \in RunQueues
    BY <2>1, ConstantTypes, ScheduledType
  <2> QED
    BY <2>1, <2>2 DEF Create, RunQueues
<1>3. current_tcb' \in Tcbs \cup {NoTcb} /\ interrupted' \in Tcbs /\ TID' # 0
  BY ConstantTypes DEF Create, TypeInvariant, TypeOK
<1>4. TypeOK'
  BY <1>1, <1>2, <1>3, ConstantTypes
     DEF Create, Goto, client, TypeInvariant, TypeOK, ThreadStates, Points
<1>5. LocalsOK'
  BY <1>1 DEF Create, Goto, TypeInvariant, TypeOK, LocalsOK, PointsWithTcb,
              PointsWithMutex
<1>6. BeforeFirstCreate' /\ HandlerOK'
  BY <1>3, ConstantTypes DEF Create, At, BeforeFirstCreate, HandlerOK
<1> QED
  BY <1>4, <1>5, <1>6 DEF TypeInvariant

(* The types of a thread's local control alone.                            *)
LEMMA LocalTypes ==
  ASSUME TypeInvariant
  PROVE  /\ pc \in [Tcbs -> Points]
         /\ tcb_node \in [Tcbs -> Tcbs \cup {NoTcb}]
         /\ mutex \in [Tcbs -> Mutexes \cup {NoMutex}]
         /\ LocalsOK
BY DEF TypeInvariant, TypeOK

(* A thread past its call is the running one and keeps the processor.      *)
LEMMA ThreadStepFrame ==
  ASSUME TypeInvariant, NEW t \in Tcbs, ThreadStep(t)
  PROVE  /\ Running = t /\ TID # 0 /\ handler = "idle" /\ process = "alive"
         /\ UNCHANGED <<current_tcb, interrupted, handler, TID, HAS_RUN,
                        usable>>
<1>1. ASSUME NEW p, p # "user", At(t, p)
      PROVE  /\ Running = t /\ TID # 0 /\ handler = "idle"
             /\ process = "alive"
  BY <1>1, RunningType DEF At
<1> USE DEF globals, client, Crash
<1>2. CASE CreateTid(t)
  BY <1>1, <1>2 DEF CreateTid
<1>3. CASE CreateHandle(t)
  BY <1>1, <1>3 DEF CreateHandle
<1>4. CASE CreateSchedule(t)
  BY <1>1, <1>4 DEF CreateSchedule
<1>5. CASE CreateTimer(t)
  BY <1>1, <1>5 DEF CreateTimer
<1>6. CASE WrapperEntry(t)
  BY <1>1, <1>6 DEF WrapperEntry
<1>7. CASE WrapperCheck(t)
  BY <1>1, <1>7 DEF WrapperCheck
<1>8. CASE WrapperStoresResult(t)
  BY <1>1, <1>8 DEF WrapperStoresResult
<1>9. CASE WrapperTerminates(t)
  BY <1>1, <1>9 DEF WrapperTerminates
<1>10. CASE WrapperReturns(t)
  BY <1>1, <1>10 DEF WrapperReturns
<1>11. CASE JoinSpin(t)
  BY <1>1, <1>11 DEF JoinSpin
<1>12. CASE JoinRead(t)
  BY <1>1, <1>12 DEF JoinRead
<1>13. CASE TestAndSet(t)
  BY <1>1, <1>13 DEF TestAndSet
<1>14. CASE LockDequeue(t)
  BY <1>1, <1>14 DEF LockDequeue
<1>15. CASE LockEnqueue(t)
  BY <1>1, <1>15 DEF LockEnqueue
<1>16. CASE UnlockDequeue(t)
  BY <1>1, <1>16 DEF UnlockDequeue
<1>17. CASE UnlockSchedule(t)
  BY <1>1, <1>17 DEF UnlockSchedule
<1>18. CASE UnlockMark(t)
  BY <1>1, <1>18 DEF UnlockMark
<1> QED
  BY <1>2, <1>3, <1>4, <1>5, <1>6, <1>7, <1>8, <1>9, <1>10, <1>11, <1>12, <1>13, <1>14, <1>15, <1>16, <1>17, <1>18 DEF ThreadStep

LEMMA ThreadStepTypes ==
  ASSUME TypeInvariant, NEW t \in Tcbs, ThreadStep(t)
  PROVE  TypeInvariant'
<1> USE ConstantTypes DEF Goto, Crash, queues, fields, globals, client
<1>1. BeforeFirstCreate' /\ HandlerOK'
  BY ThreadStepFrame DEF BeforeFirstCreate, HandlerOK
<1>2. SUFFICES TypeOK' /\ LocalsOK'
  BY <1>1 DEF TypeInvariant
<1>3. CASE CreateTid(t)
  <2>1. TypeOK'
    BY <1>3 DEF CreateTid, At, TypeInvariant, TypeOK, LocalsOK, ThreadStates,
              ReturnValues, Points, PointsWithTcb, PointsWithMutex
  <2>2. LocalsOK'
    BY <1>3, LocalTypes DEF CreateTid, At, LocalsOK, PointsWithTcb,
                          PointsWithMutex
  <2> QED
    BY <2>1, <2>2
<1>4. CASE CreateHandle(t)
  <2>1. TypeOK'
    BY <1>4 DEF CreateHandle, At, TypeInvariant, TypeOK, LocalsOK, ThreadStates,
              ReturnValues, Points, PointsWithTcb, PointsWithMutex
  <2>2. LocalsOK'
    BY <1>4, LocalTypes DEF CreateHandle, At, LocalsOK, PointsWithTcb,
                          PointsWithMutex
  <2> QED
    BY <2>1, <2>2
<1>5. CASE CreateSchedule(t)
  <2>1. tcb_node[t] \in Tcbs
    BY <1>5, LocalTypes DEF CreateSchedule, At, LocalsOK, PointsWithTcb
  <2>2. mlpq' \in [Levels -> Seq(Tcbs)]
    BY <1>5, <2>1, ScheduledType
       DEF CreateSchedule, TypeInvariant, TypeOK, RunQueues
  <2>3. TypeOK'
    BY <1>5, <2>1, <2>2 DEF CreateSchedule, TypeInvariant, TypeOK, Points, ThreadStates
  <2>4. LocalsOK'
    BY <1>5, LocalTypes DEF CreateSchedule, At, LocalsOK, PointsWithTcb,
                          PointsWithMutex
  <2> QED
    BY <2>3, <2>4
<1>6. CASE CreateTimer(t)
  <2>1. TypeOK'
    BY <1>6 DEF CreateTimer, At, TypeInvariant, TypeOK, LocalsOK, ThreadStates,
              ReturnValues, Points, PointsWithTcb, PointsWithMutex
  <2>2. LocalsOK'
    BY <1>6, LocalTypes DEF CreateTimer, At, LocalsOK, PointsWithTcb,
                          PointsWithMutex
  <2> QED
    BY <2>1, <2>2
<1>7. CASE WrapperEntry(t)
  <2>1. TypeOK'
    BY <1>7 DEF WrapperEntry, At, TypeInvariant, TypeOK, LocalsOK, ThreadStates,
              ReturnValues, Points, PointsWithTcb, PointsWithMutex
  <2>2. LocalsOK'
    BY <1>7, LocalTypes DEF WrapperEntry, At, LocalsOK, PointsWithTcb,
                          PointsWithMutex
  <2> QED
    BY <2>1, <2>2
<1>8. CASE WrapperCheck(t)
  <2>1. TypeOK'
    BY <1>8 DEF WrapperCheck, At, TypeInvariant, TypeOK, LocalsOK, ThreadStates,
              ReturnValues, Points, PointsWithTcb, PointsWithMutex
  <2>2. LocalsOK'
    BY <1>8, LocalTypes DEF WrapperCheck, At, LocalsOK, PointsWithTcb,
                          PointsWithMutex
  <2> QED
    BY <2>1, <2>2
<1>9. CASE WrapperStoresResult(t)
  <2>1. TypeOK'
    BY <1>9 DEF WrapperStoresResult, At, TypeInvariant, TypeOK, LocalsOK, ThreadStates,
              ReturnValues, Points, PointsWithTcb, PointsWithMutex
  <2>2. LocalsOK'
    BY <1>9, LocalTypes DEF WrapperStoresResult, At, LocalsOK, PointsWithTcb,
                          PointsWithMutex
  <2> QED
    BY <2>1, <2>2
<1>10. CASE WrapperTerminates(t)
  <2>1. TypeOK'
    BY <1>10 DEF WrapperTerminates, At, TypeInvariant, TypeOK, LocalsOK, ThreadStates,
              ReturnValues, Points, PointsWithTcb, PointsWithMutex
  <2>2. LocalsOK'
    BY <1>10, LocalTypes DEF WrapperTerminates, At, LocalsOK, PointsWithTcb,
                          PointsWithMutex
  <2> QED
    BY <2>1, <2>2
<1>11. CASE WrapperReturns(t)
  <2>1. TypeOK'
    BY <1>11 DEF WrapperReturns, At, TypeInvariant, TypeOK, LocalsOK, ThreadStates,
              ReturnValues, Points, PointsWithTcb, PointsWithMutex
  <2>2. LocalsOK'
    BY <1>11, LocalTypes DEF WrapperReturns, At, LocalsOK, PointsWithTcb,
                          PointsWithMutex
  <2> QED
    BY <2>1, <2>2
<1>12. CASE JoinSpin(t)
  <2>1. TypeOK'
    BY <1>12 DEF JoinSpin, At, TypeInvariant, TypeOK, LocalsOK, ThreadStates,
              ReturnValues, Points, PointsWithTcb, PointsWithMutex
  <2>2. LocalsOK'
    BY <1>12, LocalTypes DEF JoinSpin, At, LocalsOK, PointsWithTcb,
                          PointsWithMutex
  <2> QED
    BY <2>1, <2>2
<1>13. CASE JoinRead(t)
  <2>1. TypeOK'
    BY <1>13 DEF JoinRead, At, TypeInvariant, TypeOK, LocalsOK, ThreadStates,
              ReturnValues, Points, PointsWithTcb, PointsWithMutex
  <2>2. LocalsOK'
    BY <1>13, LocalTypes DEF JoinRead, At, LocalsOK, PointsWithTcb,
                          PointsWithMutex
  <2> QED
    BY <2>1, <2>2
<1>14. CASE TestAndSet(t)
  <2>1. mutex[t] \in Mutexes
    BY <1>14, LocalTypes DEF TestAndSet, At, LocalsOK, PointsWithMutex
  <2>2. held' \in [Tcbs -> SUBSET Mutexes]
    BY <1>14, <2>1 DEF TestAndSet, TypeInvariant, TypeOK
  <2>3. /\ lock_state' \in [Mutexes -> {"LOCKED", "UNLOCKED"}]
        /\ mutex' \in [Tcbs -> Mutexes \cup {NoMutex}]
        /\ pc' \in [Tcbs -> Points]
    BY <1>14, <2>1 DEF TestAndSet, TypeInvariant, TypeOK, Points
  <2>4. UNCHANGED <<queues, fields, globals, tcb_node, handler, process,
                    usable, handles, joined>>
    BY <1>14 DEF TestAndSet
  <2>5. TypeOK'
    BY <2>2, <2>3, <2>4 DEF TypeInvariant, TypeOK
  <2>6. LocalsOK'
    BY <1>14, LocalTypes DEF TestAndSet, At, LocalsOK, PointsWithTcb,
                          PointsWithMutex
  <2> QED
    BY <2>5, <2>6
<1>15. CASE LockDequeue(t)
  <2>1. priority[t] \in Levels /\ mlpq \in [Levels -> Seq(Tcbs)]
    BY DEF TypeInvariant, TypeOK
  <2>2. /\ mlpq' \in [Levels -> Seq(Tcbs)]
        /\ peek(mlpq[priority[t]]) \in Tcbs \cup {NoTcb}
    BY <1>15, <2>1, QueueTypes DEF LockDequeue
  <2>3. TypeOK'
    BY <1>15, <2>2 DEF LockDequeue, TypeInvariant, TypeOK, Points
  <2>4. LocalsOK'
    BY <1>15, LocalTypes DEF LockDequeue, At, LocalsOK, PointsWithTcb,
                          PointsWithMutex
  <2> QED
    BY <2>3, <2>4
<1>16. CASE LockEnqueue(t)
  <2>1. mutex[t] \in Mutexes
    BY <1>16, LocalTypes DEF LockEnqueue, At, LocalsOK, PointsWithMutex
  <2>2. lock_wait_queue' \in [Mutexes -> Seq(Tcbs)]
    <3>1. lock_wait_queue \in [Mutexes -> Seq(Tcbs)]
      BY DEF TypeInvariant, TypeOK
    <3>2. CASE tcb_node[t] = NoTcb
      BY <1>16, <3>1, <3>2 DEF LockEnqueue
    <3>3. CASE tcb_node[t] # NoTcb
      <4>1. tcb_node[t] \in Tcbs
        BY <3>3, LocalTypes
      <4>2. enqueue(lock_wait_queue[mutex[t]], tcb_node[t]) \in Seq(Tcbs)
        BY <2>1, <3>1, <4>1, QueueTypes
      <4> QED
        BY <1>16, <2>1, <3>1, <3>3, <4>2 DEF LockEnqueue
    <3> QED
      BY <3>2, <3>3
  <2>3. TypeOK'
    BY <1>16, <2>2 DEF LockEnqueue, TypeInvariant, TypeOK, Points
  <2>4. LocalsOK'
    BY <1>16, LocalTypes DEF LockEnqueue, At, LocalsOK, PointsWithTcb,
                          PointsWithMutex
  <2> QED
    BY <2>3, <2>4
<1>17. CASE UnlockDequeue(t)
  <2>1. /\ mutex[t] \in Mutexes
        /\ lock_wait_queue \in [Mutexes -> Seq(Tcbs)]
    BY <1>17, LocalTypes
       DEF UnlockDequeue, At, LocalsOK, PointsWithMutex, TypeInvariant, TypeOK
  <2>2. /\ lock_wait_queue' \in [Mutexes -> Seq(Tcbs)]
        /\ peek(lock_wait_queue[mutex[t]]) \in Tcbs \cup {NoTcb}
        /\ lock_wait_queue[mutex[t]] # <<>> =>
             peek(lock_wait_queue[mutex[t]]) \in Tcbs
    BY <1>17, <2>1, QueueTypes DEF UnlockDequeue
  <2>3. TypeOK'
    BY <1>17, <2>2 DEF UnlockDequeue, TypeInvariant, TypeOK, Points
  <2>4. LocalsOK'
    BY <1>17, <2>2, LocalTypes DEF UnlockDequeue, LocalsOK, PointsWithTcb,
                               PointsWithMutex
  <2> QED
    BY <2>3, <2>4
<1>18. CASE UnlockSchedule(t)
  <2>1. tcb_node[t] \in Tcbs
    BY <1>18, LocalTypes DEF UnlockSchedule, At, LocalsOK, PointsWithTcb
  <2>2. mlpq' \in [Levels -> Seq(Tcbs)]
    BY <1>18, <2>1, ScheduledType
       DEF UnlockSchedule, TypeInvariant, TypeOK, RunQueues
  <2>3. TypeOK'
    BY <1>18, <2>1, <2>2 DEF UnlockSchedule, TypeInvariant, TypeOK, Points
  <2>4. LocalsOK'
    BY <1>18, LocalTypes DEF UnlockSchedule, At, LocalsOK, PointsWithTcb,
                          PointsWithMutex
  <2> QED
    BY <2>3, <2>4
<1>19. CASE UnlockMark(t)
  <2>1. TypeOK'
    <3>1. /\ priority \in [Tcbs -> Levels]
          /\ AFTER_UNLOCK_PRIORITY' \in Levels \cup {-1}
          /\ pc' \in [Tcbs -> Points]
      <4>1. /\ pc' \in {pc, [pc EXCEPT ![t] = "user"]}
            /\ AFTER_UNLOCK_PRIORITY' \in {AFTER_UNLOCK_PRIORITY, priority[t]}
        BY <1>19 DEF UnlockMark
      <4>2. /\ priority \in [Tcbs -> Levels]
            /\ AFTER_UNLOCK_PRIORITY \in Levels \cup {-1}
        BY DEF TypeInvariant, TypeOK
      <4>3. [pc EXCEPT ![t] = "user"] \in [Tcbs -> Points]
        BY LocalTypes DEF Points
      <4> QED
        BY <4>1, <4>2, <4>3, LocalTypes
    <3> QED
      BY <1>19, <3>1 DEF UnlockMark, TypeInvariant, TypeOK
  <2>2. LocalsOK'
    BY <1>19, LocalTypes DEF UnlockMark, At, LocalsOK, PointsWithTcb,
                          PointsWithMutex
  <2> QED
    BY <2>1, <2>2
<1> QED
  BY <1>3, <1>4, <1>5, <1>6, <1>7, <1>8, <1>9, <1>10, <1>11, <1>12, <1>13, <1>14, <1>15, <1>16, <1>17, <1>18, <1>19 DEF ThreadStep

(* A signal changes the point of the thread it interrupts, and the handler.*)
LEMMA SignalTypes ==
  ASSUME TypeInvariant, NEW expired \in BOOLEAN, first_thread,
         SignalHandler(expired)
  PROVE  TypeInvariant'
<1> USE DEF SignalHandler, queues, fields, globals, client
<1>1. CASE Crash
  BY <1>1 DEF Crash, TypeInvariant, TypeOK, LocalsOK, BeforeFirstCreate,
              HandlerOK
<1>2. CASE ~Crash
  <2>1. current_tcb \in Tcbs /\ current_tcb # NoTcb /\ TID # 0
    BY <1>2 DEF TypeInvariant, TypeOK, BeforeFirstCreate
  <2>2. pc' \in [Tcbs -> Points]
    BY <1>2, LocalTypes DEF AfterPause, Points
  <2>3. TypeOK'
    BY <1>2, <2>2 DEF TypeInvariant, TypeOK
  <2>4. LocalsOK'
    BY <1>2, <2>1, LocalTypes
       DEF AfterPause, LocalsOK, PointsWithTcb, PointsWithMutex
  <2>5. BeforeFirstCreate'
    BY <1>2, <2>1 DEF BeforeFirstCreate
  <2>6. HandlerOK'
    BY <1>2, <2>1 DEF HandlerOK, TypeInvariant, TypeOK
  <2> QED
    BY <2>3, <2>4, <2>5, <2>6 DEF TypeInvariant
<1> QED
  BY <1>1, <1>2

(* What join searches for is a tcb, when it finds one.                     *)
LEMMA get_tcbType ==
  ASSUME TypeInvariant, NEW id
  PROVE  get_tcb(id) \in Tcbs \cup {NoTcb}
<1> DEFINE Matches(l) == {i \in 1 .. Len(mlpq[l]) : tid[mlpq[l][i]] = id}
           levels == {l \in Levels : Matches(l) # {}}
           first == Least(levels)
<1>1. CASE levels = {}
  BY <1>1 DEF get_tcb
<1>2. CASE levels # {}
  <2>1. levels \in SUBSET Nat
    <3>1. levels \subseteq Levels
      OBVIOUS
    <3> QED
      BY <3>1, ConstantTypes
  <2>2. first \in Levels /\ Matches(first) # {}
    <3>1. Least(levels) \in levels
      BY <1>2, <2>1, LeastProperties
    <3> QED
      BY <3>1
  <2>3. mlpq[first] \in Seq(Tcbs)
    BY <2>2 DEF TypeInvariant, TypeOK
  <2>4. Matches(first) \in SUBSET Nat
    BY <2>3
  <2>5. Least(Matches(first)) \in Matches(first)
    BY <2>2, <2>4, LeastProperties
  <2>6. get_tcb(id) = mlpq[first][Least(Matches(first))]
    BY <1>2 DEF get_tcb
  <2> HIDE DEF first
  <2>7. Least(Matches(first)) \in 1 .. Len(mlpq[first])
    BY <2>5
  <2> HIDE DEF Matches
  <2> QED
    BY <2>3, <2>6, <2>7
<1> QED
  BY <1>1, <1>2

(* A join that finds its tcb remembers it; one that does not returns.      *)
LEMMA JoinTypes ==
  ASSUME TypeInvariant, NEW t \in Tcbs, NEW id \in handles, JoinThread(t, id)
  PROVE  TypeInvariant'
<1>1. /\ handler = "idle" /\ process = "alive" /\ pc[t] = "user"
      /\ UNCHANGED <<queues, fields, globals, lock_state, mutex, handler,
                     process, held, usable, handles>>
  BY DEF JoinThread, At
<1>2. CASE get_tcb(id) = NoTcb
  <2>1. joined' = [joined EXCEPT ![t] = "error"] /\ UNCHANGED <<pc, tcb_node>>
    BY <1>2 DEF JoinThread
  <2>2. joined' \in [Tcbs -> ReturnValues \cup {"none", "error"}]
    BY <2>1 DEF TypeInvariant, TypeOK
  <2>3. TypeOK'
    BY <1>1, <2>1, <2>2
       DEF queues, fields, globals, TypeInvariant, TypeOK
  <2> QED
    BY <1>1, <2>1, <2>3
       DEF queues, fields, globals, TypeInvariant, LocalsOK,
           BeforeFirstCreate, HandlerOK
<1>3. CASE get_tcb(id) # NoTcb
  <2>1. /\ joined' = [joined EXCEPT ![t] = "none"]
        /\ tcb_node' = [tcb_node EXCEPT ![t] = get_tcb(id)]
        /\ pc' = [pc EXCEPT ![t] = "join_spin"]
    BY <1>3 DEF JoinThread, Goto
  <2>2. get_tcb(id) \in Tcbs
    BY <1>3, get_tcbType
  <2> HIDE DEF get_tcb
  <2>3. joined' \in [Tcbs -> ReturnValues \cup {"none", "error"}]
    BY <2>1 DEF TypeInvariant, TypeOK
  <2>4. tcb_node' \in [Tcbs -> Tcbs \cup {NoTcb}]
    BY <2>1, <2>2 DEF TypeInvariant, TypeOK
  <2>5. pc' \in [Tcbs -> Points]
    BY <2>1 DEF TypeInvariant, TypeOK, Points
  <2>6. TypeOK'
    BY <1>1, <2>3, <2>4, <2>5
       DEF queues, fields, globals, TypeInvariant, TypeOK
  <2>7. LocalsOK'
    BY <1>1, <2>1, <2>2, LocalTypes
       DEF fields, globals, LocalsOK, PointsWithTcb, PointsWithMutex
  <2>8. BeforeFirstCreate' /\ HandlerOK'
    BY <1>1, <2>1, ConstantTypes
       DEF globals, fields, TypeInvariant, BeforeFirstCreate, HandlerOK
  <2> QED
    BY <2>6, <2>7, <2>8 DEF TypeInvariant
<1> QED
  BY <1>2, <1>3

LEMMA ClientCallTypes ==
  ASSUME TypeInvariant, NEW t \in Tcbs, ClientCall(t)
  PROVE  TypeInvariant'
<1> USE ConstantTypes DEF Goto, queues, fields, globals, client
<1>1. ASSUME Crash PROVE TypeInvariant'
  BY <1>1 DEF Crash, TypeInvariant, TypeOK, LocalsOK, BeforeFirstCreate,
              HandlerOK
<1>2. At(t, "user") => (handler = "idle" /\ process = "alive"
                          /\ pc[t] = "user")
  BY DEF At
<1>3. CASE Create(t)
  BY <1>3, CreateTypes
<1>4. CASE Join(t)
  <2>1. PICK id \in handles \ {tid[t]} : JoinThread(t, id)
    BY <1>4 DEF Join
  <2> QED
    BY <2>1, JoinTypes
<1>5. CASE Exit(t)
  <2>1. CASE current_tcb = NoTcb
    BY <1>1, <1>5, <2>1 DEF Exit
  <2>2. CASE current_tcb # NoTcb
    <3>1. PICK value_ptr \in ExitValues :
            /\ return_value' = [return_value EXCEPT ![t] = value_ptr]
            /\ state' = [state EXCEPT ![t] = "TERMINATED"]
            /\ UNCHANGED <<queues, tid, priority, globals, lock_state, pc,
                           tcb_node, mutex, handler, process, client>>
      BY <1>5, <2>2 DEF Exit
    <3>2. /\ return_value' \in [Tcbs -> ReturnValues]
          /\ state' \in [Tcbs -> ThreadStates]
      BY <3>1 DEF TypeInvariant, TypeOK, ThreadStates, ReturnValues
    <3>3. TypeOK'
      BY <3>1, <3>2 DEF TypeInvariant, TypeOK
    <3> QED
      BY <3>1, <3>3
         DEF TypeInvariant, LocalsOK, BeforeFirstCreate, HandlerOK
  <2> QED
    BY <2>1, <2>2
<1>6. CASE FunctionReturns(t)
  <2>1. TID # 0
    BY <1>6 DEF FunctionReturns, At, Running, TypeInvariant, BeforeFirstCreate
  <2>2. TypeOK'
    BY <1>6 DEF FunctionReturns, TypeInvariant, TypeOK, Points
  <2>3. LocalsOK'
    BY <1>6, LocalTypes
       DEF FunctionReturns, LocalsOK, PointsWithTcb, PointsWithMutex
  <2> QED
    BY <1>2, <1>6, <2>1, <2>2, <2>3
       DEF FunctionReturns, TypeInvariant, BeforeFirstCreate, HandlerOK
<1>7. CASE Yield(t)
  BY <1>1, <1>7, SignalTypes DEF Yield
<1>8. CASE MutexInit(t)
  <2>1. PICK m \in Mutexes \ usable :
          /\ usable' = usable \cup {m}
          /\ lock_state' = [lock_state EXCEPT ![m] = "UNLOCKED"]
          /\ lock_wait_queue' = [lock_wait_queue EXCEPT ![m] = <<>>]
    BY <1>8 DEF MutexInit
  <2>2. <<>> \in Seq(Tcbs)
    OBVIOUS
  <2>3. TypeOK'
    BY <1>8, <2>1, <2>2 DEF MutexInit, TypeInvariant, TypeOK
  <2> QED
    BY <1>2, <1>8, <2>3
       DEF MutexInit, TypeInvariant, LocalsOK, BeforeFirstCreate, HandlerOK
<1>9. CASE MutexLock(t)
  <2>1. CASE current_tcb = NoTcb
    BY <1>1, <1>9, <2>1 DEF MutexLock
  <2>2. CASE current_tcb # NoTcb
    <3>1. PICK m \in usable \ held[t] :
            mutex' = [mutex EXCEPT ![t] = m]
      BY <1>9, <2>2 DEF MutexLock
    <3>2. m \in Mutexes
      BY DEF TypeInvariant, TypeOK
    <3>3. TypeOK'
      BY <1>9, <2>2, <3>1, <3>2 DEF MutexLock, TypeInvariant, TypeOK, Points
    <3>4. LocalsOK'
      BY <1>9, <2>2, <3>1, <3>2, LocalTypes
         DEF MutexLock, LocalsOK, PointsWithTcb, PointsWithMutex
    <3> QED
      BY <1>2, <1>9, <2>2, <3>3, <3>4
         DEF MutexLock, TypeInvariant, BeforeFirstCreate, HandlerOK
  <2> QED
    BY <2>1, <2>2
<1>10. CASE MutexUnlock(t)
  <2>1. PICK m \in held[t] :
          /\ lock_state' = [lock_state EXCEPT ![m] = "UNLOCKED"]
          /\ held' = [held EXCEPT ![t] = @ \ {m}]
          /\ mutex' = [mutex EXCEPT ![t] = m]
    BY <1>10 DEF MutexUnlock
  <2>2. m \in Mutexes
    BY DEF TypeInvariant, TypeOK
  <2>3. TypeOK'
    BY <1>10, <2>1, <2>2 DEF MutexUnlock, TypeInvariant, TypeOK, Points
  <2>4. LocalsOK'
    BY <1>10, <2>1, <2>2, LocalTypes
       DEF MutexUnlock, LocalsOK, PointsWithTcb, PointsWithMutex
  <2>5. TID # 0
    BY <1>10, <2>1
       DEF MutexUnlock, At, Running, TypeInvariant, BeforeFirstCreate
  <2> QED
    BY <1>2, <1>10, <2>3, <2>4, <2>5
       DEF MutexUnlock, TypeInvariant, BeforeFirstCreate, HandlerOK
<1>11. CASE MainReturns(t)
  BY <1>11 DEF MainReturns, TypeInvariant, TypeOK, LocalsOK,
               BeforeFirstCreate, HandlerOK
<1> QED
  BY <1>3, <1>4, <1>5, <1>6, <1>7, <1>8, <1>9, <1>10, <1>11 DEF ClientCall

(* The common tail of the helpers dispatches a tcb, if there is one.       *)
DispatchTyped ==
  /\ current_tcb' \in Tcbs \cup {NoTcb} /\ interrupted' \in Tcbs
  /\ HAS_RUN' \in Nat
  /\ state' \in [Tcbs -> ThreadStates]
  /\ handler' \in {"idle", "yield"}
  /\ handler' # "idle" => current_tcb' # NoTcb

LEMMA DispatchTypes ==
  ASSUME TypeInvariant, handler # "idle",
         NEW q \in RunQueues, NEW cp \in Levels,
         NEW st \in [Tcbs -> ThreadStates], Dispatch(cp, q, st)
  PROVE  DispatchTyped
<1> DEFINE next == Successor(cp, q)
           hr == IF StartsOver(q[cp]) THEN 0 ELSE HAS_RUN
<1>1. HAS_RUN \in Nat /\ current_tcb \in Tcbs /\ interrupted \in Tcbs
  BY DEF TypeInvariant, TypeOK, HandlerOK
<1>2. next \in Tcbs \cup {NoTcb} /\ hr \in Nat
  BY <1>1, SuccessorProperties DEF HeadOf
<1>3. IF next = NoTcb
      THEN /\ current_tcb' = NoTcb /\ interrupted' = current_tcb
           /\ state' = st /\ HAS_RUN' = hr /\ handler' = "idle"
      ELSE /\ current_tcb' = next
           /\ state' = [st EXCEPT ![next] = CASE @ = "YIELD"      -> "READY"
                                              [] @ = "TERMINATED" -> @
                                              [] OTHER            -> "RUNNING"]
           /\ HAS_RUN' = IF st[next] \in Skipped THEN hr ELSE hr + 1
           /\ handler' = IF st[next] \in Skipped THEN "yield" ELSE "idle"
           /\ UNCHANGED interrupted
  BY DEF Dispatch
<1> HIDE DEF next, hr
<1> QED
  BY <1>1, <1>2, <1>3 DEF ThreadStates, DispatchTyped

LEMMA YieldHelperTypes ==
  ASSUME TypeInvariant, YieldHelper
  PROVE  TypeInvariant'
<1> DEFINE cp == priority[current_tcb]
           node == peek(mlpq[cp])
           q == Scheduled([mlpq EXCEPT ![cp] = dequeue(@)], node,
                          priority[node])
<1>1. /\ current_tcb \in Tcbs /\ handler = "yield" /\ process = "alive"
      /\ mlpq \in RunQueues /\ priority \in [Tcbs -> Levels]
      /\ state \in [Tcbs -> ThreadStates]
  BY ConstantTypes
     DEF YieldHelper, RunQueues, TypeInvariant, TypeOK, HandlerOK
<1>2. CASE node = NoTcb \/ AllTerminated
  <2>1. Crash
    BY <1>2 DEF YieldHelper
  <2> HIDE DEF node, cp
  <2> QED
    BY <2>1 DEF Crash, queues, fields, globals, client, TypeInvariant, TypeOK,
                LocalsOK, BeforeFirstCreate, HandlerOK
<1>3. CASE ~(node = NoTcb \/ AllTerminated)
  <2>1. cp \in Levels /\ mlpq[cp] \in Seq(Tcbs)
    BY <1>1 DEF RunQueues
  <2>2. node \in Tcbs /\ dequeue(mlpq[cp]) \in Seq(Tcbs)
    BY <1>3, <2>1, QueueTypes
  <2>3. [mlpq EXCEPT ![cp] = dequeue(@)] \in RunQueues
    BY <1>1, <2>1, <2>2 DEF RunQueues
  <2>4. priority[node] \in Levels
    BY <1>1, <2>2
  <2>5. q \in RunQueues
    BY <2>2, <2>3, <2>4, ScheduledType
  <2>6. Yielded(node) \in [Tcbs -> ThreadStates]
    BY <1>1, <2>2 DEF Yielded, ThreadStates
  <2>7. /\ mlpq' = q /\ Dispatch(cp, q, Yielded(node))
        /\ UNCHANGED <<lock_wait_queue, tid, priority, return_value,
                       AFTER_UNLOCK_PRIORITY, TID, first_thread,
                       lock_state, pc, tcb_node, mutex, process, client>>
    BY <1>3 DEF YieldHelper
  <2> HIDE DEF cp, node, q
  <2>8. DispatchTyped
    BY <1>1, <2>1, <2>5, <2>6, <2>7, DispatchTypes
  <2> QED
    BY <1>1, <2>5, <2>7, <2>8, ConstantTypes
       DEF client, RunQueues, TypeInvariant, TypeOK, LocalsOK,
           BeforeFirstCreate, HandlerOK, DispatchTyped
<1> QED
  BY <1>2, <1>3

LEMMA YieldAfterUnlockHelperTypes ==
  ASSUME TypeInvariant, YieldAfterUnlockHelper
  PROVE  TypeInvariant'
<1>1. /\ handler = "after_unlock" /\ process = "alive"
      /\ AFTER_UNLOCK_PRIORITY \in Levels /\ mlpq \in RunQueues
      /\ state \in [Tcbs -> ThreadStates]
      /\ Dispatch(AFTER_UNLOCK_PRIORITY, mlpq, state)
  BY DEF YieldAfterUnlockHelper, RunQueues, TypeInvariant, TypeOK, HandlerOK
<1>2. DispatchTyped
  BY <1>1, DispatchTypes
<1> QED
  BY <1>1, <1>2, ConstantTypes
     DEF YieldAfterUnlockHelper, queues, client, TypeInvariant, TypeOK,
         LocalsOK, BeforeFirstCreate, HandlerOK, DispatchTyped

LEMMA NextTypes == TypeInvariant /\ [Next]_vars => TypeInvariant'
<1> SUFFICES ASSUME TypeInvariant, [Next]_vars PROVE TypeInvariant'
  OBVIOUS
<1>1. ASSUME NEW t \in Tcbs, ThreadStep(t) PROVE TypeInvariant'
  BY <1>1, ThreadStepTypes
<1>2. ASSUME NEW t \in Tcbs, ClientCall(t) PROVE TypeInvariant'
  BY <1>2, ClientCallTypes
<1>3. ASSUME NEW expired \in BOOLEAN, Tick(expired) PROVE TypeInvariant'
  BY <1>3, SignalTypes DEF Tick
<1>4. CASE HandlerStep
  BY <1>4, YieldHelperTypes, YieldAfterUnlockHelperTypes DEF HandlerStep
<1>5. CASE UNCHANGED vars
  BY <1>5 DEF vars, queues, fields, globals, client, TypeInvariant, TypeOK,
              LocalsOK, BeforeFirstCreate, HandlerOK
<1> QED
  BY <1>1, <1>2, <1>3, <1>4, <1>5 DEF Next

THEOREM TypeInvariantHolds == Spec => []TypeInvariant
BY InitTypes, NextTypes, PTL DEF Spec

(* Every variable keeps its type, whatever the interleaving.               *)
THEOREM TypeCorrect == Spec => []TypeOK
<1>1. TypeInvariant => TypeOK
  BY DEF TypeInvariant
<1> QED
  BY <1>1, TypeInvariantHolds, PTL

-----------------------------------------------------------------------------
(* Mutual exclusion.  MutualExclusion relates a mutex's state and its      *)
(* holders, but MutexInit (my_pthread.c:752-771) sets the state of a mutex *)
(* to UNLOCKED: it must be known that nobody holds one that is not         *)
(* initialised yet.                                                        *)

MutexesAreUsable ==
  \A t \in Tcbs :
    /\ held[t] \subseteq usable
    /\ pc[t] \in PointsWithMutex => mutex[t] \in usable

LockInvariant == MutualExclusion /\ MutexesAreUsable

(* Every other step leaves the locks, their holders and the mutexes the    *)
(* threads are after alone.                                                *)
LocksUntouched ==
  /\ UNCHANGED <<lock_state, held, usable>>
  /\ \A s \in Tcbs : pc'[s] \in PointsWithMutex =>
       pc[s] \in PointsWithMutex /\ mutex'[s] = mutex[s]

LEMMA ThreadStepLocks ==
  ASSUME TypeInvariant, NEW t \in Tcbs, ThreadStep(t)
  PROVE  LocksUntouched \/ TestAndSet(t)
<1> USE LocalTypes DEF LocksUntouched, Goto, At, PointsWithMutex, client
<1>1. CASE CreateTid(t)
  BY <1>1 DEF CreateTid
<1>2. CASE CreateHandle(t)
  BY <1>2 DEF CreateHandle
<1>3. CASE CreateSchedule(t)
  BY <1>3 DEF CreateSchedule, LocalsOK, PointsWithTcb
<1>4. CASE CreateTimer(t)
  BY <1>4 DEF CreateTimer
<1>5. CASE WrapperEntry(t)
  BY <1>5 DEF WrapperEntry
<1>6. CASE WrapperCheck(t)
  BY <1>6 DEF WrapperCheck
<1>7. CASE WrapperStoresResult(t)
  BY <1>7 DEF WrapperStoresResult
<1>8. CASE WrapperTerminates(t)
  BY <1>8 DEF WrapperTerminates
<1>9. CASE WrapperReturns(t)
  BY <1>9 DEF WrapperReturns
<1>10. CASE JoinSpin(t)
  BY <1>10 DEF JoinSpin
<1>11. CASE JoinRead(t)
  BY <1>11 DEF JoinRead
<1>12. CASE LockDequeue(t)
  BY <1>12 DEF LockDequeue
<1>13. CASE LockEnqueue(t)
  BY <1>13 DEF LockEnqueue, Crash
<1>14. CASE UnlockDequeue(t)
  BY <1>14 DEF UnlockDequeue
<1>15. CASE UnlockSchedule(t)
  BY <1>15 DEF UnlockSchedule
<1>16. CASE UnlockMark(t)
  BY <1>16 DEF UnlockMark, Crash
<1> QED
  BY <1>1, <1>2, <1>3, <1>4, <1>5, <1>6, <1>7, <1>8, <1>9, <1>10, <1>11,
     <1>12, <1>13, <1>14, <1>15, <1>16
     DEF ThreadStep

LEMMA ClientCallLocks ==
  ASSUME TypeInvariant, NEW t \in Tcbs, ClientCall(t)
  PROVE  LocksUntouched \/ MutexInit(t) \/ MutexLock(t) \/ MutexUnlock(t)
<1> USE LocalTypes DEF LocksUntouched, Goto, At, PointsWithMutex, client, Crash
<1>1. CASE Create(t)
  BY <1>1 DEF Create
<1>2. CASE Join(t)
  BY <1>2 DEF Join, JoinThread
<1>3. CASE Exit(t)
  BY <1>3 DEF Exit
<1>4. CASE FunctionReturns(t)
  BY <1>4 DEF FunctionReturns
<1>5. CASE Yield(t)
  BY <1>5 DEF Yield, SignalHandler, AfterPause
<1>6. CASE MainReturns(t)
  BY <1>6 DEF MainReturns
<1> QED
  BY <1>1, <1>2, <1>3, <1>4, <1>5, <1>6 DEF ClientCall

LEMMA HandlerLocks ==
  ASSUME TypeInvariant,
         HandlerStep \/ \E expired \in BOOLEAN : Tick(expired)
  PROVE  LocksUntouched
<1> USE LocalTypes DEF LocksUntouched, client
<1>1. CASE YieldHelper
  BY <1>1 DEF YieldHelper, Crash
<1>2. CASE YieldAfterUnlockHelper
  BY <1>2 DEF YieldAfterUnlockHelper
<1>3. CASE \E expired \in BOOLEAN : Tick(expired)
  BY <1>3 DEF Tick, SignalHandler, Crash, AfterPause, PointsWithMutex
<1> QED
  BY <1>1, <1>2, <1>3 DEF HandlerStep

LEMMA LockTypes ==
  ASSUME TypeInvariant
  PROVE  /\ lock_state \in [Mutexes -> {"LOCKED", "UNLOCKED"}]
         /\ held \in [Tcbs -> SUBSET Mutexes] /\ usable \subseteq Mutexes
BY DEF TypeInvariant, TypeOK

LEMMA InitLocks == Init => LockInvariant
BY DEF Init, LockInvariant, MutualExclusion, MutexesAreUsable, PointsWithMutex

LEMMA TestAndSetLocks ==
  ASSUME TypeInvariant, LockInvariant, NEW t \in Tcbs, TestAndSet(t)
  PROVE  LockInvariant'
<1> DEFINE m == mutex[t]
<1>1. m \in Mutexes /\ m \in usable
  BY LocalTypes, LockTypes
     DEF TestAndSet, At, PointsWithMutex, LockInvariant, MutexesAreUsable
<1>2. MutexesAreUsable'
  BY <1>1, LocalTypes, LockTypes
     DEF TestAndSet, Goto, At, PointsWithMutex, LockInvariant, MutexesAreUsable
<1>3. CASE lock_state[m] = "UNLOCKED"
  <2>1. \A s \in Tcbs : m \notin held[s]
    BY <1>1, <1>3 DEF LockInvariant, MutualExclusion
  <2>2. /\ lock_state' = [lock_state EXCEPT ![m] = "LOCKED"]
        /\ held' = [held EXCEPT ![t] = @ \cup {m}]
    BY <1>3 DEF TestAndSet
  <2> HIDE DEF m
  <2>3. MutualExclusion'
    BY <1>1, <2>1, <2>2, LockTypes DEF LockInvariant, MutualExclusion
  <2> QED
    BY <1>2, <2>3 DEF LockInvariant
<1>4. CASE lock_state[m] # "UNLOCKED"
  BY <1>2, <1>4 DEF TestAndSet, LockInvariant, MutualExclusion
<1> QED
  BY <1>3, <1>4

LEMMA MutexUnlockLocks ==
  ASSUME TypeInvariant, LockInvariant, NEW t \in Tcbs, MutexUnlock(t)
  PROVE  LockInvariant'
<1>1. PICK m \in held[t] :
        /\ lock_state' = [lock_state EXCEPT ![m] = "UNLOCKED"]
        /\ held' = [held EXCEPT ![t] = @ \ {m}]
        /\ mutex' = [mutex EXCEPT ![t] = m]
  BY DEF MutexUnlock
<1>2. m \in Mutexes /\ m \in usable
  BY LockTypes DEF LockInvariant, MutexesAreUsable
<1>3. \A s \in Tcbs \ {t} : m \notin held[s]
  BY <1>2 DEF LockInvariant, MutualExclusion
<1>4. MutexesAreUsable'
  BY <1>1, <1>2, LocalTypes, LockTypes
     DEF MutexUnlock, Goto, PointsWithMutex, LockInvariant, MutexesAreUsable
<1>5. MutualExclusion'
  BY <1>1, <1>2, <1>3, LockTypes DEF LockInvariant, MutualExclusion
<1> QED
  BY <1>4, <1>5 DEF LockInvariant

LEMMA MutexInitLocks ==
  ASSUME TypeInvariant, LockInvariant, NEW t \in Tcbs, MutexInit(t)
  PROVE  LockInvariant'
<1>1. PICK m \in Mutexes \ usable :
        /\ usable' = usable \cup {m}
        /\ lock_state' = [lock_state EXCEPT ![m] = "UNLOCKED"]
  BY DEF MutexInit
<1>2. UNCHANGED <<held, pc, mutex>>
  BY DEF MutexInit
<1>3. \A s \in Tcbs : m \notin held[s]
  BY <1>1 DEF LockInvariant, MutexesAreUsable
<1> QED
  BY <1>1, <1>2, <1>3, LockTypes
     DEF LockInvariant, MutualExclusion, MutexesAreUsable

LEMMA NextLocks ==
  TypeInvariant /\ LockInvariant /\ [Next]_vars => LockInvariant'
<1> SUFFICES ASSUME TypeInvariant, LockInvariant, [Next]_vars
             PROVE  LockInvariant'
  OBVIOUS
<1>1. ASSUME LocksUntouched PROVE LockInvariant'
  BY <1>1
     DEF LocksUntouched, LockInvariant, MutualExclusion, MutexesAreUsable
<1>2. ASSUME NEW t \in Tcbs, ThreadStep(t) PROVE LockInvariant'
  BY <1>1, <1>2, ThreadStepLocks, TestAndSetLocks
<1>3. ASSUME NEW t \in Tcbs, MutexLock(t) PROVE LockInvariant'
  <2>1. UNCHANGED <<lock_state, held, usable>>
    BY <1>3 DEF MutexLock, Crash, client
  <2>2. MutexesAreUsable'
    BY <1>3, <2>1, LocalTypes
       DEF MutexLock, Crash, Goto, PointsWithMutex, LockInvariant,
           MutexesAreUsable
  <2> QED
    BY <2>1, <2>2 DEF LockInvariant, MutualExclusion
<1>4. ASSUME NEW t \in Tcbs, ClientCall(t) PROVE LockInvariant'
  BY <1>1, <1>3, <1>4, ClientCallLocks, MutexUnlockLocks, MutexInitLocks
<1>5. CASE HandlerStep \/ \E expired \in BOOLEAN : Tick(expired)
  BY <1>1, <1>5, HandlerLocks
<1>6. CASE UNCHANGED vars
  BY <1>1, <1>6 DEF vars, client, LocksUntouched
<1> QED
  BY <1>2, <1>4, <1>5, <1>6 DEF Next

(* However lock, unlock, ticks and creates interleave, a mutex is LOCKED   *)
(* exactly when one thread holds it (my_pthread_mutex_lock and _unlock).   *)
THEOREM MutualExclusionHolds == Spec => []MutualExclusion
<1>1. LockInvariant => MutualExclusion
  BY DEF LockInvariant
<1> QED
  BY <1>1, TypeInvariantHolds, InitLocks, NextLocks, PTL DEF Spec

-----------------------------------------------------------------------------
(* The single level.  SingleLevel is inductive with the types.             *)

LevelsUntouched == UNCHANGED <<mlpq, priority, AFTER_UNLOCK_PRIORITY>>

LEMMA LevelTypes ==
  ASSUME TypeInvariant
  PROVE  /\ mlpq \in [Levels -> Seq(Tcbs)] /\ priority \in [Tcbs -> Levels]
         /\ current_tcb \in Tcbs \cup {NoTcb} /\ LocalsOK
BY DEF TypeInvariant, TypeOK

LEMMA ThreadStepLevels ==
  ASSUME TypeInvariant, SingleLevel, NEW t \in Tcbs, ThreadStep(t)
  PROVE  SingleLevel'
<1>1. ASSUME LevelsUntouched PROVE SingleLevel'
  BY <1>1 DEF LevelsUntouched, SingleLevel
<1> USE DEF queues, fields, globals, LevelsUntouched
<1>2. CASE CreateTid(t)
  BY <1>1, <1>2 DEF CreateTid
<1>3. CASE CreateHandle(t)
  BY <1>1, <1>3 DEF CreateHandle
<1>4. CASE CreateSchedule(t)
  <2>1. tcb_node[t] \in Tcbs
    BY <1>4, LevelTypes DEF CreateSchedule, At, LocalsOK, PointsWithTcb
  <2> QED
    BY <1>4, <2>1, LevelTypes, ConstantTypes
       DEF CreateSchedule, Scheduled, SingleLevel
<1>5. CASE CreateTimer(t)
  BY <1>1, <1>5 DEF CreateTimer
<1>6. CASE WrapperEntry(t)
  BY <1>1, <1>6 DEF WrapperEntry
<1>7. CASE WrapperCheck(t)
  BY <1>1, <1>7 DEF WrapperCheck
<1>8. CASE WrapperStoresResult(t)
  BY <1>1, <1>8 DEF WrapperStoresResult
<1>9. CASE WrapperTerminates(t)
  BY <1>1, <1>9 DEF WrapperTerminates
<1>10. CASE WrapperReturns(t)
  BY <1>1, <1>10 DEF WrapperReturns
<1>11. CASE JoinSpin(t)
  BY <1>1, <1>11 DEF JoinSpin
<1>12. CASE JoinRead(t)
  BY <1>1, <1>12 DEF JoinRead
<1>13. CASE TestAndSet(t)
  BY <1>1, <1>13 DEF TestAndSet
<1>14. CASE LockDequeue(t)
  BY <1>14, LevelTypes, ConstantTypes DEF LockDequeue, SingleLevel
<1>15. CASE LockEnqueue(t)
  BY <1>1, <1>15 DEF LockEnqueue, Crash
<1>16. CASE UnlockDequeue(t)
  BY <1>1, <1>16 DEF UnlockDequeue
<1>17. CASE UnlockSchedule(t)
  <2>1. tcb_node[t] \in Tcbs
    BY <1>17, LevelTypes DEF UnlockSchedule, At, LocalsOK, PointsWithTcb
  <2> QED
    BY <1>17, <2>1, LevelTypes, ConstantTypes
       DEF UnlockSchedule, Scheduled, SingleLevel
<1>18. CASE UnlockMark(t)
  BY <1>18 DEF UnlockMark, Crash, SingleLevel
<1> QED
  BY <1>2, <1>3, <1>4, <1>5, <1>6, <1>7, <1>8, <1>9, <1>10, <1>11, <1>12,
     <1>13, <1>14, <1>15, <1>16, <1>17, <1>18
     DEF ThreadStep

LEMMA ClientCallLevels ==
  ASSUME TypeInvariant, SingleLevel, NEW t \in Tcbs, ClientCall(t)
  PROVE  SingleLevel'
<1>1. ASSUME LevelsUntouched PROVE SingleLevel'
  BY <1>1 DEF LevelsUntouched, SingleLevel
<1> USE DEF queues, fields, globals, Crash, LevelsUntouched
<1>2. CASE Create(t)
  BY <1>2, LevelTypes, ConstantTypes DEF Create, Scheduled, SingleLevel
<1>3. CASE Join(t)
  BY <1>1, <1>3 DEF Join, JoinThread
<1>4. CASE Exit(t)
  BY <1>1, <1>4 DEF Exit
<1>5. CASE FunctionReturns(t)
  BY <1>1, <1>5 DEF FunctionReturns
<1>6. CASE Yield(t)
  BY <1>1, <1>6 DEF Yield, SignalHandler
<1>7. CASE MutexInit(t)
  BY <1>1, <1>7 DEF MutexInit
<1>8. CASE MutexLock(t)
  BY <1>1, <1>8 DEF MutexLock
<1>9. CASE MutexUnlock(t)
  BY <1>1, <1>9 DEF MutexUnlock
<1>10. CASE MainReturns(t)
  BY <1>1, <1>10 DEF MainReturns
<1> QED
  BY <1>2, <1>3, <1>4, <1>5, <1>6, <1>7, <1>8, <1>9, <1>10 DEF ClientCall

(* Both the dequeue and the enqueue of a rotation are at level 0.          *)
LEMMA YieldHelperLevels ==
  ASSUME TypeInvariant, SingleLevel, YieldHelper
  PROVE  SingleLevel'
<1>1. CASE Crash
  BY <1>1 DEF Crash, queues, fields, globals, SingleLevel
<1>2. CASE ~Crash
  <2>1. current_tcb \in Tcbs /\ priority[current_tcb] = 0
    BY DEF YieldHelper, TypeInvariant, TypeOK, HandlerOK, SingleLevel
  <2>2. mlpq[0] \in Seq(Tcbs)
    BY LevelTypes, ConstantTypes
  <2> DEFINE node == peek(mlpq[0])
  <2>3. /\ node # NoTcb
        /\ mlpq' = Scheduled([mlpq EXCEPT ![0] = dequeue(@)], node,
                             priority[node])
        /\ UNCHANGED <<priority, AFTER_UNLOCK_PRIORITY>>
    BY <1>2, <2>1 DEF YieldHelper
  <2>4. node \in Tcbs /\ priority[node] = 0
    BY <2>2, <2>3, QueueTypes DEF SingleLevel
  <2> HIDE DEF node
  <2> QED
    BY <2>3, <2>4, LevelTypes, ConstantTypes DEF Scheduled, SingleLevel
<1> QED
  BY <1>1, <1>2

LEMMA NextLevels ==
  TypeInvariant /\ SingleLevel /\ [Next]_vars => SingleLevel'
<1> SUFFICES ASSUME TypeInvariant, SingleLevel, [Next]_vars
             PROVE  SingleLevel'
  OBVIOUS
<1>1. ASSUME NEW t \in Tcbs, ThreadStep(t) \/ ClientCall(t)
      PROVE  SingleLevel'
  BY <1>1, ThreadStepLevels, ClientCallLevels
<1>2. ASSUME NEW expired \in BOOLEAN, Tick(expired) PROVE SingleLevel'
  BY <1>2
     DEF Tick, SignalHandler, Crash, queues, fields, globals, SingleLevel
<1>3. CASE YieldHelper
  BY <1>3, YieldHelperLevels
<1>4. CASE YieldAfterUnlockHelper
  BY <1>4 DEF YieldAfterUnlockHelper, queues, SingleLevel
<1>5. CASE UNCHANGED vars
  BY <1>5 DEF vars, queues, fields, globals, SingleLevel
<1> QED
  BY <1>1, <1>2, <1>3, <1>4, <1>5 DEF Next, HandlerStep

(* Whatever the number of levels, every scheduled tcb is at level 0: the   *)
(* code that moves tcbs between levels is never called (signal_handler).   *)
THEOREM SingleLevelHolds == Spec => []SingleLevel
<1>1. Init => SingleLevel
  BY DEF Init, SingleLevel
<1> QED
  BY <1>1, TypeInvariantHolds, NextLevels, PTL DEF Spec

-----------------------------------------------------------------------------
(* TERMINATED is for ever.  create and the wrapper write READY and RUNNING *)
(* into tcbs without looking, so it must be known that those tcbs are      *)
(* fresh: no two creates under way have the same one, and it has not run.  *)

CreatePoints == {"create_tid", "create_handle", "create_sched"}

FreshTcbs ==
  /\ \A n \in Tcbs : n > TID => pc[n] = "none"
  /\ \A t \in Tcbs : pc[t] \in CreatePoints =>
       tcb_node[t] \in 1 .. TID /\ pc[tcb_node[t]] = "none"
  /\ \A s, t \in Tcbs :
       pc[s] \in CreatePoints /\ pc[t] \in CreatePoints /\ s # t =>
         tcb_node[s] # tcb_node[t]

NotTerminatedYet ==
  /\ \A n \in Tcbs : pc[n] \in {"none", "entry"} => state[n] # "TERMINATED"
  /\ TID = 0 => state[Main] # "TERMINATED"

FreshInvariant == FreshTcbs /\ NotTerminatedYet

TerminatedStays ==
  \A n \in Tcbs : state[n] = "TERMINATED" => state'[n] = "TERMINATED"

(* What every step other than those of a create does.                      *)
PointsKept ==
  /\ TID' = TID
  /\ \A s \in Tcbs :
       /\ pc'[s] = "none" <=> pc[s] = "none"
       /\ pc'[s] = "entry" => pc[s] = "entry"
       /\ pc'[s] \in CreatePoints =>
            pc[s] \in CreatePoints /\ tcb_node'[s] = tcb_node[s]
StatesKept ==
  /\ TerminatedStays
  /\ \A n \in Tcbs : state'[n] = "TERMINATED" =>
       \/ state[n] = "TERMINATED"
       \/ pc[n] \notin {"none", "entry"} /\ TID # 0

LEMMA StateTypes ==
  ASSUME TypeInvariant
  PROVE  /\ state \in [Tcbs -> ThreadStates] /\ TID \in 0 .. MaxThreads
         /\ return_value \in [Tcbs -> ReturnValues]
         /\ joined \in [Tcbs -> ReturnValues \cup {"none", "error"}]
BY DEF TypeInvariant, TypeOK

LEMMA KeptIsEnough ==
  ASSUME TypeInvariant, FreshInvariant, PointsKept, StatesKept
  PROVE  FreshInvariant'
<1>1. FreshTcbs'
  <2>1. \A n \in Tcbs : n > TID' => pc'[n] = "none"
    BY DEF FreshInvariant, FreshTcbs, PointsKept
  <2>2. ASSUME NEW t \in Tcbs, pc'[t] \in CreatePoints
        PROVE  tcb_node'[t] \in 1 .. TID' /\ pc'[tcb_node'[t]] = "none"
    <3>1. tcb_node'[t] = tcb_node[t] /\ tcb_node[t] \in Tcbs
      BY <2>2, LocalTypes
         DEF PointsKept, CreatePoints, LocalsOK, PointsWithTcb
    <3> QED
      BY <2>2, <3>1 DEF FreshInvariant, FreshTcbs, PointsKept
  <2>3. \A s, t \in Tcbs :
          pc'[s] \in CreatePoints /\ pc'[t] \in CreatePoints /\ s # t =>
            tcb_node'[s] # tcb_node'[t]
    BY DEF FreshInvariant, FreshTcbs, PointsKept
  <2> QED
    BY <2>1, <2>2, <2>3 DEF FreshTcbs
<1>2. NotTerminatedYet'
  BY ConstantTypes
     DEF FreshInvariant, NotTerminatedYet, PointsKept, StatesKept
<1> QED
  BY <1>1, <1>2 DEF FreshInvariant

LEMMA CreateFresh ==
  ASSUME TypeInvariant, FreshInvariant, NEW t \in Tcbs, Create(t)
  PROVE  FreshInvariant' /\ TerminatedStays
<1>1. /\ TID \in Nat /\ TID + 1 \in Tcbs /\ pc[TID + 1] = "none"
      /\ pc[t] = "user" /\ TID' = TID + 1
      /\ pc' = [pc EXCEPT ![t] = "create_tid"]
      /\ tcb_node' = [tcb_node EXCEPT ![t] = TID + 1]
  BY ConstantTypes, StateTypes
     DEF Create, Goto, At, Tcbs, FreshInvariant, FreshTcbs
<1>2. FreshTcbs'
  <2>1. \A n \in Tcbs : n > TID' => pc'[n] = "none"
    BY <1>1, ConstantTypes, LocalTypes DEF FreshInvariant, FreshTcbs
  <2>2. ASSUME NEW s \in Tcbs, pc'[s] \in CreatePoints
        PROVE  /\ tcb_node'[s] \in 1 .. TID' /\ pc'[tcb_node'[s]] = "none"
               /\ s # t => tcb_node'[s] # TID + 1
    <3>1. CASE s = t
      BY <1>1, <3>1, LocalTypes
    <3>2. CASE s # t
      <4>1. pc[s] \in CreatePoints /\ tcb_node'[s] = tcb_node[s]
        BY <1>1, <2>2, <3>2, LocalTypes
      <4>2. /\ tcb_node[s] \in 1 .. TID /\ pc[tcb_node[s]] = "none"
            /\ tcb_node[s] \in Tcbs
        BY <4>1, LocalTypes
           DEF FreshInvariant, FreshTcbs, CreatePoints, LocalsOK, PointsWithTcb
      <4> QED
        BY <1>1, <3>2, <4>1, <4>2, LocalTypes
    <3> QED
      BY <3>1, <3>2
  <2>3. ASSUME NEW r \in Tcbs, NEW s \in Tcbs, r # s,
               pc'[r] \in CreatePoints, pc'[s] \in CreatePoints
        PROVE  tcb_node'[r] # tcb_node'[s]
    <3>1. CASE r = t \/ s = t
      BY <1>1, <2>2, <2>3, <3>1, LocalTypes
    <3>2. CASE r # t /\ s # t
      BY <1>1, <2>3, <3>2, LocalTypes DEF FreshInvariant, FreshTcbs
    <3> QED
      BY <3>1, <3>2
  <2> QED
    BY <2>1, <2>2, <2>3 DEF FreshTcbs
<1>3. \/ UNCHANGED state
      \/ /\ state' = [state EXCEPT ![Main] = "READY"]
         /\ state[Main] # "TERMINATED"
  BY DEF Create, FreshInvariant, NotTerminatedYet
<1>4. NotTerminatedYet' /\ TerminatedStays
  BY <1>1, <1>3, ConstantTypes, StateTypes, LocalTypes
     DEF FreshInvariant, NotTerminatedYet, TerminatedStays
<1> QED
  BY <1>2, <1>4 DEF FreshInvariant

LEMMA CreateScheduleFresh ==
  ASSUME TypeInvariant, FreshInvariant, NEW t \in Tcbs, CreateSchedule(t)
  PROVE  FreshInvariant' /\ TerminatedStays
<1> DEFINE n == tcb_node[t]
<1>1. /\ n \in Tcbs /\ n \in 1 .. TID /\ pc[n] = "none"
      /\ state[n] # "TERMINATED" /\ pc[t] = "create_sched" /\ t # n
  BY LocalTypes
     DEF CreateSchedule, At, LocalsOK, PointsWithTcb, CreatePoints,
         FreshInvariant, FreshTcbs, NotTerminatedYet
<1>2. /\ pc' = [pc EXCEPT ![t] = "create_timer", ![n] = "entry"]
      /\ state' = [state EXCEPT ![n] = "READY"]
      /\ tcb_node' = [tcb_node EXCEPT ![t] = NoTcb]
      /\ UNCHANGED <<TID, current_tcb>>
  BY DEF CreateSchedule, globals
<1> HIDE DEF n
<1>3. \A s \in Tcbs : pc'[s] \in CreatePoints =>
        pc[s] \in CreatePoints /\ s # t /\ tcb_node'[s] = tcb_node[s]
  BY <1>1, <1>2, LocalTypes DEF CreatePoints
<1>4. FreshTcbs'
  <2>1. \A m \in Tcbs : m > TID' => pc'[m] = "none"
    BY <1>1, <1>2, LocalTypes, StateTypes, ConstantTypes
       DEF FreshInvariant, FreshTcbs
  <2>2. ASSUME NEW s \in Tcbs, pc'[s] \in CreatePoints
        PROVE  tcb_node'[s] \in 1 .. TID' /\ pc'[tcb_node'[s]] = "none"
    <3>1. /\ pc[s] \in CreatePoints /\ s # t /\ tcb_node'[s] = tcb_node[s]
          /\ tcb_node[s] \in Tcbs
      BY <1>3, <2>2, LocalTypes DEF CreatePoints, LocalsOK, PointsWithTcb
    <3>2. tcb_node[s] # n
      BY <1>1, <3>1 DEF n, CreatePoints, FreshInvariant, FreshTcbs
    <3>3. /\ tcb_node[s] \in 1 .. TID /\ pc[tcb_node[s]] = "none"
      BY <3>1 DEF FreshInvariant, FreshTcbs
    <3> QED
      BY <1>1, <1>2, <3>1, <3>2, <3>3, LocalTypes
  <2>3. \A r, s \in Tcbs :
          pc'[r] \in CreatePoints /\ pc'[s] \in CreatePoints /\ r # s =>
            tcb_node'[r] # tcb_node'[s]
    BY <1>3 DEF FreshInvariant, FreshTcbs
  <2> QED
    BY <2>1, <2>2, <2>3 DEF FreshTcbs
<1>5. NotTerminatedYet' /\ TerminatedStays
  BY <1>1, <1>2, ConstantTypes, StateTypes, LocalTypes
     DEF FreshInvariant, NotTerminatedYet, TerminatedStays
<1> QED
  BY <1>4, <1>5 DEF FreshInvariant

LEMMA ThreadStepFresh ==
  ASSUME TypeInvariant, FreshInvariant, NEW t \in Tcbs, ThreadStep(t)
  PROVE  CreateSchedule(t) \/ (PointsKept /\ StatesKept)
<1>1. TID # 0
  BY ThreadStepFrame
<1> USE <1>1, LocalTypes, StateTypes
    DEF Goto, At, Crash, fields, globals, CreatePoints, PointsKept,
        StatesKept, TerminatedStays
<1>2. CASE CreateTid(t)
  BY <1>2 DEF CreateTid
<1>3. CASE CreateHandle(t)
  BY <1>3 DEF CreateHandle
<1>4. CASE CreateTimer(t)
  BY <1>4 DEF CreateTimer
<1>5. CASE WrapperEntry(t)
  BY <1>5 DEF WrapperEntry, FreshInvariant, NotTerminatedYet
<1>6. CASE WrapperCheck(t)
  BY <1>6 DEF WrapperCheck
<1>7. CASE WrapperStoresResult(t)
  BY <1>7 DEF WrapperStoresResult
<1>8. CASE WrapperTerminates(t)
  BY <1>8 DEF WrapperTerminates
<1>9. CASE WrapperReturns(t)
  BY <1>9 DEF WrapperReturns
<1>10. CASE JoinSpin(t)
  BY <1>10 DEF JoinSpin
<1>11. CASE JoinRead(t)
  BY <1>11 DEF JoinRead
<1>12. CASE TestAndSet(t)
  BY <1>12 DEF TestAndSet
<1>13. CASE LockDequeue(t)
  BY <1>13 DEF LockDequeue
<1>14. CASE LockEnqueue(t)
  BY <1>14 DEF LockEnqueue
<1>15. CASE UnlockDequeue(t)
  BY <1>15 DEF UnlockDequeue
<1>16. CASE UnlockSchedule(t)
  BY <1>16 DEF UnlockSchedule
<1>17. CASE UnlockMark(t)
  BY <1>17 DEF UnlockMark
<1> QED
  BY <1>2, <1>3, <1>4, <1>5, <1>6, <1>7, <1>8, <1>9, <1>10, <1>11, <1>12,
     <1>13, <1>14, <1>15, <1>16, <1>17
     DEF ThreadStep

LEMMA ClientCallFresh ==
  ASSUME TypeInvariant, FreshInvariant, NEW t \in Tcbs, ClientCall(t)
  PROVE  Create(t) \/ (PointsKept /\ StatesKept)
<1>1. TID = 0 => current_tcb = NoTcb
  BY DEF TypeInvariant, BeforeFirstCreate
<1> USE <1>1, LocalTypes, StateTypes
    DEF Goto, At, Crash, fields, globals, CreatePoints, PointsKept,
        StatesKept, TerminatedStays
<1>2. CASE Join(t)
  BY <1>2 DEF Join, JoinThread
<1>3. CASE Exit(t)
  BY <1>3 DEF Exit
<1>4. CASE FunctionReturns(t)
  BY <1>4 DEF FunctionReturns
<1>5. CASE Yield(t)
  BY <1>5 DEF Yield, SignalHandler, AfterPause
<1>6. CASE MutexInit(t)
  BY <1>6 DEF MutexInit
<1>7. CASE MutexLock(t)
  BY <1>7 DEF MutexLock
<1>8. CASE MutexUnlock(t)
  BY <1>8 DEF MutexUnlock
<1>9. CASE MainReturns(t)
  BY <1>9 DEF MainReturns
<1> QED
  BY <1>2, <1>3, <1>4, <1>5, <1>6, <1>7, <1>8, <1>9 DEF ClientCall

(* Neither the rotation nor the dispatch (my_pthread.c:574-632) makes a    *)
(* tcb TERMINATED, or one that was anything else.                          *)
LEMMA DispatchStates ==
  ASSUME TypeInvariant, NEW q \in RunQueues, NEW cp \in Levels,
         NEW st \in [Tcbs -> ThreadStates], Dispatch(cp, q, st)
  PROVE  \A n \in Tcbs : state'[n] = "TERMINATED" <=> st[n] = "TERMINATED"
<1> DEFINE next == Successor(cp, q)
<1>1. HAS_RUN \in Nat
  BY DEF TypeInvariant, TypeOK
<1>2. next \in Tcbs \cup {NoTcb}
  BY <1>1, SuccessorProperties DEF HeadOf
<1>3. \/ state' = st
      \/ /\ next # NoTcb
         /\ state' = [st EXCEPT ![next] = CASE @ = "YIELD"      -> "READY"
                                            [] @ = "TERMINATED" -> @
                                            [] OTHER            -> "RUNNING"]
  BY DEF Dispatch
<1> HIDE DEF next
<1> QED
  BY <1>2, <1>3

LEMMA HandlerStates ==
  ASSUME TypeInvariant, HandlerStep
  PROVE  \A n \in Tcbs : state'[n] = "TERMINATED" <=> state[n] = "TERMINATED"
<1>1. CASE Crash
  BY <1>1 DEF Crash, fields
<1>2. CASE YieldHelper /\ ~Crash
  <2> DEFINE cp == priority[current_tcb]
             node == peek(mlpq[cp])
             q == Scheduled([mlpq EXCEPT ![cp] = dequeue(@)], node,
                            priority[node])
  <2>1. /\ current_tcb \in Tcbs
        /\ mlpq \in RunQueues /\ priority \in [Tcbs -> Levels]
    BY <1>2 DEF YieldHelper, RunQueues, TypeInvariant, TypeOK, HandlerOK
  <2>2. node # NoTcb /\ Dispatch(cp, q, Yielded(node))
    BY <1>2 DEF YieldHelper
  <2>3. cp \in Levels /\ mlpq[cp] \in Seq(Tcbs)
    BY <2>1 DEF RunQueues
  <2>4. node \in Tcbs /\ dequeue(mlpq[cp]) \in Seq(Tcbs)
    BY <2>2, <2>3, QueueTypes
  <2>5. [mlpq EXCEPT ![cp] = dequeue(@)] \in RunQueues
    BY <2>1, <2>3, <2>4 DEF RunQueues
  <2>6. q \in RunQueues
    BY <2>1, <2>4, <2>5, ScheduledType
  <2>7. /\ Yielded(node) \in [Tcbs -> ThreadStates]
        /\ \A n \in Tcbs :
             Yielded(node)[n] = "TERMINATED" <=> state[n] = "TERMINATED"
    BY <2>4, StateTypes DEF Yielded, ThreadStates
  <2> HIDE DEF cp, node, q
  <2> QED
    BY <2>2, <2>3, <2>6, <2>7, DispatchStates
<1>3. CASE YieldAfterUnlockHelper
  <2>1. /\ AFTER_UNLOCK_PRIORITY \in Levels /\ mlpq \in RunQueues
        /\ Dispatch(AFTER_UNLOCK_PRIORITY, mlpq, state)
    BY <1>3 DEF YieldAfterUnlockHelper, RunQueues, TypeInvariant, TypeOK,
                HandlerOK
  <2> QED
    BY <2>1, StateTypes, DispatchStates
<1> QED
  BY <1>1, <1>2, <1>3 DEF HandlerStep

(* Nor does a helper touch anything else these invariants are about.       *)
LEMMA HandlerFrame ==
  ASSUME TypeInvariant, HandlerStep
  PROVE  /\ UNCHANGED <<TID, pc, tcb_node, return_value, joined>>
         /\ current_tcb # NoTcb
BY DEF HandlerStep, YieldHelper, YieldAfterUnlockHelper, Crash, fields,
       globals, client, TypeInvariant, HandlerOK

LEMMA HandlerFresh ==
  ASSUME TypeInvariant, FreshInvariant,
         HandlerStep \/ \E expired \in BOOLEAN : Tick(expired)
  PROVE  PointsKept /\ StatesKept
<1> USE DEF PointsKept, StatesKept, TerminatedStays
<1>1. CASE \E expired \in BOOLEAN : Tick(expired)
  BY <1>1, LocalTypes
     DEF Tick, SignalHandler, Crash, AfterPause, CreatePoints, fields,
         globals
<1>2. CASE HandlerStep
  BY <1>2, HandlerStates, HandlerFrame
<1> QED
  BY <1>1, <1>2

LEMMA NextFresh ==
  TypeInvariant /\ FreshInvariant /\ [Next]_vars
    => FreshInvariant' /\ TerminatedStays
<1> SUFFICES ASSUME TypeInvariant, FreshInvariant, [Next]_vars
             PROVE  FreshInvariant' /\ TerminatedStays
  OBVIOUS
<1>1. ASSUME PointsKept, StatesKept PROVE FreshInvariant' /\ TerminatedStays
  BY <1>1, KeptIsEnough DEF StatesKept
<1>2. ASSUME NEW t \in Tcbs, ThreadStep(t)
      PROVE  FreshInvariant' /\ TerminatedStays
  BY <1>1, <1>2, ThreadStepFresh, CreateScheduleFresh
<1>3. ASSUME NEW t \in Tcbs, ClientCall(t)
      PROVE  FreshInvariant' /\ TerminatedStays
  BY <1>1, <1>3, ClientCallFresh, CreateFresh
<1>4. CASE HandlerStep \/ \E expired \in BOOLEAN : Tick(expired)
  BY <1>1, <1>4, HandlerFresh
<1>5. CASE UNCHANGED vars
  BY <1>1, <1>5
     DEF vars, fields, globals, PointsKept, StatesKept, TerminatedStays
<1> QED
  BY <1>2, <1>3, <1>4, <1>5 DEF Next

LEMMA InitFresh == Init => FreshInvariant
<1> SUFFICES ASSUME Init PROVE FreshInvariant
  OBVIOUS
<1> QED
  BY ConstantTypes
     DEF Init, FreshInvariant, FreshTcbs, NotTerminatedYet, CreatePoints, Main

LEMMA FreshInvariantHolds == Spec => []FreshInvariant
BY TypeInvariantHolds, InitFresh, NextFresh, PTL DEF Spec

(* No rotation, dispatch, create or wrapper revives a terminated tcb.      *)
THEOREM TerminatedForeverHolds == Spec => TerminatedForever
<1>1. TypeInvariant /\ FreshInvariant /\ [Next]_vars => [TerminatedStays]_vars
  BY NextFresh
<1>2. Spec => [][TerminatedStays]_vars
  BY <1>1, TypeInvariantHolds, FreshInvariantHolds, PTL DEF Spec
<1> QED
  BY <1>2 DEF TerminatedForever, TerminatedStays

-----------------------------------------------------------------------------
(* What a join reads.  The value is stored before TERMINATED is, in the    *)
(* wrapper (my_pthread.c:62-63) and in exit (704-707), and TERMINATED is   *)
(* for ever, so the join that saw it reads a value that was stored.        *)

DeliveredInvariant ==
  /\ \A n \in Tcbs : state[n] = "TERMINATED" \/ pc[n] = "wrap_term" =>
       return_value[n] # "unset"
  /\ \A t \in Tcbs : pc[t] = "join_read" =>
       state[tcb_node[t]] = "TERMINATED"
  /\ JoinReadsDelivered

DeliveryKept ==
  /\ \A n \in Tcbs :
       return_value'[n] = "unset" =>
         /\ return_value[n] = "unset"
         /\ state'[n] = "TERMINATED" => state[n] = "TERMINATED"
         /\ pc'[n] = "wrap_term" => pc[n] = "wrap_term"
  /\ \A t \in Tcbs :
       /\ joined'[t] = "unset" => joined[t] = "unset"
       /\ pc'[t] = "join_read" =>
            /\ tcb_node'[t] = tcb_node[t] /\ tcb_node[t] \in Tcbs
            /\ pc[t] = "join_read" \/ state[tcb_node[t]] = "TERMINATED"

LEMMA DeliveryKeptIsEnough ==
  ASSUME TypeInvariant, DeliveredInvariant, TerminatedStays, DeliveryKept
  PROVE  DeliveredInvariant'
<1>1. ASSUME NEW t \in Tcbs, pc'[t] = "join_read"
      PROVE  state'[tcb_node'[t]] = "TERMINATED"
  <2>1. tcb_node'[t] = tcb_node[t] /\ state[tcb_node[t]] = "TERMINATED"
    BY <1>1 DEF DeliveryKept, DeliveredInvariant
  <2>2. tcb_node[t] \in Tcbs
    BY <1>1 DEF DeliveryKept
  <2> QED
    BY <2>1, <2>2 DEF TerminatedStays
<1> QED
  BY <1>1 DEF DeliveryKept, DeliveredInvariant, JoinReadsDelivered

LEMMA ThreadStepDelivery ==
  ASSUME TypeInvariant, DeliveredInvariant, NEW t \in Tcbs, ThreadStep(t)
  PROVE  DeliveryKept
<1> USE LocalTypes, StateTypes
    DEF Goto, At, Crash, fields, client, DeliveryKept, LocalsOK, PointsWithTcb
<1>1. CASE CreateTid(t)
  BY <1>1 DEF CreateTid
<1>2. CASE CreateHandle(t)
  BY <1>2 DEF CreateHandle
<1>3. CASE CreateSchedule(t)
  BY <1>3 DEF CreateSchedule
<1>4. CASE CreateTimer(t)
  BY <1>4 DEF CreateTimer
<1>5. CASE WrapperEntry(t)
  BY <1>5 DEF WrapperEntry
<1>6. CASE WrapperCheck(t)
  BY <1>6 DEF WrapperCheck
<1>7. CASE WrapperStoresResult(t)
  BY <1>7 DEF WrapperStoresResult
<1>8. CASE WrapperTerminates(t)
  BY <1>8 DEF WrapperTerminates, DeliveredInvariant
<1>9. CASE WrapperReturns(t)
  BY <1>9 DEF WrapperReturns
<1>10. CASE JoinSpin(t)
  BY <1>10 DEF JoinSpin
<1>11. CASE JoinRead(t)
  BY <1>11 DEF JoinRead, DeliveredInvariant
<1>12. CASE TestAndSet(t)
  BY <1>12 DEF TestAndSet
<1>13. CASE LockDequeue(t)
  BY <1>13 DEF LockDequeue
<1>14. CASE LockEnqueue(t)
  BY <1>14 DEF LockEnqueue
<1>15. CASE UnlockDequeue(t)
  BY <1>15 DEF UnlockDequeue
<1>16. CASE UnlockSchedule(t)
  BY <1>16 DEF UnlockSchedule
<1>17. CASE UnlockMark(t)
  BY <1>17 DEF UnlockMark
<1> QED
  BY <1>1, <1>2, <1>3, <1>4, <1>5, <1>6, <1>7, <1>8, <1>9, <1>10, <1>11,
     <1>12, <1>13, <1>14, <1>15, <1>16, <1>17
     DEF ThreadStep

LEMMA ClientCallDelivery ==
  ASSUME TypeInvariant, DeliveredInvariant, NEW t \in Tcbs, ClientCall(t)
  PROVE  DeliveryKept
<1> USE LocalTypes, StateTypes
    DEF Goto, At, Crash, fields, client, DeliveryKept, LocalsOK, PointsWithTcb
<1>1. CASE Create(t)
  BY <1>1 DEF Create
<1>2. CASE Join(t)
  BY <1>2 DEF Join, JoinThread
<1>3. CASE Exit(t)
  BY <1>3, SchedulerAssumption DEF Exit
<1>4. CASE FunctionReturns(t)
  BY <1>4 DEF FunctionReturns
<1>5. CASE Yield(t)
  BY <1>5 DEF Yield, SignalHandler, AfterPause
<1>6. CASE MutexInit(t)
  BY <1>6 DEF MutexInit
<1>7. CASE MutexLock(t)
  BY <1>7 DEF MutexLock
<1>8. CASE MutexUnlock(t)
  BY <1>8 DEF MutexUnlock
<1>9. CASE MainReturns(t)
  BY <1>9 DEF MainReturns
<1> QED
  BY <1>1, <1>2, <1>3, <1>4, <1>5, <1>6, <1>7, <1>8, <1>9
     DEF ClientCall

LEMMA HandlerDelivery ==
  ASSUME TypeInvariant, DeliveredInvariant,
         HandlerStep \/ \E expired \in BOOLEAN : Tick(expired)
  PROVE  DeliveryKept
<1> USE LocalTypes DEF DeliveryKept, LocalsOK, PointsWithTcb
<1>1. CASE \E expired \in BOOLEAN : Tick(expired)
  BY <1>1 DEF Tick, SignalHandler, Crash, AfterPause, fields, client
<1>2. CASE HandlerStep
  BY <1>2, HandlerStates, HandlerFrame
<1> QED
  BY <1>1, <1>2

LEMMA NextDelivery ==
  TypeInvariant /\ FreshInvariant /\ DeliveredInvariant /\ [Next]_vars
    => DeliveredInvariant'
<1> SUFFICES ASSUME TypeInvariant, FreshInvariant, DeliveredInvariant,
                    [Next]_vars
             PROVE  DeliveryKept
  BY NextFresh, DeliveryKeptIsEnough
<1>1. CASE UNCHANGED vars
  BY <1>1, LocalTypes
     DEF vars, fields, client, DeliveryKept, LocalsOK, PointsWithTcb
<1> QED
  BY <1>1, ThreadStepDelivery, ClientCallDelivery, HandlerDelivery DEF Next

(* A join that succeeds has read a value that the joined thread delivered, *)
(* whatever ran between its look at the state and its read of the value.   *)
THEOREM JoinReadsDeliveredHolds == Spec => []JoinReadsDelivered
<1>1. Init => DeliveredInvariant
  BY ConstantTypes DEF Init, DeliveredInvariant, JoinReadsDelivered, Main
<1>2. DeliveredInvariant => JoinReadsDelivered
  BY DEF DeliveredInvariant
<1> QED
  BY <1>1, <1>2, TypeInvariantHolds, FreshInvariantHolds, NextDelivery, PTL
     DEF Spec
=============================================================================
