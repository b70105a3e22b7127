-------------------------- MODULE TimeSliceProofs --------------------------
(***************************************************************************)
(* For every length of a second, slice and timer period: a dispatched      *)
(* thread is preempted within its slice and one period of the timer.       *)
(***************************************************************************)
EXTENDS TimeSlice, TLAPS

(* The second and the microsecond of a time tell the time.                 *)
LEMMA TimevalProperties ==
  ASSUME NEW us \in Nat
  PROVE  /\ Timeval(us).tv_sec \in Nat
         /\ Timeval(us).tv_usec \in 0 .. SECOND - 1
         /\ us = SECOND * Timeval(us).tv_sec + Timeval(us).tv_usec
BY TimeAssumption DEF Timeval

(* A later time has no earlier second.                                     *)
LEMMA SecondsAreMonotone ==
  ASSUME NEW start \in Nat, NEW end \in Nat, start <= end
  PROVE  Timeval(start).tv_sec <= Timeval(end).tv_sec
<1> DEFINE s == Timeval(start).tv_sec
           e == Timeval(end).tv_sec
<1>1. /\ s \in Nat /\ e \in Nat
      /\ Timeval(start).tv_usec \in 0 .. SECOND - 1
      /\ Timeval(end).tv_usec \in 0 .. SECOND - 1
      /\ start = SECOND * s + Timeval(start).tv_usec
      /\ end = SECOND * e + Timeval(end).tv_usec
  BY TimevalProperties
<1>2. SUFFICES ASSUME e + 1 <= s PROVE FALSE
  BY <1>1
<1> HIDE DEF s, e
<1>3. SECOND \in Nat \ {0}
  BY TimeAssumption
<1>4. SECOND * (e + 1) <= SECOND * s
  BY <1>1, <1>2, <1>3
<1>5. SECOND * (e + 1) = SECOND * e + SECOND
  BY <1>1, <1>3
<1> QED
  BY <1>1, <1>3, <1>4, <1>5

(* For a gap of less than a second, time_compare (my_pthread.c:437-463)    *)
(* answers for the gap, or calls one that crosses a second exceeded.       *)
LEMMA RightOrEarly ==
  ASSUME NEW start \in Nat, NEW end \in Nat, NEW gap \in Nat,
         gap < SECOND, start <= end
  PROVE  LET answer == time_compare(Timeval(start), Timeval(end), gap) IN
           \/ answer = Sign(end - start, gap)
           \/ /\ answer = 1
              /\ Timeval(start).tv_sec < Timeval(end).tv_sec
<1> DEFINE x == Timeval(start)
           y == Timeval(end)
<1>1. /\ x.tv_sec \in Nat /\ y.tv_sec \in Nat
      /\ x.tv_usec \in 0 .. SECOND - 1 /\ y.tv_usec \in 0 .. SECOND - 1
      /\ start = SECOND * x.tv_sec + x.tv_usec
      /\ end = SECOND * y.tv_sec + y.tv_usec
  BY TimevalProperties
<1>2. x.tv_sec <= y.tv_sec
  BY SecondsAreMonotone
<1>3. SECOND \in Nat \ {0}
  BY TimeAssumption
<1> HIDE DEF x, y
<1>4. ~(gap > SECOND - 1)
  BY <1>3
<1>5. CASE y.tv_sec - x.tv_sec = 0
  <2>1. x.tv_sec = y.tv_sec
    BY <1>1, <1>5
  <2>2. y.tv_usec - x.tv_usec = end - start
    BY <1>1, <1>3, <2>1
  <2> QED
    BY <1>1, <1>3, <1>4, <1>5, <2>2 DEF time_compare, Sign, x, y
<1>6. CASE y.tv_sec - x.tv_sec # 0
  <2>1. y.tv_sec - x.tv_sec > 0 /\ x.tv_sec < y.tv_sec
    BY <1>1, <1>2, <1>6
  <2> QED
    BY <1>1, <1>3, <1>4, <1>6, <2>1 DEF time_compare, Sign, x, y
<1> QED
  BY <1>5, <1>6

LEMMA TimeCompareType ==
  ASSUME NEW start \in Nat, NEW end \in Nat, NEW gap \in Nat
  PROVE  time_compare(Timeval(start), Timeval(end), gap) \in -1 .. 1
BY DEF time_compare, Sign

LEMMA SliceType ==
  ASSUME NEW level \in Levels
  PROVE  /\ priority_time_slices[level] \in Nat
         /\ priority_time_slices[level] < SECOND
<1>1. level \in Nat /\ TIME_SLICE \in Nat /\ TIME_SLICE * (level + 1) < SECOND
  BY TimeAssumption
<1>2. TIME_SLICE * (level + 1) \in Nat
  BY <1>1
<1> QED
  BY <1>1, <1>2 DEF priority_time_slices

-----------------------------------------------------------------------------
(* The inductive invariant.  PreemptedInTime speaks of every moment, but   *)
(* only an alarm is sure to come: a thread was dispatched since the latest *)
(* alarm, or that alarm found its slice unexpired.                         *)
LatestAlarm == next_alarm - INTERVAL

DispatchedOrUnexpired ==
  recent_start_time # 0 =>
    \/ recent_start_time >= LatestAlarm
    \/ LatestAlarm - recent_start_time < priority_time_slices[priority]

TimeInvariant == TypeOK /\ DispatchedOrUnexpired /\ ErrsOnlyEarly

LEMMA InitTime == Init => TimeInvariant
<1> SUFFICES ASSUME Init PROVE TimeInvariant
  OBVIOUS
<1>1. SECOND \in Nat /\ INTERVAL \in Nat
  BY TimeAssumption
<1> QED
  BY <1>1 DEF Init, TimeInvariant, TypeOK, DispatchedOrUnexpired,
                 ErrsOnlyEarly, Sign

(* What the handler leaves behind, whatever it answers.                    *)
LEMMA HandlerStep ==
  ASSUME TimeInvariant, SignalHandler
  PROVE  /\ now' = now
         /\ priority' \in Levels
         /\ verdict' \in [start : Nat, end : Nat, gap : Nat, answer : -1 .. 1]
         /\ ErrsOnlyEarly'
         /\ \/ recent_start_time' = now
            \/ /\ UNCHANGED <<recent_start_time, priority>>
               /\ now - recent_start_time < priority_time_slices[priority]
<1> DEFINE slice == priority_time_slices[priority]
           answer == time_compare(Timeval(recent_start_time), Timeval(now),
                                  slice)
<1>1. /\ now \in Nat /\ recent_start_time \in Nat /\ priority \in Levels
      /\ recent_start_time <= now
  BY DEF TimeInvariant, TypeOK
<1>2. slice \in Nat /\ slice < SECOND
  BY <1>1, SliceType
<1>3. answer \in -1 .. 1
  BY <1>1, <1>2, TimeCompareType
<1>4. /\ now' = now
      /\ verdict' = [start |-> recent_start_time, end |-> now, gap |-> slice,
                     answer |-> answer]
      /\ IF answer # -1
           THEN recent_start_time' = now /\ priority' \in Levels
           ELSE UNCHANGED <<recent_start_time, priority>>
  BY DEF SignalHandler
<1>5. \/ answer = Sign(now - recent_start_time, slice)
      \/ /\ answer = 1
         /\ Timeval(recent_start_time).tv_sec < Timeval(now).tv_sec
  BY <1>1, <1>2, RightOrEarly
<1>6. ErrsOnlyEarly'
  BY <1>4, <1>5 DEF ErrsOnlyEarly, Timeval
<1> HIDE DEF slice, answer
<1>7. verdict' \in [start : Nat, end : Nat, gap : Nat, answer : -1 .. 1]
  BY <1>1, <1>2, <1>3, <1>4
<1>8. CASE answer # -1
  BY <1>4, <1>6, <1>7, <1>8
<1>9. CASE answer = -1
  BY <1>1, <1>2, <1>4, <1>5, <1>6, <1>7, <1>9 DEF slice, Sign
<1> QED
  BY <1>8, <1>9

LEMMA NextTime == TimeInvariant /\ [Next]_vars => TimeInvariant'
<1> SUFFICES ASSUME TimeInvariant, [Next]_vars PROVE TimeInvariant'
  OBVIOUS
<1>1. /\ now \in Nat /\ next_alarm \in Nat /\ recent_start_time \in Nat
      /\ now <= next_alarm /\ next_alarm <= now + INTERVAL
      /\ recent_start_time <= now /\ priority \in Levels
      /\ verdict \in [start : Nat, end : Nat, gap : Nat, answer : -1 .. 1]
  BY TimeAssumption DEF TimeInvariant, TypeOK
<1>2. INTERVAL \in Nat \ {0}
  BY TimeAssumption
<1>3. CASE Elapse
  BY <1>1, <1>2, <1>3
     DEF Elapse, TimeInvariant, TypeOK, DispatchedOrUnexpired, LatestAlarm,
         ErrsOnlyEarly, Timeval
<1>4. CASE Alarm
  <2>1. SignalHandler /\ now = next_alarm /\ next_alarm' = now + INTERVAL
    BY <1>4 DEF Alarm
  <2>2. TypeOK'
    BY <1>1, <1>2, <2>1, HandlerStep DEF TypeOK
  <2>3. LatestAlarm' = now
    BY <1>1, <1>2, <2>1 DEF LatestAlarm
  <2>4. DispatchedOrUnexpired'
    BY <1>1, <2>1, <2>3, HandlerStep
       DEF DispatchedOrUnexpired, priority_time_slices
  <2> QED
    BY <2>1, <2>2, <2>4, HandlerStep DEF TimeInvariant
<1>5. CASE Yield
  <2>1. SignalHandler /\ next_alarm' = next_alarm
    BY <1>5 DEF Yield
  <2>2. TypeOK'
    BY <1>1, <1>2, <2>1, HandlerStep DEF TypeOK
  <2>3. LatestAlarm' = LatestAlarm /\ LatestAlarm <= now
    BY <1>1, <1>2, <2>1 DEF LatestAlarm
  <2>4. ASSUME recent_start_time' = now
        PROVE  DispatchedOrUnexpired'
    BY <2>3, <2>4 DEF DispatchedOrUnexpired
  <2>5. ASSUME UNCHANGED <<recent_start_time, priority>>
        PROVE  DispatchedOrUnexpired'
    BY <2>3, <2>5 DEF TimeInvariant, DispatchedOrUnexpired, priority_time_slices
  <2> QED
    BY <2>1, <2>2, <2>4, <2>5, HandlerStep DEF TimeInvariant
<1>6. CASE UNCHANGED vars
  BY <1>6 DEF vars, TimeInvariant, TypeOK, DispatchedOrUnexpired, LatestAlarm,
              priority_time_slices, ErrsOnlyEarly, Timeval
<1> QED
  BY <1>3, <1>4, <1>5, <1>6 DEF Next

LEMMA TimeInvariantHolds == Spec => []TimeInvariant
BY InitTime, NextTime, PTL DEF Spec

LEMMA InvariantBoundsTheRun == TimeInvariant => PreemptedInTime
<1> SUFFICES ASSUME TimeInvariant, recent_start_time # 0
             PROVE  now - recent_start_time
                      <= priority_time_slices[priority] + INTERVAL
  BY DEF PreemptedInTime
<1>1. /\ now \in Nat /\ next_alarm \in Nat /\ recent_start_time \in Nat
      /\ now <= next_alarm /\ INTERVAL \in Nat /\ priority \in Levels
  BY TimeAssumption DEF TimeInvariant, TypeOK
<1>2. priority_time_slices[priority] \in Nat
  BY <1>1, SliceType
<1>3. \/ recent_start_time >= next_alarm - INTERVAL
      \/ next_alarm - INTERVAL - recent_start_time
           < priority_time_slices[priority]
  BY DEF TimeInvariant, DispatchedOrUnexpired, LatestAlarm
<1> QED
  BY <1>1, <1>2, <1>3

(* No thread that has been dispatched runs on for longer than its slice    *)
(* and one period of the timer (signal_handler and time_compare).          *)
THEOREM PreemptedInTimeAlways == Spec => []PreemptedInTime
BY TimeInvariantHolds, InvariantBoundsTheRun, PTL

(* The clock, the alarm and the handler's answers keep their types.        *)
THEOREM TimeTypeOK == Spec => []TypeOK
<1>1. TimeInvariant => TypeOK
  BY DEF TimeInvariant
<1> QED
  BY <1>1, TimeInvariantHolds, PTL

(* time_compare errs against the running thread only, and only when its    *)
(* slice crosses a second.                                                 *)
THEOREM ErrsOnlyEarlyAlways == Spec => []ErrsOnlyEarly
<1>1. TimeInvariant => ErrsOnlyEarly
  BY DEF TimeInvariant
<1> QED
  BY <1>1, TimeInvariantHolds, PTL
=============================================================================
