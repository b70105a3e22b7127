----------------------------- MODULE TimeSlice -----------------------------
(***************************************************************************)
(* Time in my_pthread.c: the interval timer, the time of the latest        *)
(* dispatch, and time_compare, which signal_handler asks whether the       *)
(* running thread has used up the time slice of its level.                 *)
(***************************************************************************)
EXTENDS Integers

CONSTANTS
  SECOND,      (* 1000000, the microseconds of a second                    *)
  TIME_SLICE,  (* 5000: level i has a slice of (i + 1) * TIME_SLICE        *)
  INTERVAL,    (* 25000, the period of the timer                           *)
  Levels,      (* 0 .. NUMBER_LEVELS - 1                                   *)
  MaxTime      (* bound on the clock                                       *)

ASSUME TimeAssumption ==
  /\ SECOND \in Nat \ {0} /\ TIME_SLICE \in Nat \ {0}
  /\ INTERVAL \in Nat \ {0} /\ MaxTime \in Nat
  /\ Levels \subseteq Nat
  /\ \A level \in Levels : TIME_SLICE * (level + 1) < SECOND

VARIABLES
  now,                (* the time gettimeofday tells, in microseconds      *)
  next_alarm,         (* when the interval timer raises SIGALRM next       *)
  priority,           (* of the running thread                             *)
  recent_start_time,  (* its latest dispatch, also in microseconds         *)
  verdict             (* what time_compare last answered, about what       *)

vars == <<now, next_alarm, priority, recent_start_time, verdict>>

(* struct timeval                                                          *)
Timeval(us) == [tv_sec |-> us \div SECOND, tv_usec |-> us % SECOND]

(* init_scheduler                                                          *)
priority_time_slices == [level \in Levels |-> TIME_SLICE * (level + 1)]

TypeOK ==
  /\ now \in Nat /\ next_alarm \in now .. now + INTERVAL
  /\ recent_start_time \in 0 .. now
  /\ priority \in Levels
  /\ verdict \in [start : Nat, end : Nat, gap : Nat, answer : -1 .. 1]

-----------------------------------------------------------------------------
(* -1, 0 or 1 as x is less than, equal to or greater than y.               *)
Sign(x, y) == IF x > y THEN 1 ELSE IF x = y THEN 0 ELSE -1

(* Mutants of time_compare: the seconds are not looked at; a gap that is   *)
(* exactly used up counts as exceeded.                                     *)
time_compare_usec(start, end, gap) == Sign(end.tv_usec - start.tv_usec, gap)

time_compare_ge(start, end, gap) ==
  IF end.tv_sec - start.tv_sec > 0 THEN 1
  ELSE IF end.tv_usec - start.tv_usec >= gap THEN 1 ELSE -1

(* gap_second is gap - gap % 1000000, not gap / 1000000.                   *)
time_compare(start, end, gap) ==
  LET gap_second == IF gap > SECOND - 1 THEN gap - (gap % SECOND) ELSE 0
      gap_microsecond == IF gap > SECOND - 1 THEN gap % SECOND ELSE gap
      seconds == end.tv_sec - start.tv_sec
  IN IF seconds = gap_second
       THEN Sign(end.tv_usec - start.tv_usec, gap_microsecond)
       ELSE Sign(seconds, gap_second)

-----------------------------------------------------------------------------
(* The first create starts the timer.  main has never been dispatched, so  *)
(* its recent_start_time is still 0.                                       *)
Init ==
  /\ now \in 1 .. SECOND
  /\ next_alarm = now + INTERVAL
  /\ priority \in Levels
  /\ recent_start_time = 0
  /\ verdict = [start |-> 0, end |-> 0, gap |-> 0, answer |-> 0]

Elapse ==
  /\ now < next_alarm /\ now < MaxTime
  /\ now' = now + 1
  /\ UNCHANGED <<next_alarm, priority, recent_start_time, verdict>>

(* signal_handler.  A thread that is dispatched is stamped with the time.  *)
SignalHandler ==
  LET slice == priority_time_slices[priority]
      answer == time_compare(Timeval(recent_start_time), Timeval(now), slice)
  IN /\ verdict' = [start |-> recent_start_time, end |-> now, gap |-> slice,
                    answer |-> answer]
     /\ IF answer # -1
          THEN recent_start_time' = now /\ priority' \in Levels
          ELSE UNCHANGED <<recent_start_time, priority>>
     /\ UNCHANGED now

(* Mutant of Alarm: the timer is not periodic.                             *)
AlarmOnce ==
  /\ now = next_alarm
  /\ next_alarm' = MaxTime
  /\ SignalHandler

Alarm ==
  /\ now = next_alarm
  /\ next_alarm' = now + INTERVAL
  /\ SignalHandler

(* my_pthread_yield raises SIGALRM at any time.                            *)
Yield ==
  /\ now < next_alarm
  /\ SignalHandler
  /\ UNCHANGED next_alarm

Next == Elapse \/ Alarm \/ Yield

Spec == Init /\ [][Next]_vars

-----------------------------------------------------------------------------
(* No thread that has been dispatched runs on for longer than its slice    *)
(* and one period of the timer: a slice that has passed is never found     *)
(* unexpired, whichever seconds it spans.                                  *)
PreemptedInTime ==
  recent_start_time # 0 =>
    now - recent_start_time <= priority_time_slices[priority] + INTERVAL

(* time_compare is right except that a slice that crosses a second is told *)
(* exceeded, however short it has run: no other answer is wrong, and no    *)
(* wrong answer is in the thread's favour.                                 *)
ErrsOnlyEarly ==
  verdict.answer # Sign(verdict.end - verdict.start, verdict.gap) =>
    /\ verdict.answer = 1
    /\ Timeval(verdict.start).tv_sec < Timeval(verdict.end).tv_sec
=============================================================================
