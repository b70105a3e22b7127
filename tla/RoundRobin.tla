----------------------------- MODULE RoundRobin -----------------------------
(***************************************************************************)
(* What the scheduler promises: one queue of threads, served in turn.      *)
(* A thread leaves the queue from its head only, and joins it at its end   *)
(* only.  When the running thread is preempted the head goes to the end    *)
(* and the new head runs; finished threads are passed over the same way.   *)
(* A thread that has released a mutex since the last choice makes the next *)
(* choice one without a rotation.                                          *)
(***************************************************************************)
EXTENDS Sequences

CONSTANTS Threads, None

VARIABLES
  ready,     (* the threads in line                                        *)
  current,   (* the one that runs, None before the first                   *)
  done,      (* the threads that have finished                             *)
  choosing,  (* whether the next thread is being chosen                    *)
  released   (* whether a mutex was released since the last choice         *)

vars == <<ready, current, done, choosing, released>>

Init ==
  /\ ready = <<>>
  /\ current = None
  /\ done = {}
  /\ choosing = FALSE
  /\ released = FALSE

(* The first thread runs at once; it is the only one that need not wait.   *)
Start(n) ==
  /\ current = None
  /\ current' = n
  /\ ready' = Append(ready, n)
  /\ UNCHANGED <<done, choosing, released>>

Add(n) ==
  /\ ~choosing
  /\ ready' = Append(ready, n)
  /\ UNCHANGED <<current, done, choosing, released>>

Leave ==
  /\ ~choosing
  /\ ready # <<>>
  /\ ready' = Tail(ready)
  /\ UNCHANGED <<current, done, choosing, released>>

Finish ==
  /\ ~choosing
  /\ done' = done \cup {current}
  /\ UNCHANGED <<ready, current, choosing, released>>

Release ==
  /\ ~choosing
  /\ released' = TRUE
  /\ UNCHANGED <<ready, current, done, choosing>>

Preempt ==
  /\ ~choosing
  /\ choosing' = TRUE
  /\ UNCHANGED <<ready, current, done, released>>

(* The first of a queue runs, unless it has finished.                      *)
Run(queue) ==
  /\ ready' = queue
  /\ current' = Head(queue)
  /\ choosing' = (Head(queue) \in done)
  /\ UNCHANGED done

Rotate ==
  /\ choosing /\ ~released /\ ready # <<>>
  /\ Run(Append(Tail(ready), Head(ready)))
  /\ UNCHANGED released

Resume ==
  /\ choosing /\ released /\ ready # <<>>
  /\ Run(ready)
  /\ released' = FALSE

(* Nobody is in line: the thread that was interrupted goes on.             *)
GoOn ==
  /\ choosing /\ released /\ ready = <<>>
  /\ choosing' = FALSE
  /\ released' = FALSE
  /\ UNCHANGED <<ready, current, done>>

Next ==
  \/ \E n \in Threads : Start(n) \/ Add(n)
  \/ Leave \/ Finish \/ Release
  \/ Preempt \/ Rotate \/ Resume \/ GoOn

Spec == Init /\ [][Next]_vars
=============================================================================
