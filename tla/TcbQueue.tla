------------------------------ MODULE TcbQueue ------------------------------
(***************************************************************************)
(* enqueue and dequeue of my_pthread.c (285-320), one assignment at a time, *)
(* on a struct queue whose tcbs are linked through next_tcb.               *)
(*                                                                         *)
(* get_tcb, exit and mutex_init block SIGALRM; create, lock and unlock     *)
(* call enqueue and dequeue with it open.  With Masked = FALSE the handler *)
(* may therefore run between two assignments.  It rotates the queue: a     *)
(* dequeue and an enqueue that nothing interrupts.                         *)
(***************************************************************************)
EXTENDS Integers, Sequences, FiniteSets

CONSTANTS
  Tcbs,
  NoTcb,     (* NULL *)
  Masked     (* whether SIGALRM is blocked during the calls *)

ASSUME TcbQueueAssumption ==
  NoTcb \notin Tcbs /\ IsFiniteSet(Tcbs) /\ Masked \in BOOLEAN

VARIABLES
  queue,     (* head, tail, size and the next_tcb of every tcb            *)
  pc,        (* the next assignment of the call in progress               *)
  tcb_node,  (* the argument of enqueue                                   *)
  tmp,       (* the local of dequeue                                      *)
  returned   (* what the latest dequeue returned                          *)

vars == <<queue, pc, tcb_node, tmp, returned>>

Links == Tcbs \cup {NoTcb}
Points == {"idle", "enq_only_head", "enq_only_tail", "enq_only_next",
           "enq_link", "enq_tail", "enq_next", "enq_size",
           "deq_only_tmp", "deq_only_head", "deq_only_tail",
           "deq_tmp", "deq_head", "deq_next", "deq_size"}

TypeOK ==
  /\ queue \in [head : Links, tail : Links, size : 0 .. Cardinality(Tcbs),
                next : [Tcbs -> Links]]
  /\ pc \in Points
  /\ tcb_node \in Links /\ tmp \in Links /\ returned \in Links

queue_init == [head |-> NoTcb, tail |-> NoTcb, size |-> 0,
               next |-> [n \in Tcbs |-> NoTcb]]

Init ==
  /\ queue = queue_init
  /\ pc = "idle"
  /\ tcb_node = NoTcb /\ tmp = NoTcb /\ returned = NoTcb

-----------------------------------------------------------------------------
(* The first n tcbs from one on.  Following a null link yields NoTcb.      *)
Walk(from, n, next) ==
  LET w[i \in 0 .. n] == IF i = 0 THEN <<>>
                         ELSE IF i = 1 THEN <<from>>
                         ELSE IF w[i - 1][i - 1] = NoTcb
                           THEN Append(w[i - 1], NoTcb)
                           ELSE Append(w[i - 1], next[w[i - 1][i - 1]])
  IN w[n]

(* The queue the structure stands for.  While dequeue has moved head, or   *)
(* cleared it, and not yet counted down, tmp is still in.                  *)
Contents ==
  IF queue.size <= 0 THEN <<>>
  ELSE IF \/ pc \in {"deq_only_tail", "deq_next", "deq_size"}
         THEN <<tmp>> \o Walk(queue.head, queue.size - 1, queue.next)
         ELSE Walk(queue.head, queue.size, queue.next)

Members == {Contents[i] : i \in 1 .. Len(Contents)}

-----------------------------------------------------------------------------
(* The assignments.  A step through a null pointer does not exist: the     *)
(* process has crashed there.                                              *)
Step(from, to) == pc = from /\ pc' = to
Set(field, value) == queue' = [queue EXCEPT ![field] = value]
Link(n, to) == n # NoTcb /\ queue' = [queue EXCEPT !.next[n] = to]

CallEnqueue(n) ==
  /\ pc = "idle"
  /\ n \notin Members
  /\ tcb_node' = n
  /\ pc' = IF queue.size = 0 THEN "enq_only_head" ELSE "enq_link"
  /\ UNCHANGED <<queue, tmp, returned>>

(* Mutant of EnqueueOnly: the tail of an empty queue is not set.           *)
EnqueueOnlyHead ==
  /\ \/ Step("enq_only_head", "enq_only_next") /\ Set("head", tcb_node)
     \/ Step("enq_only_next", "enq_size") /\ Link(tcb_node, NoTcb)
  /\ UNCHANGED <<tcb_node, tmp, returned>>

EnqueueOnly ==
  /\ \/ Step("enq_only_head", "enq_only_tail") /\ Set("head", tcb_node)
     \/ Step("enq_only_tail", "enq_only_next") /\ Set("tail", tcb_node)
     \/ Step("enq_only_next", "enq_size") /\ Link(tcb_node, NoTcb)
  /\ UNCHANGED <<tcb_node, tmp, returned>>

(* Mutant of EnqueueLast: tail is moved before the old one is linked.      *)
EnqueueLastUnlinked ==
  /\ \/ Step("enq_link", "enq_tail") /\ Set("tail", tcb_node)
     \/ Step("enq_tail", "enq_next") /\ Link(queue.tail, tcb_node)
     \/ Step("enq_next", "enq_size") /\ Link(queue.tail, NoTcb)
  /\ UNCHANGED <<tcb_node, tmp, returned>>

EnqueueLast ==
  /\ \/ Step("enq_link", "enq_tail") /\ Link(queue.tail, tcb_node)
     \/ Step("enq_tail", "enq_next") /\ Set("tail", tcb_node)
     \/ Step("enq_next", "enq_size") /\ Link(queue.tail, NoTcb)
  /\ UNCHANGED <<tcb_node, tmp, returned>>

EnqueueCounts ==
  /\ Step("enq_size", "idle")
  /\ Set("size", queue.size + 1)
  /\ tcb_node' = NoTcb
  /\ UNCHANGED <<tmp, returned>>

CallDequeue ==
  /\ pc = "idle"
  /\ IF queue.size = 0
       THEN returned' = NoTcb /\ UNCHANGED pc
       ELSE /\ pc' = IF queue.size = 1 THEN "deq_only_tmp" ELSE "deq_tmp"
            /\ UNCHANGED returned
  /\ UNCHANGED <<queue, tcb_node, tmp>>

DequeueOnly ==
  /\ \/ /\ Step("deq_only_tmp", "deq_only_head")
        /\ tmp' = queue.head /\ UNCHANGED queue
     \/ /\ Step("deq_only_head", "deq_only_tail")
        /\ Set("head", NoTcb) /\ UNCHANGED tmp
     \/ /\ Step("deq_only_tail", "deq_next")
        /\ Set("tail", NoTcb) /\ UNCHANGED tmp
  /\ UNCHANGED <<tcb_node, returned>>

DequeueFirst ==
  /\ \/ /\ Step("deq_tmp", "deq_head")
        /\ tmp' = queue.head /\ UNCHANGED queue
     \/ /\ Step("deq_head", "deq_next") /\ queue.head # NoTcb
        /\ Set("head", queue.next[queue.head]) /\ UNCHANGED tmp
  /\ UNCHANGED <<tcb_node, returned>>

(* Mutant of DequeueReturns: size is not counted down.                     *)
DequeueReturnsUncounted ==
  /\ \/ /\ Step("deq_next", "deq_size")
        /\ Link(tmp, NoTcb) /\ UNCHANGED <<tmp, returned>>
     \/ /\ Step("deq_size", "idle")
        /\ returned' = tmp /\ tmp' = NoTcb /\ UNCHANGED queue
  /\ UNCHANGED tcb_node

DequeueReturns ==
  /\ \/ /\ Step("deq_next", "deq_size")
        /\ Link(tmp, NoTcb) /\ UNCHANGED <<tmp, returned>>
     \/ /\ Step("deq_size", "idle")
        /\ Set("size", queue.size - 1) /\ returned' = tmp /\ tmp' = NoTcb
  /\ UNCHANGED tcb_node

(* The handler's dequeue and enqueue, uninterrupted.                       *)
Dequeued(q) ==
  [q EXCEPT !.head = IF q.size = 1 THEN NoTcb ELSE q.next[q.head],
            !.tail = IF q.size = 1 THEN NoTcb ELSE @,
            !.next = [@ EXCEPT ![q.head] = NoTcb], !.size = @ - 1]
Enqueued(q, n) ==
  IF q.size = 0
    THEN [q EXCEPT !.head = n, !.tail = n, !.next[n] = NoTcb, !.size = 1]
    ELSE [q EXCEPT !.tail = n, !.size = @ + 1,
                   !.next = [@ EXCEPT ![q.tail] = n, ![n] = NoTcb]]

SignalHandler ==
  /\ ~Masked \/ pc = "idle"
  /\ queue.size > 0 /\ queue.head # NoTcb
  /\ queue' = Enqueued(Dequeued(queue), queue.head)
  /\ UNCHANGED <<pc, tcb_node, tmp, returned>>

Next ==
  \/ \E n \in Tcbs : CallEnqueue(n)
  \/ EnqueueOnly \/ EnqueueLast \/ EnqueueCounts
  \/ CallDequeue \/ DequeueOnly \/ DequeueFirst \/ DequeueReturns
  \/ SignalHandler

Spec == Init /\ [][Next]_vars

-----------------------------------------------------------------------------
(* Statement by statement, the calls behave as a first-in first-out queue: *)
(* each takes effect at once, when size is counted.                        *)
Fifo == INSTANCE FifoQueue WITH q <- Contents
Refines == Fifo!Spec

(* my_pthread.c:281-283 (enqueue) and 300-302 (dequeue).  Between calls,   *)
(* size tcbs hang from head by next_tcb, all different, the last of them   *)
(* is tail and links to nothing, and no tcb outside the queue links into   *)
(* it.                                                                     *)
WellLinked ==
  pc = "idle" =>
    /\ queue.size >= 0
    /\ \A i, j \in 1 .. Len(Contents) :
         i # j => Contents[i] # Contents[j]
    /\ NoTcb \notin Members
    /\ IF queue.size = 0 THEN queue.head = NoTcb /\ queue.tail = NoTcb
       ELSE queue.tail = Contents[queue.size] /\ queue.next[queue.tail] = NoTcb
    /\ \A n \in Tcbs \ Members : queue.next[n] = NoTcb
=============================================================================
