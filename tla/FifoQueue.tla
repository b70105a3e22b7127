----------------------------- MODULE FifoQueue -----------------------------
(* What enqueue and dequeue of my_pthread.c promise (their comments,       *)
(* lines 280-284 and 299-303): a first-in first-out queue of tcbs.         *)
EXTENDS Integers, Sequences

CONSTANTS Tcbs, NoTcb

VARIABLES q, returned   (* the queue; what the latest dequeue returned *)

InQueue == {q[i] : i \in 1 .. Len(q)}

Init == q = <<>> /\ returned = NoTcb

Enqueue(n) == n \notin InQueue /\ q' = Append(q, n) /\ UNCHANGED returned

Dequeue ==
  \/ q = <<>> /\ returned' = NoTcb /\ UNCHANGED q
  \/ q # <<>> /\ returned' = Head(q) /\ q' = Tail(q)

(* The yield helper's dequeue of the head and enqueue of it.               *)
Rotate == q # <<>> /\ q' = Append(Tail(q), Head(q)) /\ UNCHANGED returned

Next == Dequeue \/ Rotate \/ \E n \in Tcbs : Enqueue(n)

Spec == Init /\ [][Next]_<<q, returned>>
=============================================================================
