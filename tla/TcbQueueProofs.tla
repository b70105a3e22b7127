--------------------------- MODULE TcbQueueProofs ---------------------------
(***************************************************************************)
(* With SIGALRM blocked, enqueue and dequeue of my_pthread.c, assignment   *)
(* by assignment, implement a first-in first-out queue, for any number of  *)
(* tcbs.                                                                   *)
(***************************************************************************)
EXTENDS TcbQueue, TLAPS, SequenceTheorems, FiniteSetTheorems,
        FunctionTheorems, WellFoundedInduction

-----------------------------------------------------------------------------
(* The walk along next_tcb.                                                *)

(* What the recursion of Walk says of its function.                        *)
WalkStep(w, from, next, i) ==
  IF i = 0 THEN <<>>
  ELSE IF i = 1 THEN <<from>>
  ELSE IF w[i - 1][i - 1] = NoTcb
    THEN Append(w[i - 1], NoTcb)
    ELSE Append(w[i - 1], next[w[i - 1][i - 1]])

LEMMA WalkUnfolds ==
  ASSUME NEW from, NEW n \in Nat, NEW next, NEW v,
         v = [i \in 0 .. n |-> WalkStep(v, from, next, i)]
  PROVE  \E w : /\ w = [i \in 0 .. n |-> WalkStep(w, from, next, i)]
                /\ Walk(from, n, next) = w[n]
<1> DEFINE W == CHOOSE w : w = [i \in 0 .. n |-> WalkStep(w, from, next, i)]
<1>1. W = [i \in 0 .. n |-> WalkStep(W, from, next, i)]
  OBVIOUS
<1>2. Walk(from, n, next) = W[n]
  BY Zenon DEF Walk, WalkStep
<1> QED
  BY <1>1, <1>2

LEMMA LeastExists ==
  ASSUME NEW S \in SUBSET Nat, S # {}
  PROVE  \E x \in S : \A y \in S : x <= y
<1> DEFINE R == {ss \in Nat \X Nat : ss[1] < ss[2]}
<1>1. IsWellFoundedOn(R, Nat)
  BY NatLessThanWellFounded DEF OpToRel
<1>2. PICK x \in S : \A y \in S : ~(<<y, x>> \in R)
  <2> HIDE DEF R
  <2> QED
    BY <1>1, WFMin
<1>3. ASSUME NEW y \in S PROVE x <= y
  <2>1. <<y, x>> \in Nat \X Nat /\ <<y, x>>[1] = y /\ <<y, x>>[2] = x
    OBVIOUS
  <2>2. ~(y < x)
    BY <1>2, <2>1
  <2> QED
    BY <2>2
<1> QED
  BY <1>3

LEMMA Prefixes ==
  ASSUME NEW S, NEW s \in Seq(S)
  PROVE  /\ SubSeq(s, 1, 0) = <<>>
         /\ SubSeq(s, 1, Len(s)) = s
         /\ \A i \in 1 .. Len(s) :
              /\ SubSeq(s, 1, i) = Append(SubSeq(s, 1, i - 1), s[i])
              /\ SubSeq(s, 1, i)[i] = s[i]
<1>1. Len(s) \in Nat /\ \A j \in 1 .. Len(s) : s[j] \in S
  BY LenProperties, ElementOfSeq
<1>2. ASSUME NEW i \in 0 .. Len(s)
      PROVE  /\ SubSeq(s, 1, i) \in Seq(S) /\ Len(SubSeq(s, 1, i)) = i
             /\ \A j \in 1 .. i : SubSeq(s, 1, i)[j] = s[j]
  <2>1. \A j \in 1 .. i : s[j] \in S
    BY <1>1
  <2>2. /\ SubSeq(s, 1, i) \in Seq(S)
        /\ Len(SubSeq(s, 1, i)) = IF 1 <= i THEN i - 1 + 1 ELSE 0
        /\ \A j \in 1 .. i - 1 + 1 : SubSeq(s, 1, i)[j] = s[1 + j - 1]
    BY <2>1, <1>1, SubSeqProperties
  <2> QED
    BY <2>2, <1>1
<1>3. SubSeq(s, 1, 0) = <<>>
  BY SubSeqEmpty
<1>4. SubSeq(s, 1, Len(s)) = s
  <2>1. Len(s) \in 0 .. Len(s)
    BY <1>1
  <2> QED
    BY <2>1, <1>2, SeqEqual
<1>5. ASSUME NEW i \in 1 .. Len(s)
      PROVE  /\ SubSeq(s, 1, i) = Append(SubSeq(s, 1, i - 1), s[i])
             /\ SubSeq(s, 1, i)[i] = s[i]
  <2>1. i \in 0 .. Len(s) /\ i - 1 \in 0 .. Len(s) /\ i \in 1 .. i
    BY <1>1
  <2>2. PICK a \in Seq(S) : a = SubSeq(s, 1, i - 1)
    BY <1>2, <2>1
  <2>3. PICK b \in Seq(S) : b = SubSeq(s, 1, i)
    BY <1>2, <2>1
  <2>4. /\ Len(a) = i - 1 /\ \A j \in 1 .. i - 1 : a[j] = s[j]
        /\ Len(b) = i /\ \A j \in 1 .. i : b[j] = s[j]
    BY <1>2, <2>1, <2>2, <2>3
  <2>5. /\ Append(a, s[i]) \in Seq(S) /\ Len(Append(a, s[i])) = Len(a) + 1
        /\ \A j \in 1 .. Len(a) : Append(a, s[i])[j] = a[j]
        /\ Append(a, s[i])[Len(a) + 1] = s[i]
    BY <1>1, AppendProperties
  <2>6. Len(Append(a, s[i])) = i /\ i - 1 + 1 = i
    BY <2>4, <2>5
  <2>7. ASSUME NEW j \in 1 .. i PROVE Append(a, s[i])[j] = b[j]
    <3>1. CASE j = i
      BY <3>1, <2>4, <2>5, <2>6
    <3>2. CASE j # i
      <4>1. j \in 1 .. i - 1
        BY <3>2
      <4> QED
        BY <4>1, <2>4, <2>5
    <3> QED
      BY <3>1, <3>2
  <2>8. Append(a, s[i]) = b
    BY <2>4, <2>5, <2>6, <2>7, SeqEqual
  <2> QED
    BY <2>1, <2>2, <2>3, <2>4, <2>8
<1> QED
  BY <1>3, <1>4, <1>5

(* A walk of n links visits s, if s is what hangs from its start.          *)
LEMMA WalkVisits ==
  ASSUME NEW S, NoTcb \notin S, NEW s \in Seq(S), NEW from, NEW next,
         s # <<>> => from = s[1],
         \A i \in 1 .. Len(s) - 1 : next[s[i]] = s[i + 1]
  PROVE  Walk(from, Len(s), next) = s
<1> DEFINE n == Len(s)
           v == [i \in 0 .. n |-> SubSeq(s, 1, i)]
<1>1. n \in Nat /\ \A j \in 1 .. n : s[j] \in S
  BY LenProperties, ElementOfSeq
<1> HIDE DEF n
<1>2. /\ SubSeq(s, 1, 0) = <<>> /\ SubSeq(s, 1, n) = s
      /\ \A i \in 1 .. n :
           /\ SubSeq(s, 1, i) = Append(SubSeq(s, 1, i - 1), s[i])
           /\ SubSeq(s, 1, i)[i] = s[i]
  BY Prefixes DEF n
<1>3. n > 0 => SubSeq(s, 1, 1) = <<from>>
  <2> HAVE n > 0
  <2>1. s # <<>> /\ 1 \in 1 .. n /\ 1 - 1 = 0
    BY DEF n
  <2>2. SubSeq(s, 1, 1) = Append(<<>>, s[1])
    BY <1>2, <2>1
  <2> QED
    BY <2>1, <2>2
<1>4. ASSUME NEW i \in 2 .. n, NEW w, w[i - 1] = SubSeq(s, 1, i - 1)
      PROVE  WalkStep(w, from, next, i) = SubSeq(s, 1, i)
  <2>1. /\ i - 1 \in 1 .. n /\ i - 1 \in 1 .. n - 1 /\ i - 1 + 1 = i
        /\ i \in 1 .. n /\ i # 0 /\ i # 1
    BY <1>1
  <2>2. w[i - 1][i - 1] = s[i - 1]
    BY <1>2, <1>4, <2>1
  <2>3. s[i - 1] # NoTcb
    BY <1>1, <2>1
  <2>4. next[s[i - 1]] = s[i]
    BY <2>1 DEF n
  <2>5. SubSeq(s, 1, i) = Append(SubSeq(s, 1, i - 1), s[i])
    BY <1>2, <2>1
  <2> QED
    BY <1>4, <2>1, <2>2, <2>3, <2>4, <2>5 DEF WalkStep
<1>5. ASSUME NEW i \in 0 .. n, NEW w,
             i # 0 => w[i - 1] = SubSeq(s, 1, i - 1)
      PROVE  WalkStep(w, from, next, i) = SubSeq(s, 1, i)
  <2>1. CASE i = 0
    BY <2>1, <1>2 DEF WalkStep
  <2>2. CASE i = 1
    <3>1. n > 0
      BY <1>1, <2>2
    <3>2. WalkStep(w, from, next, 1) = <<from>>
      BY DEF WalkStep
    <3> QED
      BY <2>2, <3>1, <3>2, <1>3
  <2>3. CASE i # 0 /\ i # 1
    <3>1. i \in 2 .. n
      BY <1>1, <2>3
    <3> QED
      BY <2>3, <3>1, <1>4, <1>5
  <2> QED
    BY <2>1, <2>2, <2>3
<1>6. v = [i \in 0 .. n |-> WalkStep(v, from, next, i)]
  <2>1. ASSUME NEW i \in 0 .. n
        PROVE  SubSeq(s, 1, i) = WalkStep(v, from, next, i)
    <3>1. i # 0 => i - 1 \in 0 .. n
      BY <1>1
    <3>2. i # 0 => v[i - 1] = SubSeq(s, 1, i - 1)
      BY <3>1
    <3> HIDE DEF v
    <3> QED
      BY <3>2, <1>5
  <2>2. v = [i \in 0 .. n |-> SubSeq(s, 1, i)]
    OBVIOUS
  <2> HIDE DEF v
  <2> QED
    BY <2>1, <2>2
<1>7. PICK w : /\ w = [i \in 0 .. n |-> WalkStep(w, from, next, i)]
               /\ Walk(from, n, next) = w[n]
  <2> HIDE DEF v
  <2> QED
    BY <1>1, <1>6, WalkUnfolds
<1>8. \A i \in 0 .. n : w[i] = WalkStep(w, from, next, i)
  BY <1>7
<1>9. \A i \in 0 .. n : w[i] = SubSeq(s, 1, i)
  <2> DEFINE B == {i \in 0 .. n : w[i] # SubSeq(s, 1, i)}
  <2> SUFFICES ASSUME B # {} PROVE FALSE
    OBVIOUS
  <2>1. B \in SUBSET Nat
    BY <1>1
  <2>2. PICK x \in B : \A y \in B : x <= y
    <3> HIDE DEF B
    <3> QED
      BY <2>1, LeastExists
  <2>3. x \in 0 .. n /\ w[x] # SubSeq(s, 1, x)
    BY <2>2
  <2>4. x # 0 => w[x - 1] = SubSeq(s, 1, x - 1)
    <3> HAVE x # 0
    <3>1. x - 1 \in 0 .. n /\ ~(x <= x - 1)
      BY <1>1, <2>3
    <3>2. x - 1 \notin B
      BY <2>2, <3>1
    <3> QED
      BY <3>1, <3>2
  <2>5. WalkStep(w, from, next, x) = SubSeq(s, 1, x)
    BY <2>3, <2>4, <1>5
  <2> QED
    BY <2>3, <2>5, <1>8
<1>10. Walk(from, n, next) = s
  <2>1. n \in 0 .. n
    BY <1>1
  <2> QED
    BY <2>1, <1>2, <1>7, <1>9
<1> QED
  BY <1>10 DEF n

-----------------------------------------------------------------------------
(* What the fields of the structure say at each assignment, as operators   *)
(* of the structure q, the point p, the locals n (tcb_node) and t (tmp)    *)
(* and the list s that the queue stands for.                               *)

Queues == [head : Links, tail : Links, size : Nat, next : [Tcbs -> Links]]

(* Head, tail and links are those of the list s, and no other tcb links.   *)
Complete(q, s) ==
  /\ q.head = IF s = <<>> THEN NoTcb ELSE s[1]
  /\ q.tail = IF s = <<>> THEN NoTcb ELSE s[Len(s)]
  /\ \A i \in 1 .. Len(s) - 1 : q.next[s[i]] = s[i + 1]
  /\ \A m \in Tcbs :
       (\A i \in 1 .. Len(s) - 1 : m # s[i]) => q.next[m] = NoTcb

Distinct(s) == \A i, j \in 1 .. Len(s) : i # j => s[i] # s[j]
In(m, s) == \E i \in 1 .. Len(s) : m = s[i]

EnqueueOnlyPoints ==
  {"enq_only_head", "enq_only_tail", "enq_only_next"}
EnqueuePoints ==
  EnqueueOnlyPoints \cup {"enq_link", "enq_tail", "enq_next", "enq_size"}
UnchangedPoints ==
  {"idle", "enq_only_head", "enq_link", "deq_only_tmp", "deq_only_head",
   "deq_tmp", "deq_head"}

(* The structure stands for s while only a local was assigned; from the    *)
(* first link on, for the list the call will leave behind, but for the     *)
(* field that is assigned next.                                            *)
AtPoint(q, p, n, t, s) ==
  /\ p \in UnchangedPoints => Complete(q, s)
  /\ p \in EnqueuePoints => n \in Tcbs /\ ~In(n, s)
  /\ p \in EnqueueOnlyPoints => q.size = 0
  /\ p = "enq_link" => q.size > 0
  /\ p \in {"enq_only_tail", "enq_tail"} =>
       Complete([q EXCEPT !.tail = n], Append(s, n))
  /\ p \in {"enq_only_next", "enq_next", "enq_size"} =>
       Complete(q, Append(s, n))
  /\ p \in {"deq_only_tmp", "deq_only_head", "deq_only_tail"} => q.size = 1
  /\ p \in {"deq_tmp", "deq_head"} => q.size > 1
  /\ p \in {"deq_next", "deq_size"} => q.size > 0
  /\ p \in {"deq_only_head", "deq_only_tail", "deq_head",
            "deq_next", "deq_size"} => t = s[1]
  /\ p = "deq_only_tail" => Complete([q EXCEPT !.tail = NoTcb], Tail(s))
  /\ p = "deq_next" => Complete([q EXCEPT !.next[t] = NoTcb], Tail(s))
  /\ p = "deq_size" => Complete(q, Tail(s))

StandsFor(q, p, n, t, s) ==
  /\ q \in Queues /\ p \in Points /\ n \in Links /\ t \in Links
  /\ s \in Seq(Tcbs) /\ Len(s) = q.size /\ Distinct(s)
  /\ AtPoint(q, p, n, t, s)

ContentsOf(q, p, t) ==
  IF q.size <= 0 THEN <<>>
  ELSE IF p \in {"deq_only_tail", "deq_next", "deq_size"}
         THEN <<t>> \o Walk(q.head, q.size - 1, q.next)
         ELSE Walk(q.head, q.size, q.next)

LEMMA ContentsAreContentsOf == Contents = ContentsOf(queue, pc, tmp)
BY DEF Contents, ContentsOf

(* The lists that the operations leave behind.                             *)
LEMMA AppendedList ==
  ASSUME NEW s \in Seq(Tcbs), NEW n \in Tcbs
  PROVE  /\ Append(s, n) \in Seq(Tcbs)
         /\ Append(s, n) # <<>>
         /\ Len(Append(s, n)) = Len(s) + 1
         /\ \A i \in 1 .. Len(s) : Append(s, n)[i] = s[i]
         /\ Append(s, n)[Len(s) + 1] = n
         /\ Distinct(s) /\ ~In(n, s) => Distinct(Append(s, n))
<1>1. PICK a : a = Append(s, n)
  OBVIOUS
<1>2. /\ a \in Seq(Tcbs) /\ Len(a) = Len(s) + 1 /\ a[Len(s) + 1] = n
      /\ \A i \in 1 .. Len(s) : a[i] = s[i]
  BY <1>1, AppendProperties
<1>3. Len(s) \in Nat
  BY LenProperties
<1>4. a # <<>>
  BY <1>2, <1>3
<1>5. ASSUME Distinct(s), ~In(n, s) PROVE Distinct(a)
  <2> SUFFICES ASSUME NEW i \in 1 .. Len(a), NEW j \in 1 .. Len(a), i # j
               PROVE  a[i] # a[j]
    BY DEF Distinct
  <2>1. /\ i \in 1 .. Len(s) \/ i = Len(s) + 1
        /\ j \in 1 .. Len(s) \/ j = Len(s) + 1
    BY <1>2, <1>3
  <2> QED
    BY <2>1, <1>2, <1>5 DEF Distinct, In
<1> QED
  BY <1>1, <1>2, <1>4, <1>5

LEMMA TailList ==
  ASSUME NEW s \in Seq(Tcbs), s # <<>>, Distinct(s)
  PROVE  /\ Tail(s) \in Seq(Tcbs) /\ s[1] \in Tcbs /\ Head(s) = s[1]
         /\ Len(Tail(s)) = Len(s) - 1
         /\ \A i \in 1 .. Len(s) - 1 : Tail(s)[i] = s[i + 1]
         /\ Distinct(Tail(s)) /\ ~In(s[1], Tail(s))
         /\ <<s[1]>> \o Tail(s) = s
<1>1. PICK a : a = Tail(s)
  OBVIOUS
<1>2. /\ a \in Seq(Tcbs) /\ Len(a) = Len(s) - 1
      /\ \A i \in 1 .. Len(a) : a[i] = s[i + 1]
      /\ Head(s) = s[1] /\ s[1] \in Tcbs
  BY <1>1, HeadTailProperties
<1>3. Len(s) \in Nat /\ Len(s) > 0
  BY LenProperties, EmptySeq
<1>4. Distinct(a)
  <2> SUFFICES ASSUME NEW i \in 1 .. Len(a), NEW j \in 1 .. Len(a), i # j
               PROVE  a[i] # a[j]
    BY DEF Distinct
  <2>1. /\ i + 1 \in 1 .. Len(s) /\ j + 1 \in 1 .. Len(s) /\ i + 1 # j + 1
    BY <1>2, <1>3
  <2> QED
    BY <2>1, <1>2 DEF Distinct
<1>5. ~In(s[1], a)
  <2> SUFFICES ASSUME NEW i \in 1 .. Len(a) PROVE s[1] # a[i]
    BY DEF In
  <2>1. 1 \in 1 .. Len(s) /\ i + 1 \in 1 .. Len(s) /\ i + 1 # 1
    BY <1>2, <1>3
  <2> QED
    BY <2>1, <1>2 DEF Distinct
<1>6. <<s[1]>> \o a = s
  <2>1. PICK h \in Seq(Tcbs) : h = <<s[1]>> /\ Len(h) = 1 /\ h[1] = s[1]
    <3>1. <<s[1]>> \in Seq(Tcbs) /\ Len(<<s[1]>>) = 1
      BY <1>2
    <3> QED
      BY <3>1
  <2>2. /\ h \o a \in Seq(Tcbs) /\ Len(h \o a) = Len(h) + Len(a)
        /\ \A i \in 1 .. Len(h) + Len(a) :
             (h \o a)[i] = IF i <= Len(h) THEN h[i] ELSE a[i - Len(h)]
    BY <1>2, ConcatProperties, Zenon
  <2>3. Len(h \o a) = Len(s)
    BY <1>2, <1>3, <2>1, <2>2
  <2>4. ASSUME NEW i \in 1 .. Len(s) PROVE (h \o a)[i] = s[i]
    <3>1. i \in 1 .. Len(h) + Len(a)
      BY <1>2, <1>3, <2>1
    <3>2. CASE i = 1
      BY <3>1, <3>2, <2>1, <2>2
    <3>3. CASE i # 1
      <4>1. i - 1 \in 1 .. Len(a) /\ i - 1 + 1 = i /\ ~(i <= 1)
        BY <1>2, <1>3, <3>3
      <4>2. (h \o a)[i] = a[i - 1]
        BY <3>1, <4>1, <2>1, <2>2
      <4> QED
        BY <4>1, <4>2, <1>2
    <3> QED
      BY <3>2, <3>3
  <2>5. h \o a = s
    BY <2>2, <2>3, <2>4, SeqEqual
  <2> QED
    BY <2>1, <2>5
<1> QED
  BY <1>1, <1>2, <1>4, <1>5, <1>6

(* The list s hangs from head.                                             *)
Hangs(head, next, s) ==
  /\ s # <<>> => head = s[1]
  /\ \A i \in 1 .. Len(s) - 1 : next[s[i]] = s[i + 1]

LEMMA HangingIsWalked ==
  ASSUME NEW head, NEW next, NEW s \in Seq(Tcbs), Hangs(head, next, s)
  PROVE  Walk(head, Len(s), next) = s
BY WalkVisits, TcbQueueAssumption DEF Hangs

LEMMA CompleteHangs ==
  ASSUME NEW q, NEW s \in Seq(Tcbs), Complete(q, s)
  PROVE  Hangs(q.head, q.next, s)
BY DEF Complete, Hangs

LEMMA AppendedHangs ==
  ASSUME NEW q, NEW s \in Seq(Tcbs), NEW n \in Tcbs, Complete(q, Append(s, n))
  PROVE  Hangs(q.head, q.next, s)
<1>1. PICK a \in Seq(Tcbs) : a = Append(s, n)
  BY AppendedList
<1>2. /\ a # <<>> /\ Len(a) = Len(s) + 1 /\ Len(s) \in Nat
      /\ \A i \in 1 .. Len(s) : a[i] = s[i]
  BY <1>1, AppendedList, LenProperties
<1>3. q.head = a[1] /\ \A i \in 1 .. Len(a) - 1 : q.next[a[i]] = a[i + 1]
  BY <1>1, <1>2 DEF Complete
<1>4. s # <<>> => q.head = s[1]
  <2> HAVE s # <<>>
  <2>1. 1 \in 1 .. Len(s)
    BY <1>2, EmptySeq
  <2> QED
    BY <2>1, <1>2, <1>3
<1>5. ASSUME NEW i \in 1 .. Len(s) - 1 PROVE q.next[s[i]] = s[i + 1]
  <2>1. i \in 1 .. Len(s) /\ i + 1 \in 1 .. Len(s) /\ i \in 1 .. Len(a) - 1
    BY <1>2
  <2> QED
    BY <2>1, <1>2, <1>3
<1> QED
  BY <1>4, <1>5 DEF Hangs

(* The queue that the structure stands for is what Contents walks through. *)
LEMMA ContentsAreList ==
  ASSUME NEW q, NEW p, NEW n, NEW t, NEW s, StandsFor(q, p, n, t, s)
  PROVE  ContentsOf(q, p, t) = s
<1>1. /\ q \in Queues /\ p \in Points /\ n \in Links /\ t \in Links
      /\ s \in Seq(Tcbs) /\ Len(s) = q.size /\ Distinct(s)
      /\ AtPoint(q, p, n, t, s)
  BY DEF StandsFor
<1>2. q.size \in Nat
  BY <1>1 DEF Queues
<1>3. CASE q.size = 0
  <2>1. s = <<>>
    BY <1>1, <1>3, EmptySeq
  <2> QED
    BY <2>1, <1>3 DEF ContentsOf
<1>4. CASE q.size # 0 /\ p \notin {"deq_only_tail", "deq_next", "deq_size"}
  <2>1. Hangs(q.head, q.next, s)
    <3>1. CASE p \in UnchangedPoints
      BY <3>1, <1>1, CompleteHangs DEF AtPoint
    <3>2. CASE p = "enq_tail"
      <4>1. /\ n \in Tcbs
            /\ Complete([q EXCEPT !.tail = n], Append(s, n))
        BY <3>2, <1>1 DEF AtPoint, EnqueuePoints
      <4>2. PICK r : r = [q EXCEPT !.tail = n]
        OBVIOUS
      <4>3. r.head = q.head /\ r.next = q.next
        BY <1>1, <4>2 DEF Queues
      <4> QED
        BY <1>1, <4>1, <4>2, <4>3, AppendedHangs
    <3>3. CASE p \in {"enq_next", "enq_size"}
      <4>1. n \in Tcbs /\ Complete(q, Append(s, n))
        BY <3>3, <1>1 DEF AtPoint, EnqueuePoints
      <4> QED
        BY <1>1, <4>1, AppendedHangs
    <3>4. p \notin EnqueueOnlyPoints
      BY <1>1, <1>4 DEF AtPoint
    <3>5. \/ p \in UnchangedPoints \/ p = "enq_tail"
          \/ p \in {"enq_next", "enq_size"}
      BY <1>1, <1>4, <3>4 DEF Points, UnchangedPoints, EnqueueOnlyPoints
    <3> QED
      BY <3>1, <3>2, <3>3, <3>5
  <2>2. Walk(q.head, q.size, q.next) = s
    BY <1>1, <2>1, HangingIsWalked
  <2> QED
    BY <1>2, <1>4, <2>2 DEF ContentsOf
<1>5. CASE q.size # 0 /\ p \in {"deq_only_tail", "deq_next", "deq_size"}
  <2>1. s # <<>>
    BY <1>1, <1>5
  <2>2. PICK a \in Seq(Tcbs) : a = Tail(s)
    BY <1>1, <2>1, TailList
  <2>3. /\ Len(a) = q.size - 1 /\ ~In(s[1], a) /\ <<s[1]>> \o a = s
        /\ s[1] \in Tcbs
    BY <1>1, <2>1, <2>2, TailList
  <2>4. t = s[1]
    BY <1>1, <1>5 DEF AtPoint
  <2>5. Hangs(q.head, q.next, a)
    <3>1. CASE p = "deq_only_tail"
      <4>1. Len(a) = 0
        BY <1>1, <2>3, <3>1 DEF AtPoint
      <4>2. a = <<>>
        BY <2>2, <4>1, EmptySeq
      <4> QED
        BY <4>2 DEF Hangs
    <3>2. CASE p = "deq_next"
      <4>1. PICK r : r = [q EXCEPT !.next[t] = NoTcb]
        OBVIOUS
      <4>2. Complete(r, a)
        BY <1>1, <2>2, <3>2, <4>1 DEF AtPoint
      <4>3. /\ r.head = q.head
            /\ \A m \in Tcbs : m # t => r.next[m] = q.next[m]
        BY <1>1, <4>1 DEF Queues
      <4>4. Hangs(r.head, r.next, a)
        BY <2>2, <4>2, CompleteHangs
      <4>5. ASSUME NEW i \in 1 .. Len(a) - 1 PROVE q.next[a[i]] = a[i + 1]
        <5>1. Len(a) \in Nat /\ i \in 1 .. Len(a)
          BY <1>2, <2>3
        <5>2. a[i] \in Tcbs /\ a[i] # t
          BY <5>1, <2>2, <2>3, <2>4 DEF In
        <5> QED
          BY <4>3, <4>4, <5>2 DEF Hangs
      <4> QED
        BY <4>3, <4>4, <4>5 DEF Hangs
    <3>3. CASE p = "deq_size"
      BY <1>1, <2>2, <3>3, CompleteHangs DEF AtPoint
    <3> QED
      BY <1>5, <3>1, <3>2, <3>3
  <2>6. Walk(q.head, q.size - 1, q.next) = a
    BY <2>2, <2>3, <2>5, HangingIsWalked
  <2> QED
    BY <1>2, <1>5, <2>3, <2>4, <2>6 DEF ContentsOf
<1> QED
  BY <1>3, <1>4, <1>5

-----------------------------------------------------------------------------
(* The assignments, field by field.                                        *)
Same(q, r, field) ==
  /\ field # "head" => r.head = q.head
  /\ field # "tail" => r.tail = q.tail
  /\ field # "size" => r.size = q.size
  /\ field # "next" => r.next = q.next

LEMMA SetHead ==
  ASSUME NEW q \in Queues, NEW v \in Links, NEW r,
         r = [q EXCEPT !["head"] = v]
  PROVE  r \in Queues /\ r.head = v /\ Same(q, r, "head")
BY DEF Queues, Same

LEMMA SetTail ==
  ASSUME NEW q \in Queues, NEW v \in Links, NEW r,
         r = [q EXCEPT !["tail"] = v]
  PROVE  r \in Queues /\ r.tail = v /\ Same(q, r, "tail")
BY DEF Queues, Same

LEMMA SetSize ==
  ASSUME NEW q \in Queues, NEW v \in Nat, NEW r,
         r = [q EXCEPT !["size"] = v]
  PROVE  r \in Queues /\ r.size = v /\ Same(q, r, "size")
BY DEF Queues, Same

LEMMA LinkSet ==
  ASSUME NEW q \in Queues, NEW m \in Tcbs, NEW v \in Links, NEW r,
         r = [q EXCEPT !.next[m] = v]
  PROVE  /\ r \in Queues /\ Same(q, r, "next")
         /\ r.next[m] = v
         /\ \A k \in Tcbs : k # m => r.next[k] = q.next[k]
BY DEF Queues, Same

LEMMA CompleteFields ==
  ASSUME NEW q, NEW r, NEW s,
         r.head = q.head, r.tail = q.tail, r.next = q.next
  PROVE  Complete(r, s) <=> Complete(q, s)
BY DEF Complete

(* The functions with an updated argument are equal at their arguments.    *)
LEMMA CompletePointwise ==
  ASSUME NEW q \in Queues, NEW r \in Queues, NEW s \in Seq(Tcbs),
         r.head = q.head, r.tail = q.tail,
         \A m \in Tcbs : r.next[m] = q.next[m],
         Complete(q, s)
  PROVE  Complete(r, s)
<1>1. \A i \in 1 .. Len(s) - 1 : s[i] \in Tcbs
  BY ElementOfSeq, LenProperties
<1> QED
  BY <1>1 DEF Complete

-----------------------------------------------------------------------------
(* enqueue.                                                                *)

(* The list with one more tcb: its head, its last, its links.              *)
LEMMA CompleteAppended ==
  ASSUME NEW q, NEW s \in Seq(Tcbs), NEW n \in Tcbs, ~In(n, s),
         q.head = IF s = <<>> THEN n ELSE s[1],
         q.tail = n,
         \A i \in 1 .. Len(s) - 1 : q.next[s[i]] = s[i + 1],
         s # <<>> => q.next[s[Len(s)]] = n,
         \A m \in Tcbs : ~In(m, s) => q.next[m] = NoTcb
  PROVE  Complete(q, Append(s, n))
<1>1. PICK a \in Seq(Tcbs) : a = Append(s, n)
  BY AppendedList
<1>2. /\ a # <<>> /\ Len(a) = Len(s) + 1 /\ Len(s) \in Nat
      /\ \A i \in 1 .. Len(s) : a[i] = s[i]
      /\ a[Len(s) + 1] = n
  BY <1>1, AppendedList, LenProperties
<1>3. q.head = a[1]
  <2>1. CASE s = <<>>
    BY <2>1, <1>2
  <2>2. CASE s # <<>>
    <3>1. 1 \in 1 .. Len(s)
      BY <1>2, <2>2, EmptySeq
    <3> QED
      BY <2>2, <3>1, <1>2
  <2> QED
    BY <2>1, <2>2
<1>4. q.tail = a[Len(a)]
  BY <1>2
<1>5. ASSUME NEW i \in 1 .. Len(a) - 1 PROVE q.next[a[i]] = a[i + 1]
  <2>1. i \in 1 .. Len(s) /\ s # <<>>
    BY <1>2
  <2>2. CASE i = Len(s)
    BY <2>1, <2>2, <1>2
  <2>3. CASE i # Len(s)
    <3>1. i \in 1 .. Len(s) - 1 /\ i + 1 \in 1 .. Len(s)
      BY <2>1, <2>3, <1>2
    <3> QED
      BY <2>1, <3>1, <1>2
  <2> QED
    BY <2>2, <2>3
<1>6. ASSUME NEW m \in Tcbs, \A i \in 1 .. Len(a) - 1 : m # a[i]
      PROVE  q.next[m] = NoTcb
  <2>1. ASSUME NEW i \in 1 .. Len(s) PROVE m # s[i]
    <3>1. i \in 1 .. Len(a) - 1
      BY <1>2
    <3> QED
      BY <3>1, <1>2, <1>6
  <2> QED
    BY <2>1 DEF In
<1>7. Complete(q, a)
  BY <1>2, <1>3, <1>4, <1>5, <1>6 DEF Complete
<1> QED
  BY <1>1, <1>7

(* The last of the list links to nothing.                                  *)
LEMMA LastLinksNowhere ==
  ASSUME NEW q, NEW s \in Seq(Tcbs), NEW n \in Tcbs, ~In(n, s),
         Complete(q, Append(s, n))
  PROVE  q.next[n] = NoTcb /\ q.tail = n
<1>1. PICK a \in Seq(Tcbs) : a = Append(s, n)
  BY AppendedList
<1>2. /\ a # <<>> /\ Len(a) = Len(s) + 1 /\ Len(s) \in Nat
      /\ \A i \in 1 .. Len(s) : a[i] = s[i]
      /\ a[Len(s) + 1] = n
  BY <1>1, AppendedList, LenProperties
<1>3. Complete(q, a)
  BY <1>1
<1>4. ASSUME NEW i \in 1 .. Len(a) - 1 PROVE n # a[i]
  <2>1. i \in 1 .. Len(s)
    BY <1>2
  <2> QED
    BY <2>1, <1>2 DEF In
<1> QED
  BY <1>2, <1>3, <1>4 DEF Complete

(* Linking the last tcb to nothing, as it already does.                    *)
LEMMA LinkedToNothing ==
  ASSUME NEW q \in Queues, NEW m \in Tcbs, q.next[m] = NoTcb,
         NEW s \in Seq(Tcbs), Complete(q, s)
  PROVE  /\ [q EXCEPT !.next[m] = NoTcb] \in Queues
         /\ [q EXCEPT !.next[m] = NoTcb].size = q.size
         /\ Complete([q EXCEPT !.next[m] = NoTcb], s)
<1>1. PICK r : r = [q EXCEPT !.next[m] = NoTcb]
  OBVIOUS
<1>2. NoTcb \in Links
  BY DEF Links
<1>3. /\ r \in Queues /\ Same(q, r, "next") /\ r.next[m] = NoTcb
      /\ \A k \in Tcbs : k # m => r.next[k] = q.next[k]
  BY <1>1, <1>2, LinkSet
<1>4. /\ r.head = q.head /\ r.tail = q.tail /\ r.size = q.size
      /\ \A k \in Tcbs : r.next[k] = q.next[k]
  BY <1>3 DEF Same
<1>5. Complete(r, s)
  BY <1>3, <1>4, CompletePointwise
<1> QED
  BY <1>1, <1>3, <1>4, <1>5

(* The last of a list, and the tcbs outside it, link to nothing.           *)
LEMMA NotInMeansNotListed ==
  ASSUME NEW q, NEW s \in Seq(Tcbs), Complete(q, s), Distinct(s)
  PROVE  /\ \A m \in Tcbs : ~In(m, s) => q.next[m] = NoTcb
         /\ s # <<>> => s[Len(s)] \in Tcbs /\ q.next[s[Len(s)]] = NoTcb
<1>1. Len(s) \in Nat /\ \A i \in 1 .. Len(s) : s[i] \in Tcbs
  BY LenProperties, ElementOfSeq
<1>2. ASSUME NEW m \in Tcbs, ~In(m, s) PROVE q.next[m] = NoTcb
  <2>1. ASSUME NEW i \in 1 .. Len(s) - 1 PROVE m # s[i]
    <3>1. i \in 1 .. Len(s)
      BY <1>1
    <3> QED
      BY <3>1, <1>2 DEF In
  <2> QED
    BY <2>1 DEF Complete
<1>3. ASSUME s # <<>>
      PROVE  s[Len(s)] \in Tcbs /\ q.next[s[Len(s)]] = NoTcb
  <2>1. Len(s) \in 1 .. Len(s)
    BY <1>1, <1>3, EmptySeq
  <2>2. ASSUME NEW i \in 1 .. Len(s) - 1 PROVE s[Len(s)] # s[i]
    <3>1. i \in 1 .. Len(s) /\ i # Len(s)
      BY <1>1
    <3> QED
      BY <2>1, <3>1 DEF Distinct
  <2> QED
    BY <1>1, <2>1, <2>2 DEF Complete
<1> QED
  BY <1>2, <1>3

-----------------------------------------------------------------------------
(* One lemma per operation, for the list s that the queue stands for.      *)
Listed(s) == StandsFor(queue, pc, tcb_node, tmp, s)

LEMMA CallEnqueueStep ==
  ASSUME NEW s, Listed(s), Contents = s, NEW n \in Tcbs, CallEnqueue(n)
  PROVE  Listed(s)' /\ returned' = returned
<1>1. /\ queue \in Queues /\ s \in Seq(Tcbs) /\ Len(s) = queue.size
      /\ Distinct(s) /\ tmp \in Links /\ AtPoint(queue, pc, tcb_node, tmp, s)
  BY DEF Listed, StandsFor
<1>2. /\ pc = "idle" /\ tcb_node' = n /\ queue' = queue /\ tmp' = tmp
      /\ returned' = returned
      /\ pc' = IF queue.size = 0 THEN "enq_only_head" ELSE "enq_link"
  BY DEF CallEnqueue
<1>3. ~In(n, s)
  BY DEF CallEnqueue, Members, In
<1>4. Complete(queue, s) /\ queue.size \in Nat
  BY <1>1, <1>2 DEF AtPoint, UnchangedPoints, Queues
<1>5. AtPoint(queue, pc', n, tmp, s)
  BY <1>2, <1>3, <1>4 DEF AtPoint, UnchangedPoints, EnqueuePoints,
                          EnqueueOnlyPoints
<1>6. pc' \in Points /\ n \in Links
  BY <1>2 DEF Points, Links
<1>7. StandsFor(queue', pc', tcb_node', tmp', s)
  BY <1>1, <1>2, <1>5, <1>6 DEF StandsFor
<1> QED
  BY <1>2, <1>7 DEF Listed

LEMMA EnqueueOnlyStep ==
  ASSUME NEW s, Listed(s), EnqueueOnly
  PROVE  Listed(s)' /\ returned' = returned
<1>1. /\ queue \in Queues /\ s \in Seq(Tcbs) /\ Len(s) = queue.size
      /\ Distinct(s) /\ tmp \in Links /\ AtPoint(queue, pc, tcb_node, tmp, s)
  BY DEF Listed, StandsFor
<1>2. /\ tcb_node' = tcb_node /\ tmp' = tmp /\ returned' = returned
  BY DEF EnqueueOnly
<1>3. /\ tcb_node \in Tcbs /\ ~In(tcb_node, s) /\ queue.size = 0 /\ s = <<>>
      /\ tcb_node \in Links
  <2>1. pc \in EnqueueOnlyPoints
    BY DEF EnqueueOnly, Step, EnqueueOnlyPoints
  <2>2. tcb_node \in Tcbs /\ ~In(tcb_node, s) /\ queue.size = 0
    BY <1>1, <2>1 DEF AtPoint, EnqueuePoints
  <2> QED
    BY <1>1, <2>2, EmptySeq DEF Links
<1>4. PICK q \in Queues : q = queue
  BY <1>1
<1>5. PICK n \in Tcbs : n = tcb_node /\ n \in Links
  BY <1>3
<1>6. PICK r : r = queue'
  OBVIOUS
<1>7. CASE Step("enq_only_head", "enq_only_tail") /\ Set("head", tcb_node)
  <2>1. /\ pc' = "enq_only_tail" /\ r = [q EXCEPT !["head"] = n]
        /\ Complete(q, s)
    BY <1>1, <1>4, <1>5, <1>6, <1>7 DEF Step, Set, AtPoint, UnchangedPoints
  <2>2. r \in Queues /\ r.head = n /\ Same(q, r, "head")
    BY <1>5, <2>1, SetHead
  <2>3. PICK u : u = [r EXCEPT !["tail"] = n]
    OBVIOUS
  <2>4. u \in Queues /\ u.tail = n /\ Same(r, u, "tail")
    BY <1>5, <2>2, <2>3, SetTail
  <2>5. /\ u.head = n /\ u.next = q.next /\ r.size = q.size
    BY <2>2, <2>4 DEF Same
  <2>6. \A m \in Tcbs : ~In(m, s) => u.next[m] = NoTcb
    BY <1>1, <2>1, <2>5, NotInMeansNotListed
  <2>7. \A i \in 1 .. Len(s) - 1 : u.next[s[i]] = s[i + 1]
    BY <1>3, <1>1
  <2>8. Complete(u, Append(s, n))
    BY <1>1, <1>3, <1>5, <2>4, <2>5, <2>6, <2>7, CompleteAppended
  <2>9. AtPoint(r, pc', n, tmp, s)
    BY <1>3, <1>4, <1>5, <2>1, <2>3, <2>5, <2>8
       DEF AtPoint, UnchangedPoints, EnqueuePoints, EnqueueOnlyPoints
  <2> QED
    BY <1>1, <1>2, <1>4, <1>5, <1>6, <2>1, <2>2, <2>5, <2>9
       DEF Listed, StandsFor, Points
<1>8. CASE Step("enq_only_tail", "enq_only_next") /\ Set("tail", tcb_node)
  <2>1. /\ pc' = "enq_only_next" /\ r = [q EXCEPT !["tail"] = n]
        /\ Complete([q EXCEPT !["tail"] = n], Append(s, n))
    BY <1>1, <1>4, <1>5, <1>6, <1>8 DEF Step, Set, AtPoint
  <2>2. r \in Queues /\ r.size = q.size
    <3>1. r = [q EXCEPT !["tail"] = n]
      BY <2>1
    <3>2. r \in Queues /\ Same(q, r, "tail")
      BY <1>5, <3>1, SetTail
    <3> QED
      BY <3>2 DEF Same
  <2>3. AtPoint(r, pc', n, tmp, s)
    BY <1>3, <1>4, <1>5, <2>1, <2>2
       DEF AtPoint, UnchangedPoints, EnqueuePoints, EnqueueOnlyPoints
  <2> QED
    BY <1>1, <1>2, <1>4, <1>5, <1>6, <2>1, <2>2, <2>3
       DEF Listed, StandsFor, Points
<1>9. CASE Step("enq_only_next", "enq_size") /\ Link(tcb_node, NoTcb)
  <2>1. /\ pc' = "enq_size" /\ r = [q EXCEPT !.next[n] = NoTcb]
        /\ Complete(q, Append(s, n))
    BY <1>1, <1>4, <1>5, <1>6, <1>9 DEF Step, Link, AtPoint
  <2>2. q.next[n] = NoTcb /\ Append(s, n) \in Seq(Tcbs)
    BY <1>1, <1>3, <1>5, <2>1, LastLinksNowhere, AppendedList
  <2>3. r \in Queues /\ r.size = q.size /\ Complete(r, Append(s, n))
    BY <2>1, <2>2, LinkedToNothing
  <2>4. AtPoint(r, pc', n, tmp, s)
    BY <1>3, <1>4, <1>5, <2>1, <2>3
       DEF AtPoint, UnchangedPoints, EnqueuePoints, EnqueueOnlyPoints
  <2> QED
    BY <1>1, <1>2, <1>4, <1>5, <1>6, <2>1, <2>3, <2>4
       DEF Listed, StandsFor, Points
<1> QED
  BY <1>7, <1>8, <1>9 DEF EnqueueOnly

LEMMA EnqueueLastStep ==
  ASSUME NEW s, Listed(s), EnqueueLast
  PROVE  Listed(s)' /\ returned' = returned
<1>1. /\ queue \in Queues /\ s \in Seq(Tcbs) /\ Len(s) = queue.size
      /\ Distinct(s) /\ tmp \in Links /\ AtPoint(queue, pc, tcb_node, tmp, s)
  BY DEF Listed, StandsFor
<1>2. /\ tcb_node' = tcb_node /\ tmp' = tmp /\ returned' = returned
  BY DEF EnqueueLast
<1>3. tcb_node \in Tcbs /\ ~In(tcb_node, s) /\ tcb_node \in Links
  <2>1. pc \in EnqueuePoints
    BY DEF EnqueueLast, Step, EnqueuePoints
  <2>2. tcb_node \in Tcbs /\ ~In(tcb_node, s)
    BY <1>1, <2>1 DEF AtPoint
  <2> QED
    BY <2>2 DEF Links
<1>4. PICK q \in Queues : q = queue
  BY <1>1
<1>5. PICK n \in Tcbs : n = tcb_node /\ n \in Links
  BY <1>3
<1>6. PICK r : r = queue'
  OBVIOUS
<1>7. CASE Step("enq_link", "enq_tail") /\ Link(queue.tail, tcb_node)
  <2>1. /\ pc' = "enq_tail" /\ r = [q EXCEPT !.next[q.tail] = n]
        /\ Complete(q, s) /\ q.size > 0
    BY <1>1, <1>4, <1>5, <1>6, <1>7 DEF Step, Link, AtPoint, UnchangedPoints
  <2>2. s # <<>> /\ Len(s) \in Nat /\ Len(s) > 0
    BY <1>1, <1>4, <2>1, LenProperties
  <2>3. PICK l \in Tcbs : /\ l = s[Len(s)] /\ q.tail = l
                          /\ \A i \in 1 .. Len(s) - 1 : s[i] # l
    <3>1. Len(s) \in 1 .. Len(s)
      BY <2>2
    <3>2. \A i \in 1 .. Len(s) - 1 : s[i] # s[Len(s)]
      BY <1>1, <2>2, <3>1 DEF Distinct
    <3>3. s[Len(s)] \in Tcbs /\ q.tail = s[Len(s)]
      BY <1>1, <2>1, <2>2, <3>1, ElementOfSeq DEF Complete
    <3> QED
      BY <3>2, <3>3
  <2>4. /\ r \in Queues /\ Same(q, r, "next") /\ r.next[l] = n
        /\ \A k \in Tcbs : k # l => r.next[k] = q.next[k]
    <3>1. r = [q EXCEPT !.next[l] = n]
      BY <2>1, <2>3
    <3>2. n \in Links
      BY <1>5
    <3> QED
      BY <3>1, <3>2 DEF Queues, Same
  <2>5. PICK u : u = [r EXCEPT !["tail"] = n]
    OBVIOUS
  <2>6. u \in Queues /\ u.tail = n /\ Same(r, u, "tail")
    BY <1>5, <2>4, <2>5, SetTail
  <2>7. u.head = q.head /\ u.next = r.next /\ r.size = q.size
    BY <2>4, <2>6 DEF Same
  <2>8. ASSUME NEW m \in Tcbs, ~In(m, s) PROVE u.next[m] = NoTcb
    <3>1. m # l
      BY <2>2, <2>3, <2>8 DEF In
    <3>2. q.next[m] = NoTcb
      BY <1>1, <2>1, <2>8, NotInMeansNotListed
    <3> QED
      BY <3>1, <3>2, <2>4, <2>7
  <2>9. ASSUME NEW i \in 1 .. Len(s) - 1 PROVE u.next[s[i]] = s[i + 1]
    <3>1. s[i] \in Tcbs /\ s[i] # l
      <4>1. i \in 1 .. Len(s)
        BY <2>2
      <4> QED
        BY <4>1, <1>1, <2>3, ElementOfSeq
    <3>2. q.next[s[i]] = s[i + 1]
      BY <2>1 DEF Complete
    <3> QED
      BY <3>1, <3>2, <2>4, <2>7
  <2>10. u.head = IF s = <<>> THEN n ELSE s[1]
    BY <2>1, <2>2, <2>7 DEF Complete
  <2>11. Complete(u, Append(s, n))
    <3>1. u.tail = n /\ u.next[s[Len(s)]] = n /\ ~In(n, s)
      BY <1>3, <1>5, <2>3, <2>4, <2>6, <2>7
    <3> QED
      BY <1>1, <2>8, <2>9, <2>10, <3>1, CompleteAppended
  <2>12. AtPoint(r, pc', n, tmp, s)
    BY <1>3, <1>5, <2>1, <2>5, <2>11
       DEF AtPoint, UnchangedPoints, EnqueuePoints, EnqueueOnlyPoints
  <2> QED
    BY <1>1, <1>2, <1>4, <1>5, <1>6, <2>1, <2>4, <2>7, <2>12
       DEF Listed, StandsFor, Points
<1>8. CASE Step("enq_tail", "enq_next") /\ Set("tail", tcb_node)
  <2>1. /\ pc' = "enq_next" /\ r = [q EXCEPT !["tail"] = n]
        /\ Complete([q EXCEPT !["tail"] = n], Append(s, n))
    BY <1>1, <1>4, <1>5, <1>6, <1>8 DEF Step, Set, AtPoint
  <2>2. r \in Queues /\ r.size = q.size
    <3>1. r = [q EXCEPT !["tail"] = n]
      BY <2>1
    <3>2. r \in Queues /\ Same(q, r, "tail")
      BY <1>5, <3>1, SetTail
    <3> QED
      BY <3>2 DEF Same
  <2>3. AtPoint(r, pc', n, tmp, s)
    BY <1>3, <1>4, <1>5, <2>1, <2>2
       DEF AtPoint, UnchangedPoints, EnqueuePoints, EnqueueOnlyPoints
  <2> QED
    BY <1>1, <1>2, <1>4, <1>5, <1>6, <2>1, <2>2, <2>3
       DEF Listed, StandsFor, Points
<1>9. CASE Step("enq_next", "enq_size") /\ Link(queue.tail, NoTcb)
  <2>1. /\ pc' = "enq_size" /\ r = [q EXCEPT !.next[q.tail] = NoTcb]
        /\ Complete(q, Append(s, n))
    BY <1>1, <1>4, <1>5, <1>6, <1>9 DEF Step, Link, AtPoint
  <2>2. q.next[n] = NoTcb /\ q.tail = n /\ Append(s, n) \in Seq(Tcbs)
    BY <1>1, <1>3, <1>5, <2>1, LastLinksNowhere, AppendedList
  <2>3. r = [q EXCEPT !.next[n] = NoTcb]
    BY <2>1, <2>2
  <2>4. r \in Queues /\ r.size = q.size /\ Complete(r, Append(s, n))
    <3>1. q.next[n] = NoTcb /\ Complete(q, Append(s, n))
      BY <2>1, <2>2
    <3>2. PICK a \in Seq(Tcbs) : a = Append(s, n)
      BY <2>2
    <3>3. Complete(q, a)
      BY <3>1, <3>2
    <3>4. /\ [q EXCEPT !.next[n] = NoTcb] \in Queues
          /\ [q EXCEPT !.next[n] = NoTcb].size = q.size
          /\ Complete([q EXCEPT !.next[n] = NoTcb], a)
      BY <3>1, <3>3, LinkedToNothing
    <3> QED
      BY <2>3, <3>2, <3>4
  <2>5. AtPoint(r, pc', n, tmp, s)
    BY <1>3, <1>4, <1>5, <2>1, <2>4
       DEF AtPoint, UnchangedPoints, EnqueuePoints, EnqueueOnlyPoints
  <2> QED
    BY <1>1, <1>2, <1>4, <1>5, <1>6, <2>1, <2>4, <2>5
       DEF Listed, StandsFor, Points
<1> QED
  BY <1>7, <1>8, <1>9 DEF EnqueueLast

LEMMA EnqueueCountsStep ==
  ASSUME NEW s, Listed(s), EnqueueCounts
  PROVE  /\ \E n \in Tcbs : ~In(n, s) /\ Listed(Append(s, n))'
         /\ returned' = returned
<1>1. /\ queue \in Queues /\ s \in Seq(Tcbs) /\ Len(s) = queue.size
      /\ Distinct(s) /\ tmp \in Links /\ AtPoint(queue, pc, tcb_node, tmp, s)
  BY DEF Listed, StandsFor
<1>2. /\ pc = "enq_size" /\ pc' = "idle" /\ tcb_node' = NoTcb
      /\ tmp' = tmp /\ returned' = returned
      /\ queue' = [queue EXCEPT !["size"] = queue.size + 1]
  BY DEF EnqueueCounts, Step, Set
<1>3. PICK n \in Tcbs : n = tcb_node /\ ~In(n, s)
                        /\ Complete(queue, Append(s, n))
  BY <1>1, <1>2 DEF AtPoint, EnqueuePoints
<1>4. PICK q \in Queues : q = queue
  BY <1>1
<1>5. PICK r : r = queue'
  OBVIOUS
<1>6. q.size + 1 \in Nat
  BY DEF Queues
<1>7. r \in Queues /\ r.size = q.size + 1 /\ Same(q, r, "size")
  <2>1. PICK v \in Nat : v = q.size + 1
    BY <1>6
  <2>2. r = [q EXCEPT !["size"] = v]
    BY <1>2, <1>4, <1>5, <2>1
  <2>3. r \in Queues /\ r.size = v /\ Same(q, r, "size")
    BY <2>2, SetSize
  <2> QED
    BY <2>1, <2>3
<1>8. PICK a \in Seq(Tcbs) : /\ a = Append(s, n) /\ Len(a) = Len(s) + 1
                             /\ Distinct(a)
  BY <1>1, <1>3, AppendedList
<1>9. Complete(r, a)
  BY <1>3, <1>4, <1>7, <1>8, CompleteFields DEF Same
<1>10. AtPoint(r, "idle", NoTcb, tmp, a)
  BY <1>9 DEF AtPoint, UnchangedPoints, EnqueuePoints, EnqueueOnlyPoints
<1>11. NoTcb \in Links /\ "idle" \in Points
  BY DEF Links, Points
<1>12. StandsFor(queue', pc', tcb_node', tmp', a)
  BY <1>1, <1>2, <1>4, <1>5, <1>7, <1>8, <1>10, <1>11 DEF StandsFor
<1>13. Listed(a)'
  BY <1>12 DEF Listed
<1> QED
  BY <1>2, <1>3, <1>8, <1>13

-----------------------------------------------------------------------------
(* dequeue.                                                                *)
LEMMA CallDequeueStep ==
  ASSUME NEW s, Listed(s), CallDequeue
  PROVE  /\ Listed(s)'
         /\ \/ returned' = returned
            \/ s = <<>> /\ returned' = NoTcb
<1>1. /\ queue \in Queues /\ s \in Seq(Tcbs) /\ Len(s) = queue.size
      /\ Distinct(s) /\ tmp \in Links /\ tcb_node \in Links
      /\ AtPoint(queue, pc, tcb_node, tmp, s) /\ queue.size \in Nat
  BY DEF Listed, StandsFor, Queues
<1>2. pc = "idle" /\ UNCHANGED <<queue, tcb_node, tmp>>
  BY DEF CallDequeue
<1>3. Complete(queue, s)
  BY <1>1, <1>2 DEF AtPoint, UnchangedPoints
<1>4. CASE queue.size = 0
  <2>1. s = <<>> /\ returned' = NoTcb /\ pc' = pc
    BY <1>1, <1>4, EmptySeq DEF CallDequeue
  <2>2. Listed(s)'
    BY <1>2, <2>1 DEF Listed
  <2> QED
    BY <2>1, <2>2
<1>5. CASE queue.size # 0
  <2>1. /\ pc' = IF queue.size = 1 THEN "deq_only_tmp" ELSE "deq_tmp"
        /\ returned' = returned
    BY <1>5 DEF CallDequeue
  <2>2. AtPoint(queue, pc', tcb_node, tmp, s) /\ pc' \in Points
    BY <1>1, <1>3, <1>5, <2>1
       DEF AtPoint, UnchangedPoints, EnqueuePoints, EnqueueOnlyPoints, Points
  <2>3. StandsFor(queue', pc', tcb_node', tmp', s)
    BY <1>1, <1>2, <2>2 DEF StandsFor
  <2> QED
    BY <2>1, <2>3 DEF Listed
<1> QED
  BY <1>4, <1>5

LEMMA DequeueOnlyStep ==
  ASSUME NEW s, Listed(s), DequeueOnly
  PROVE  Listed(s)' /\ returned' = returned
<1>1. /\ queue \in Queues /\ s \in Seq(Tcbs) /\ Len(s) = queue.size
      /\ Distinct(s) /\ tmp \in Links /\ tcb_node \in Links
      /\ AtPoint(queue, pc, tcb_node, tmp, s) /\ queue.size \in Nat
  BY DEF Listed, StandsFor, Queues
<1>2. tcb_node' = tcb_node /\ returned' = returned
  BY DEF DequeueOnly
<1>3. queue.size = 1 /\ s # <<>>
  <2>1. pc \in {"deq_only_tmp", "deq_only_head", "deq_only_tail"}
    BY DEF DequeueOnly, Step
  <2> QED
    BY <1>1, <2>1 DEF AtPoint
<1>4. /\ Tail(s) = <<>> /\ s[1] \in Tcbs /\ Tail(s) \in Seq(Tcbs)
  <2>1. /\ Tail(s) \in Seq(Tcbs) /\ Len(Tail(s)) = Len(s) - 1
        /\ s[1] \in Tcbs
    BY <1>1, <1>3, TailList
  <2>2. Len(Tail(s)) = 0
    BY <1>1, <1>3, <2>1
  <2> QED
    BY <2>1, <2>2, EmptySeq
<1>5. PICK q \in Queues : q = queue
  BY <1>1
<1>6. PICK r : r = queue'
  OBVIOUS
<1>7. NoTcb \in Links
  BY DEF Links
<1>8. CASE Step("deq_only_tmp", "deq_only_head") /\ tmp' = queue.head
           /\ UNCHANGED queue
  <2>1. pc' = "deq_only_head" /\ Complete(queue, s)
    BY <1>1, <1>8 DEF Step, AtPoint, UnchangedPoints
  <2>2. tmp' = s[1] /\ queue' = queue
    BY <1>3, <1>8, <2>1 DEF Complete
  <2>3. PICK t \in Tcbs : t = tmp' /\ t = s[1] /\ t \in Links
    BY <1>4, <2>2 DEF Links
  <2>4. AtPoint(queue, pc', tcb_node, t, s)
    BY <1>3, <2>1, <2>3
       DEF AtPoint, UnchangedPoints, EnqueuePoints, EnqueueOnlyPoints
  <2> QED
    BY <1>1, <1>2, <2>1, <2>2, <2>3, <2>4 DEF Listed, StandsFor, Points
<1>9. CASE Step("deq_only_head", "deq_only_tail") /\ Set("head", NoTcb)
           /\ UNCHANGED tmp
  <2>1. /\ pc' = "deq_only_tail" /\ r = [q EXCEPT !["head"] = NoTcb]
        /\ Complete(q, s) /\ tmp = s[1] /\ tmp' = tmp
    BY <1>1, <1>5, <1>6, <1>9 DEF Step, Set, AtPoint, UnchangedPoints
  <2>2. r \in Queues /\ r.head = NoTcb /\ Same(q, r, "head")
    <3>1. r = [q EXCEPT !["head"] = NoTcb]
      BY <2>1
    <3> QED
      BY <1>7, <3>1, SetHead
  <2>3. PICK u : u = [r EXCEPT !["tail"] = NoTcb]
    OBVIOUS
  <2>4. u \in Queues /\ u.tail = NoTcb /\ Same(r, u, "tail")
    BY <1>7, <2>2, <2>3, SetTail
  <2>5. /\ u.head = NoTcb /\ u.next = q.next /\ r.size = q.size
    BY <2>2, <2>4 DEF Same
  <2>6. \A m \in Tcbs : u.next[m] = NoTcb
    <3>1. \A i \in 1 .. Len(s) - 1 : FALSE
      BY <1>1, <1>3
    <3> QED
      BY <2>1, <2>5, <3>1 DEF Complete
  <2>7. Complete(u, <<>>)
    BY <2>4, <2>5, <2>6 DEF Complete
  <2>8. AtPoint(r, pc', tcb_node, tmp, s)
    BY <1>3, <1>4, <1>5, <2>1, <2>3, <2>5, <2>7
       DEF AtPoint, UnchangedPoints, EnqueuePoints, EnqueueOnlyPoints
  <2> QED
    BY <1>1, <1>2, <1>5, <1>6, <2>1, <2>2, <2>5, <2>8
       DEF Listed, StandsFor, Points
<1>10. CASE Step("deq_only_tail", "deq_next") /\ Set("tail", NoTcb)
            /\ UNCHANGED tmp
  <2>1. /\ pc' = "deq_next" /\ r = [q EXCEPT !["tail"] = NoTcb]
        /\ Complete([q EXCEPT !["tail"] = NoTcb], <<>>)
        /\ tmp = s[1] /\ tmp' = tmp
    BY <1>1, <1>4, <1>5, <1>6, <1>10 DEF Step, Set, AtPoint
  <2>2. Complete(r, <<>>)
    BY <2>1
  <2>3. r \in Queues /\ Same(q, r, "tail")
    <3>1. r = [q EXCEPT !["tail"] = NoTcb]
      BY <2>1
    <3> QED
      BY <1>7, <3>1, SetTail
  <2>4. PICK t \in Tcbs : t = tmp /\ t = s[1]
    BY <1>4, <2>1
  <2>5. r.next[t] = NoTcb
    BY <2>2 DEF Complete
  <2>6. Complete([r EXCEPT !.next[t] = NoTcb], <<>>)
    <3>1. <<>> \in Seq(Tcbs)
      BY <1>4
    <3> QED
      BY <2>2, <2>3, <2>5, <3>1, LinkedToNothing
  <2>7. r.size = q.size
    BY <2>3 DEF Same
  <2>8. AtPoint(r, pc', tcb_node, t, s)
    <3>1. Complete([r EXCEPT !.next[t] = NoTcb], Tail(s))
      BY <1>4, <2>6
    <3>2. r.size > 0 /\ t = s[1] /\ pc' = "deq_next"
      BY <1>3, <1>5, <2>1, <2>4, <2>7
    <3> QED
      BY <3>1, <3>2
         DEF AtPoint, UnchangedPoints, EnqueuePoints, EnqueueOnlyPoints
  <2> QED
    BY <1>1, <1>2, <1>5, <1>6, <2>1, <2>3, <2>4, <2>7, <2>8
       DEF Listed, StandsFor, Points
<1> QED
  BY <1>8, <1>9, <1>10 DEF DequeueOnly

(* The links without those of the first tcb.                               *)
LEMMA CompleteTail ==
  ASSUME NEW q \in Queues, NEW s \in Seq(Tcbs), s # <<>>, Distinct(s),
         Complete(q, s), NEW r \in Queues,
         r.head = IF Len(s) = 1 THEN NoTcb ELSE q.next[q.head],
         r.tail = IF Len(s) = 1 THEN NoTcb ELSE q.tail,
         r.next[s[1]] = NoTcb,
         \A m \in Tcbs : m # s[1] => r.next[m] = q.next[m]
  PROVE  Complete(r, Tail(s))
<1>1. PICK a \in Seq(Tcbs) : a = Tail(s)
  BY TailList
<1>2. /\ Len(a) = Len(s) - 1 /\ s[1] \in Tcbs /\ ~In(s[1], a)
      /\ \A i \in 1 .. Len(s) - 1 : a[i] = s[i + 1]
  BY <1>1, TailList
<1>3. /\ Len(s) \in Nat /\ Len(s) > 0
      /\ \A i \in 1 .. Len(s) : s[i] \in Tcbs
  BY LenProperties, EmptySeq, ElementOfSeq
<1>4. /\ q.head = s[1] /\ q.tail = s[Len(s)]
      /\ \A i \in 1 .. Len(s) - 1 : q.next[s[i]] = s[i + 1]
  BY DEF Complete
<1>5. a = <<>> <=> Len(s) = 1
  BY <1>2, <1>3, EmptySeq
<1>6. r.head = IF a = <<>> THEN NoTcb ELSE a[1]
  <2>1. CASE Len(s) = 1
    BY <2>1, <1>5
  <2>2. CASE Len(s) # 1
    <3>1. 1 \in 1 .. Len(s) - 1
      <4>1. PICK l \in Nat : l = Len(s) /\ l > 0
        BY <1>3
      <4>2. l # 1
        BY <4>1, <2>2
      <4>3. 1 \in 1 .. l - 1
        BY <4>1, <4>2
      <4> QED
        BY <4>1, <4>3
    <3> QED
      BY <2>2, <3>1, <1>2, <1>4, <1>5
  <2> QED
    BY <2>1, <2>2
<1>7. r.tail = IF a = <<>> THEN NoTcb ELSE a[Len(a)]
  <2>1. CASE Len(s) = 1
    BY <2>1, <1>5
  <2>2. CASE Len(s) # 1
    <3>1. Len(a) \in 1 .. Len(s) - 1 /\ Len(a) + 1 = Len(s)
      BY <1>2, <1>3, <2>2
    <3> QED
      BY <2>2, <3>1, <1>2, <1>4, <1>5
  <2> QED
    BY <2>1, <2>2
<1>8. ASSUME NEW i \in 1 .. Len(a) - 1 PROVE r.next[a[i]] = a[i + 1]
  <2>1. /\ i \in 1 .. Len(s) - 1 /\ i + 1 \in 1 .. Len(s) - 1
        /\ i + 1 \in 1 .. Len(s) /\ i \in 1 .. Len(a)
    BY <1>2, <1>3
  <2>2. /\ a[i] = s[i + 1] /\ a[i + 1] = s[i + 1 + 1]
        /\ a[i] \in Tcbs /\ a[i] # s[1]
    BY <2>1, <1>2, <1>3 DEF In
  <2>3. q.next[s[i + 1]] = s[i + 1 + 1]
    BY <2>1, <1>4
  <2> QED
    BY <2>2, <2>3
<1>9. ASSUME NEW m \in Tcbs, \A i \in 1 .. Len(a) - 1 : m # a[i]
      PROVE  r.next[m] = NoTcb
  <2>1. CASE m = s[1]
    BY <2>1
  <2>2. CASE m # s[1]
    <3>1. ASSUME NEW i \in 1 .. Len(s) - 1 PROVE m # s[i]
      <4>1. CASE i = 1
        BY <4>1, <2>2
      <4>2. CASE i # 1
        <5>1. /\ i - 1 \in 1 .. Len(a) - 1 /\ i - 1 \in 1 .. Len(s) - 1
              /\ i - 1 + 1 = i
          BY <4>2, <1>2, <1>3
        <5> QED
          BY <5>1, <1>2, <1>9
      <4> QED
        BY <4>1, <4>2
    <3>2. q.next[m] = NoTcb
      BY <3>1 DEF Complete
    <3> QED
      BY <3>2, <2>2
  <2> QED
    BY <2>1, <2>2
<1>10. Complete(r, a)
  BY <1>6, <1>7, <1>8, <1>9 DEF Complete
<1> QED
  BY <1>1, <1>10

LEMMA DequeueFirstStep ==
  ASSUME NEW s, Listed(s), DequeueFirst
  PROVE  Listed(s)' /\ returned' = returned
<1>1. /\ queue \in Queues /\ s \in Seq(Tcbs) /\ Len(s) = queue.size
      /\ Distinct(s) /\ tmp \in Links /\ tcb_node \in Links
      /\ AtPoint(queue, pc, tcb_node, tmp, s) /\ queue.size \in Nat
  BY DEF Listed, StandsFor, Queues
<1>2. tcb_node' = tcb_node /\ returned' = returned
  BY DEF DequeueFirst
<1>3. queue.size > 1 /\ s # <<>> /\ Complete(queue, s)
  <2>1. pc \in {"deq_tmp", "deq_head"}
    BY DEF DequeueFirst, Step
  <2> QED
    BY <1>1, <2>1 DEF AtPoint, UnchangedPoints
<1>4. s[1] \in Tcbs
  BY <1>1, <1>3, TailList
<1>5. PICK q \in Queues : q = queue
  BY <1>1
<1>6. PICK r : r = queue'
  OBVIOUS
<1>7. NoTcb \in Links
  BY DEF Links
<1>8. CASE Step("deq_tmp", "deq_head") /\ tmp' = queue.head /\ UNCHANGED queue
  <2>1. pc' = "deq_head" /\ tmp' = s[1] /\ queue' = queue
    BY <1>3, <1>8 DEF Step, Complete
  <2>2. PICK t \in Tcbs : t = tmp' /\ t = s[1] /\ t \in Links
    BY <1>4, <2>1 DEF Links
  <2>3. AtPoint(queue, pc', tcb_node, t, s)
    BY <1>3, <2>1, <2>2
       DEF AtPoint, UnchangedPoints, EnqueuePoints, EnqueueOnlyPoints
  <2> QED
    BY <1>1, <1>2, <2>1, <2>2, <2>3 DEF Listed, StandsFor, Points
<1>9. CASE Step("deq_head", "deq_next") /\ queue.head # NoTcb
           /\ Set("head", queue.next[queue.head]) /\ UNCHANGED tmp
  <2>1. /\ pc' = "deq_next" /\ tmp = s[1] /\ tmp' = tmp /\ q.head = s[1]
        /\ r = [q EXCEPT !["head"] = q.next[q.head]]
    BY <1>1, <1>3, <1>5, <1>6, <1>9 DEF Step, Set, AtPoint, Complete
  <2>2. PICK h \in Links : h = q.next[q.head]
    BY <1>4, <2>1 DEF Queues
  <2>3. r \in Queues /\ r.head = h /\ Same(q, r, "head")
    <3>1. r = [q EXCEPT !["head"] = h]
      BY <2>1, <2>2
    <3> QED
      BY <3>1, SetHead
  <2>4. PICK t \in Tcbs : t = s[1]
    BY <1>4
  <2>5. PICK u : u = [r EXCEPT !.next[t] = NoTcb]
    OBVIOUS
  <2>6. /\ u \in Queues /\ Same(r, u, "next") /\ u.next[t] = NoTcb
        /\ \A k \in Tcbs : k # t => u.next[k] = r.next[k]
    BY <1>7, <2>3, <2>5 DEF Queues, Same
  <2>7. /\ u.head = q.next[q.head] /\ u.tail = q.tail /\ r.size = q.size
        /\ \A k \in Tcbs : k # s[1] => u.next[k] = q.next[k]
        /\ u.next[s[1]] = NoTcb
    BY <2>2, <2>3, <2>4, <2>6 DEF Same
  <2>8. Len(s) # 1 /\ Complete(q, s)
    BY <1>1, <1>3, <1>5
  <2>9. Complete(u, Tail(s))
    BY <1>1, <1>3, <2>6, <2>7, <2>8, CompleteTail
  <2>10. AtPoint(r, pc', tcb_node, t, s)
    <3>1. Complete([r EXCEPT !.next[t] = NoTcb], Tail(s))
      BY <2>5, <2>9
    <3>2. r.size > 0 /\ t = s[1] /\ pc' = "deq_next"
      BY <1>1, <1>3, <1>5, <2>1, <2>4, <2>7
    <3> QED
      BY <3>1, <3>2
         DEF AtPoint, UnchangedPoints, EnqueuePoints, EnqueueOnlyPoints
  <2> QED
    BY <1>1, <1>2, <1>5, <1>6, <2>1, <2>3, <2>4, <2>7, <2>10
       DEF Listed, StandsFor, Points
<1> QED
  BY <1>8, <1>9 DEF DequeueFirst

(* Only the last assignment, the count, takes the first tcb out.           *)
LEMMA DequeueReturnsStep ==
  ASSUME NEW s, Listed(s), DequeueReturns
  PROVE  \/ Listed(s)' /\ returned' = returned
         \/ /\ s # <<>> /\ Listed(Tail(s))' /\ returned' = Head(s)
            /\ returned' \in Tcbs
<1>1. /\ queue \in Queues /\ s \in Seq(Tcbs) /\ Len(s) = queue.size
      /\ Distinct(s) /\ tmp \in Links /\ tcb_node \in Links
      /\ AtPoint(queue, pc, tcb_node, tmp, s) /\ queue.size \in Nat
  BY DEF Listed, StandsFor, Queues
<1>2. tcb_node' = tcb_node
  BY DEF DequeueReturns
<1>3. queue.size > 0 /\ s # <<>> /\ tmp = s[1]
  <2>1. pc \in {"deq_next", "deq_size"}
    BY DEF DequeueReturns, Step
  <2> QED
    BY <1>1, <2>1 DEF AtPoint
<1>4. PICK a \in Seq(Tcbs) : a = Tail(s) /\ Len(a) = Len(s) - 1
                             /\ Distinct(a)
  BY <1>1, <1>3, TailList
<1>5. s[1] \in Tcbs /\ Head(s) = s[1]
  BY <1>1, <1>3, TailList
<1>6. PICK q \in Queues : q = queue
  BY <1>1
<1>7. PICK r : r = queue'
  OBVIOUS
<1>8. NoTcb \in Links
  BY DEF Links
<1>9. CASE Step("deq_next", "deq_size") /\ Link(tmp, NoTcb)
           /\ UNCHANGED <<tmp, returned>>
  <2>1. PICK t \in Tcbs : t = s[1] /\ t = tmp /\ t = tmp'
    BY <1>3, <1>5, <1>9
  <2>2. /\ pc' = "deq_size" /\ r = [q EXCEPT !.next[t] = NoTcb]
        /\ returned' = returned
    BY <1>6, <1>7, <1>9, <2>1 DEF Step, Link
  <2>3. r \in Queues /\ Same(q, r, "next")
    BY <1>8, <2>2 DEF Queues, Same
  <2>4. Complete(r, a)
    <3>1. Complete([q EXCEPT !.next[t] = NoTcb], a)
      BY <1>1, <1>4, <1>6, <1>9, <2>1 DEF Step, AtPoint
    <3> QED
      BY <2>2, <3>1
  <2>5. r.size = q.size
    BY <2>3 DEF Same
  <2>6. AtPoint(r, pc', tcb_node, t, s)
    BY <1>3, <1>4, <1>6, <2>1, <2>2, <2>4, <2>5
       DEF AtPoint, UnchangedPoints, EnqueuePoints, EnqueueOnlyPoints
  <2>7. Listed(s)'
    BY <1>1, <1>2, <1>6, <1>7, <2>1, <2>2, <2>3, <2>5, <2>6
       DEF Listed, StandsFor, Points
  <2> QED
    BY <2>2, <2>7
<1>10. CASE Step("deq_size", "idle") /\ Set("size", queue.size - 1)
            /\ returned' = tmp /\ tmp' = NoTcb
  <2>1. PICK v \in Nat : v = q.size - 1
    BY <1>1, <1>3, <1>6
  <2>2. r = [q EXCEPT !["size"] = v] /\ pc' = "idle"
    BY <1>6, <1>7, <1>10, <2>1 DEF Step, Set
  <2>3. r \in Queues /\ r.size = v /\ Same(q, r, "size")
    BY <2>2, SetSize
  <2>4. Complete(q, a)
    BY <1>1, <1>4, <1>6, <1>10 DEF Step, AtPoint
  <2>5. Complete(r, a)
    BY <2>3, <2>4, CompleteFields DEF Same
  <2>6. AtPoint(r, "idle", tcb_node, NoTcb, a)
    BY <2>5 DEF AtPoint, UnchangedPoints, EnqueuePoints, EnqueueOnlyPoints
  <2>7. Len(a) = r.size
    BY <1>1, <1>4, <1>6, <2>1, <2>3
  <2>8. StandsFor(queue', pc', tcb_node', tmp', a)
    BY <1>1, <1>2, <1>4, <1>7, <1>8, <1>10, <2>2, <2>3, <2>6, <2>7
       DEF StandsFor, Points
  <2>9. Listed(Tail(s))'
    BY <1>4, <2>8 DEF Listed
  <2> QED
    BY <1>3, <1>5, <1>10, <2>9
<1> QED
  BY <1>9, <1>10 DEF DequeueReturns

-----------------------------------------------------------------------------
(* The handler.                                                            *)
LEMMA DequeuedFields ==
  ASSUME NEW q \in Queues, q.head \in Tcbs, q.size > 0
  PROVE  /\ Dequeued(q) \in Queues
         /\ Dequeued(q).head = IF q.size = 1 THEN NoTcb ELSE q.next[q.head]
         /\ Dequeued(q).tail = IF q.size = 1 THEN NoTcb ELSE q.tail
         /\ Dequeued(q).size = q.size - 1
         /\ Dequeued(q).next = [q.next EXCEPT ![q.head] = NoTcb]
<1>1. /\ q.head \in Links /\ q.tail \in Links /\ q.size \in Nat
      /\ q.next \in [Tcbs -> Links] /\ NoTcb \in Links
  BY DEF Queues, Links
<1>2. PICK h \in Links : h = IF q.size = 1 THEN NoTcb ELSE q.next[q.head]
  BY <1>1
<1>3. PICK t \in Links : t = IF q.size = 1 THEN NoTcb ELSE q.tail
  BY <1>1
<1>4. PICK z \in Nat : z = q.size - 1
  BY <1>1
<1>5. PICK x \in [Tcbs -> Links] : x = [q.next EXCEPT ![q.head] = NoTcb]
  BY <1>1
<1>6. Dequeued(q) = [q EXCEPT !.head = h, !.tail = t, !.next = x, !.size = z]
  BY <1>2, <1>3, <1>4, <1>5, Zenon DEF Dequeued
<1>7. PICK r : r = [q EXCEPT !.head = h, !.tail = t]
  OBVIOUS
<1>8. r \in Queues /\ r.head = h /\ r.tail = t
  BY <1>7 DEF Queues
<1>9. PICK u : u = [r EXCEPT !.next = x, !.size = z]
  OBVIOUS
<1>10. /\ u \in Queues /\ u.head = h /\ u.tail = t /\ u.size = z
       /\ u.next = x
  BY <1>8, <1>9 DEF Queues
<1>11. Dequeued(q) = u
  BY <1>6, <1>7, <1>9, Zenon
<1> QED
  BY <1>2, <1>3, <1>4, <1>5, <1>10, <1>11

LEMMA EnqueuedFields ==
  ASSUME NEW q \in Queues, NEW n \in Tcbs, q.tail \in Tcbs \/ q.size = 0
  PROVE  /\ Enqueued(q, n) \in Queues
         /\ Enqueued(q, n).head = IF q.size = 0 THEN n ELSE q.head
         /\ Enqueued(q, n).tail = n
         /\ Enqueued(q, n).size = q.size + 1
         /\ Enqueued(q, n).next =
              IF q.size = 0 THEN [q.next EXCEPT ![n] = NoTcb]
              ELSE [[q.next EXCEPT ![q.tail] = n] EXCEPT ![n] = NoTcb]
<1>1. /\ q.head \in Links /\ q.tail \in Links /\ q.size \in Nat
      /\ q.next \in [Tcbs -> Links] /\ NoTcb \in Links /\ n \in Links
  BY DEF Queues, Links
<1>2. CASE q.size = 0
  <2>1. Enqueued(q, n) = [head |-> n, tail |-> n, size |-> 1,
                          next |-> [q.next EXCEPT ![n] = NoTcb]]
    BY <1>2 DEF Enqueued, Queues
  <2>2. [q.next EXCEPT ![n] = NoTcb] \in [Tcbs -> Links]
    BY <1>1
  <2> QED
    BY <1>1, <1>2, <2>1, <2>2 DEF Queues
<1>3. CASE q.size # 0
  <2>1. Enqueued(q, n) =
          [head |-> q.head, tail |-> n, size |-> q.size + 1,
           next |-> [[q.next EXCEPT ![q.tail] = n] EXCEPT ![n] = NoTcb]]
    BY <1>3 DEF Enqueued, Queues
  <2>2. [[q.next EXCEPT ![q.tail] = n] EXCEPT ![n] = NoTcb]
          \in [Tcbs -> Links]
    BY <1>1
  <2>3. q.size + 1 \in Nat
    BY <1>1
  <2> QED
    BY <1>1, <1>3, <2>1, <2>2, <2>3 DEF Queues
<1> QED
  BY <1>2, <1>3

LEMMA DequeuedComplete ==
  ASSUME NEW q \in Queues, NEW s \in Seq(Tcbs), s # <<>>, Distinct(s),
         Len(s) = q.size, Complete(q, s)
  PROVE  Dequeued(q) \in Queues /\ Complete(Dequeued(q), Tail(s))
<1>1. q.head = s[1] /\ s[1] \in Tcbs /\ q.size > 0 /\ q.size \in Nat
  BY LenProperties, EmptySeq, TailList DEF Complete
<1>2. PICK r : r = Dequeued(q)
  OBVIOUS
<1>3. /\ r \in Queues
      /\ r.head = IF q.size = 1 THEN NoTcb ELSE q.next[q.head]
      /\ r.tail = IF q.size = 1 THEN NoTcb ELSE q.tail
      /\ r.next = [q.next EXCEPT ![q.head] = NoTcb]
  BY <1>1, <1>2, DequeuedFields
<1>4. q.next \in [Tcbs -> Links]
  BY DEF Queues
<1>5. /\ r.next[s[1]] = NoTcb
      /\ \A m \in Tcbs : m # s[1] => r.next[m] = q.next[m]
  BY <1>1, <1>3, <1>4
<1>6. Complete(r, Tail(s))
  BY <1>3, <1>5, CompleteTail
<1> QED
  BY <1>2, <1>3, <1>6

LEMMA EnqueuedComplete ==
  ASSUME NEW q \in Queues, NEW s \in Seq(Tcbs), Distinct(s),
         Len(s) = q.size, Complete(q, s), NEW n \in Tcbs, ~In(n, s)
  PROVE  Enqueued(q, n) \in Queues /\ Complete(Enqueued(q, n), Append(s, n))
<1>1. /\ q.size \in Nat /\ q.next \in [Tcbs -> Links]
      /\ q.size = 0 <=> s = <<>>
  BY EmptySeq DEF Queues
<1>2. s # <<>> => q.tail = s[Len(s)] /\ s[Len(s)] \in Tcbs
  BY NotInMeansNotListed DEF Complete
<1>3. PICK r : r = Enqueued(q, n)
  OBVIOUS
<1>4. /\ r \in Queues /\ r.tail = n
      /\ r.head = IF q.size = 0 THEN n ELSE q.head
      /\ r.next = IF q.size = 0 THEN [q.next EXCEPT ![n] = NoTcb]
                  ELSE [[q.next EXCEPT ![q.tail] = n] EXCEPT ![n] = NoTcb]
  BY <1>1, <1>2, <1>3, EnqueuedFields
<1>5. r.head = IF s = <<>> THEN n ELSE s[1]
  BY <1>1, <1>4 DEF Complete
<1>6. ASSUME s # <<>> PROVE r.next[s[Len(s)]] = n
  <2>1. s[Len(s)] # n
    <3>1. Len(s) \in 1 .. Len(s)
      BY <1>1, <1>6, LenProperties
    <3> QED
      BY <3>1 DEF In
  <2> QED
    BY <2>1, <1>1, <1>2, <1>4, <1>6
<1>7. ASSUME NEW m \in Tcbs, ~In(m, s) PROVE r.next[m] = NoTcb
  <2>1. q.next[m] = NoTcb
    BY <1>7, NotInMeansNotListed
  <2>2. s # <<>> => m # s[Len(s)]
    <3> HAVE s # <<>>
    <3>1. Len(s) \in 1 .. Len(s)
      BY <1>1, LenProperties
    <3> QED
      BY <3>1, <1>7 DEF In
  <2> QED
    BY <2>1, <2>2, <1>1, <1>2, <1>4
<1>8. ASSUME NEW i \in 1 .. Len(s) - 1 PROVE r.next[s[i]] = s[i + 1]
  <2>1. /\ i \in 1 .. Len(s) /\ Len(s) \in 1 .. Len(s) /\ i # Len(s)
        /\ s # <<>>
    BY <1>1, EmptySeq
  <2>2. s[i] \in Tcbs /\ s[i] # n /\ s[i] # s[Len(s)]
    BY <2>1, ElementOfSeq DEF In, Distinct
  <2>3. q.next[s[i]] = s[i + 1]
    BY DEF Complete
  <2> QED
    BY <2>1, <2>2, <2>3, <1>1, <1>2, <1>4
<1>9. Complete(r, Append(s, n))
  BY <1>4, <1>5, <1>6, <1>7, <1>8, CompleteAppended
<1> QED
  BY <1>3, <1>4, <1>9

(* The handler rotates the queue; blocked, it only finds it at rest.       *)
LEMMA SignalHandlerStep ==
  ASSUME NEW s, Listed(s), Masked = TRUE, SignalHandler
  PROVE  /\ s # <<>> /\ Listed(Append(Tail(s), Head(s)))'
         /\ returned' = returned
<1>1. /\ queue \in Queues /\ s \in Seq(Tcbs) /\ Len(s) = queue.size
      /\ Distinct(s) /\ tmp \in Links /\ tcb_node \in Links
      /\ AtPoint(queue, pc, tcb_node, tmp, s) /\ queue.size \in Nat
  BY DEF Listed, StandsFor, Queues
<1>2. /\ pc = "idle" /\ queue.size > 0
      /\ queue' = Enqueued(Dequeued(queue), queue.head)
      /\ UNCHANGED <<pc, tcb_node, tmp, returned>>
  BY DEF SignalHandler
<1>3. s # <<>> /\ Complete(queue, s)
  BY <1>1, <1>2 DEF AtPoint, UnchangedPoints
<1>4. PICK h \in Tcbs : h = s[1] /\ h = Head(s) /\ h = queue.head
  BY <1>1, <1>3, TailList DEF Complete
<1>5. PICK a \in Seq(Tcbs) : /\ a = Tail(s) /\ Len(a) = Len(s) - 1
                             /\ Distinct(a) /\ ~In(s[1], a)
  BY <1>1, <1>3, TailList
<1>6. PICK b \in Seq(Tcbs) : /\ b = Append(a, h) /\ Len(b) = Len(a) + 1
                             /\ Distinct(b)
  BY <1>4, <1>5, AppendedList
<1>7. PICK d : d = Dequeued(queue)
  OBVIOUS
<1>8. d \in Queues /\ Complete(d, a) /\ d.size = queue.size - 1
  <2>1. d \in Queues /\ Complete(d, a)
    BY <1>1, <1>3, <1>5, <1>7, DequeuedComplete
  <2>2. d.size = queue.size - 1
    BY <1>1, <1>2, <1>4, <1>7, DequeuedFields
  <2> QED
    BY <2>1, <2>2
<1>9. PICK e : e = Enqueued(d, h) /\ queue' = e
  BY <1>2, <1>4, <1>7
<1>10. e \in Queues /\ Complete(e, b)
  <2>1. Len(a) = d.size /\ ~In(h, a)
    BY <1>1, <1>4, <1>5, <1>8
  <2>2. e \in Queues /\ Complete(e, Append(a, h))
    BY <1>5, <1>8, <1>9, <2>1, EnqueuedComplete
  <2> QED
    BY <1>6, <2>2
<1>11. e.size = queue.size
  <2>1. d.tail \in Tcbs \/ d.size = 0
    <3>1. a # <<>> => d.tail = a[Len(a)] /\ a[Len(a)] \in Tcbs
      BY <1>5, <1>8, NotInMeansNotListed DEF Complete
    <3>2. a = <<>> => d.size = 0
      BY <1>1, <1>5, <1>8
    <3> QED
      BY <3>1, <3>2
  <2>2. e.size = d.size + 1
    BY <1>8, <1>9, <2>1, EnqueuedFields
  <2> QED
    BY <1>1, <1>8, <2>2
<1>12. Len(b) = e.size
  BY <1>1, <1>5, <1>6, <1>11
<1>13. AtPoint(e, "idle", tcb_node, tmp, b)
  BY <1>10 DEF AtPoint, UnchangedPoints, EnqueuePoints, EnqueueOnlyPoints
<1>14. StandsFor(queue', pc', tcb_node', tmp', b)
  BY <1>1, <1>2, <1>6, <1>9, <1>10, <1>12, <1>13 DEF StandsFor, Points
<1>15. Append(Tail(s), Head(s)) = b
  BY <1>4, <1>5, <1>6
<1>16. Listed(b)'
  BY <1>14 DEF Listed
<1>17. ASSUME NEW c, c = b PROVE Listed(c)'
  BY <1>16, <1>17
<1> QED
  BY <1>2, <1>3, <1>15, <1>17

-----------------------------------------------------------------------------
(* The invariant: at every assignment the structure stands for Contents.   *)
Represented == Listed(Contents) /\ returned \in Links

LEMMA ListedAreContents ==
  ASSUME NEW s, Listed(s)
  PROVE  Contents = s
BY ContentsAreContentsOf, ContentsAreList DEF Listed

LEMMA NextListedAreContents ==
  ASSUME NEW s, Listed(s)'
  PROVE  Contents' = s /\ Listed(Contents)'
<1>1. StandsFor(queue', pc', tcb_node', tmp', s)
  BY DEF Listed
<1>2. Contents' = ContentsOf(queue', pc', tmp')
  BY DEF Contents, ContentsOf
<1>3. Contents' = s
  BY <1>1, <1>2, ContentsAreList
<1> QED
  BY <1>1, <1>3 DEF Listed

LEMMA InitRepresents ==
  ASSUME Init
  PROVE  Represented /\ Contents = <<>>
<1>1. PICK q : q = queue
  OBVIOUS
<1>2. q = [head |-> NoTcb, tail |-> NoTcb, size |-> 0,
           next |-> [n \in Tcbs |-> NoTcb]]
  BY <1>1 DEF Init, queue_init
<1>3. /\ q \in Queues /\ q.head = NoTcb /\ q.tail = NoTcb /\ q.size = 0
      /\ \A n \in Tcbs : q.next[n] = NoTcb
  BY <1>2 DEF Queues, Links
<1>4. PICK s \in Seq(Tcbs) : s = <<>> /\ Len(s) = 0
  BY EmptySeq
<1>5. Complete(q, s)
  BY <1>3, <1>4 DEF Complete
<1>6. /\ pc = "idle" /\ tcb_node = NoTcb /\ tmp = NoTcb /\ returned = NoTcb
      /\ NoTcb \in Links
  BY DEF Init, Links
<1>7. AtPoint(q, "idle", tcb_node, tmp, s)
  BY <1>5 DEF AtPoint, UnchangedPoints, EnqueuePoints, EnqueueOnlyPoints
<1>8. Distinct(s)
  BY <1>4 DEF Distinct
<1>9. Listed(s)
  BY <1>1, <1>3, <1>4, <1>6, <1>7, <1>8 DEF Listed, StandsFor, Points
<1>10. Contents = s
  BY <1>9, ListedAreContents
<1> QED
  BY <1>4, <1>6, <1>9, <1>10 DEF Represented

(* What one assignment does to the queue that the structure stands for.    *)
FifoStep(s, r) ==
  \/ r = s /\ returned' = returned
  \/ s = <<>> /\ r = s /\ returned' = NoTcb
  \/ s # <<>> /\ r = Tail(s) /\ returned' = Head(s) /\ returned' \in Tcbs
  \/ s # <<>> /\ r = Append(Tail(s), Head(s)) /\ returned' = returned
  \/ \E n \in Tcbs : ~In(n, s) /\ r = Append(s, n) /\ returned' = returned

LEMMA StepIsFifoStep ==
  ASSUME Masked = TRUE, NEW s, Listed(s), Contents = s, [Next]_vars
  PROVE  \E r : Listed(r)' /\ FifoStep(s, r)
<1>1. ASSUME NEW n \in Tcbs, CallEnqueue(n)
      PROVE  \E r : Listed(r)' /\ FifoStep(s, r)
  BY <1>1, CallEnqueueStep DEF FifoStep
<1>2. CASE EnqueueOnly
  BY <1>2, EnqueueOnlyStep DEF FifoStep
<1>3. CASE EnqueueLast
  BY <1>3, EnqueueLastStep DEF FifoStep
<1>4. CASE EnqueueCounts
  <2>1. PICK n \in Tcbs : ~In(n, s) /\ Listed(Append(s, n))'
                          /\ returned' = returned
    BY <1>4, EnqueueCountsStep
  <2>2. FifoStep(s, Append(s, n))
    BY <2>1 DEF FifoStep
  <2> QED
    BY <2>1, <2>2
<1>5. CASE CallDequeue
  BY <1>5, CallDequeueStep DEF FifoStep
<1>6. CASE DequeueOnly
  BY <1>6, DequeueOnlyStep DEF FifoStep
<1>7. CASE DequeueFirst
  BY <1>7, DequeueFirstStep DEF FifoStep
<1>8. CASE DequeueReturns
  <2>1. CASE Listed(s)' /\ returned' = returned
    BY <2>1 DEF FifoStep
  <2>2. CASE s # <<>> /\ Listed(Tail(s))' /\ returned' = Head(s)
             /\ returned' \in Tcbs
    <3>1. FifoStep(s, Tail(s))
      BY <2>2 DEF FifoStep
    <3> QED
      BY <2>2, <3>1
  <2> QED
    BY <1>8, <2>1, <2>2, DequeueReturnsStep
<1>9. CASE SignalHandler
  <2>1. s # <<>> /\ Listed(Append(Tail(s), Head(s)))' /\ returned' = returned
    BY <1>9, SignalHandlerStep
  <2>2. FifoStep(s, Append(Tail(s), Head(s)))
    BY <2>1 DEF FifoStep
  <2> QED
    BY <2>1, <2>2
<1>10. CASE UNCHANGED vars
  <2>1. Listed(s)' /\ returned' = returned
    BY <1>10 DEF vars, Listed
  <2> QED
    BY <2>1 DEF FifoStep
<1> QED
  BY <1>1, <1>2, <1>3, <1>4, <1>5, <1>6, <1>7, <1>8, <1>9, <1>10 DEF Next

LEMMA NextRepresents ==
  ASSUME Masked = TRUE, Represented, [Next]_vars
  PROVE  Represented' /\ FifoStep(Contents, Contents')
<1>1. PICK s : s = Contents /\ Listed(s) /\ returned \in Links
  BY DEF Represented
<1>2. PICK r : Listed(r)' /\ FifoStep(s, r)
  BY <1>1, StepIsFifoStep
<1>3. Contents' = r /\ Listed(Contents)'
  BY <1>2, NextListedAreContents
<1>4. returned' \in Links
  <2>1. returned' = returned \/ returned' = NoTcb \/ returned' \in Tcbs
    BY <1>2 DEF FifoStep
  <2> QED
    BY <2>1, <1>1 DEF Links
<1>5. FifoStep(Contents, Contents')
  BY <1>1, <1>2, <1>3
<1> QED
  BY <1>3, <1>4, <1>5 DEF Represented

LEMMA RepresentedHolds ==
  ASSUME Masked = TRUE
  PROVE  Spec => []Represented
<1>1. Init => Represented
  BY InitRepresents
<1>2. Represented /\ [Next]_vars => Represented'
  BY NextRepresents
<1> QED
  BY <1>1, <1>2, PTL DEF Spec

(* A list of different tcbs is no longer than they are many.               *)
LEMMA NoMoreThanTheTcbs ==
  ASSUME NEW s \in Seq(Tcbs), Distinct(s)
  PROVE  Len(s) \in 0 .. Cardinality(Tcbs)
<1>1. Len(s) \in Nat /\ s \in [1 .. Len(s) -> Tcbs]
  BY LenProperties
<1>2. \A i, j \in 1 .. Len(s) : s[i] = s[j] => i = j
  BY DEF Distinct
<1>3. s \in Injection(1 .. Len(s), Tcbs)
  BY <1>1, <1>2, Fun_IsInj
<1>4. Cardinality(1 .. Len(s)) <= Cardinality(Tcbs)
  BY <1>3, TcbQueueAssumption, FS_Injection
<1>5. Cardinality(1 .. Len(s)) = Len(s)
  BY <1>1, FS_Interval
<1>6. Cardinality(Tcbs) \in Nat
  BY TcbQueueAssumption, FS_CardinalityType
<1> QED
  BY <1>1, <1>4, <1>5, <1>6

LEMMA RepresentedTypes == Represented => TypeOK
<1> SUFFICES ASSUME Represented PROVE TypeOK
  OBVIOUS
<1>1. PICK s : s = Contents /\ StandsFor(queue, pc, tcb_node, tmp, s)
  BY DEF Represented, Listed
<1>2. /\ queue \in Queues /\ pc \in Points /\ tcb_node \in Links
      /\ tmp \in Links /\ returned \in Links
  BY <1>1 DEF StandsFor, Represented
<1>3. queue.size \in 0 .. Cardinality(Tcbs)
  BY <1>1, NoMoreThanTheTcbs DEF StandsFor
<1>4. queue \in [head : Links, tail : Links, size : 0 .. Cardinality(Tcbs),
                 next : [Tcbs -> Links]]
  BY <1>2, <1>3 DEF Queues
<1> QED
  BY <1>2, <1>4 DEF TypeOK

LEMMA RepresentedIsWellLinked == Represented => WellLinked
<1> SUFFICES ASSUME Represented, pc = "idle"
             PROVE  /\ queue.size >= 0
                    /\ \A i, j \in 1 .. Len(Contents) :
                         i # j => Contents[i] # Contents[j]
                    /\ NoTcb \notin Members
                    /\ IF queue.size = 0
                         THEN queue.head = NoTcb /\ queue.tail = NoTcb
                         ELSE /\ queue.tail = Contents[queue.size]
                              /\ queue.next[queue.tail] = NoTcb
                    /\ \A n \in Tcbs \ Members : queue.next[n] = NoTcb
  BY DEF WellLinked
<1>1. PICK s : s = Contents /\ StandsFor(queue, pc, tcb_node, tmp, s)
  BY DEF Represented, Listed
<1>2. /\ queue.size \in Nat /\ s \in Seq(Tcbs) /\ Len(s) = queue.size
      /\ Distinct(s) /\ Complete(queue, s)
  BY <1>1 DEF StandsFor, Queues, AtPoint, UnchangedPoints
<1>3. \A m : m \in Members <=> In(m, s)
  BY <1>1 DEF Members, In
<1>4. NoTcb \notin Members
  <2>1. \A i \in 1 .. Len(s) : s[i] \in Tcbs
    BY <1>2, ElementOfSeq
  <2> QED
    BY <2>1, <1>3, TcbQueueAssumption DEF In
<1>5. IF queue.size = 0
        THEN queue.head = NoTcb /\ queue.tail = NoTcb
        ELSE queue.tail = s[queue.size] /\ queue.next[queue.tail] = NoTcb
  <2>1. s = <<>> <=> queue.size = 0
    BY <1>2, EmptySeq
  <2>2. s # <<>> => queue.next[s[Len(s)]] = NoTcb
    BY <1>2, NotInMeansNotListed
  <2> QED
    BY <2>1, <2>2, <1>2 DEF Complete
<1>6. \A n \in Tcbs \ Members : queue.next[n] = NoTcb
  BY <1>2, <1>3, NotInMeansNotListed
<1>7. \A i, j \in 1 .. Len(s) : i # j => s[i] # s[j]
  BY <1>2 DEF Distinct
<1> QED
  BY <1>1, <1>2, <1>4, <1>5, <1>6, <1>7

LEMMA FifoStepsAreFifo ==
  ASSUME FifoStep(Contents, Contents')
  PROVE  [Fifo!Next]_<<Contents, returned>>
<1>1. CASE Contents' = Contents /\ returned' = returned
  BY <1>1
<1>2. CASE Contents = <<>> /\ Contents' = Contents /\ returned' = NoTcb
  BY <1>2 DEF Fifo!Next, Fifo!Dequeue
<1>3. CASE Contents # <<>> /\ Contents' = Tail(Contents)
           /\ returned' = Head(Contents)
  BY <1>3 DEF Fifo!Next, Fifo!Dequeue
<1>4. CASE Contents # <<>> /\ returned' = returned
           /\ Contents' = Append(Tail(Contents), Head(Contents))
  BY <1>4 DEF Fifo!Next, Fifo!Rotate
<1>5. ASSUME NEW n \in Tcbs, ~In(n, Contents),
             Contents' = Append(Contents, n), returned' = returned
      PROVE  Fifo!Next
  BY <1>5 DEF Fifo!Next, Fifo!Enqueue, Fifo!InQueue, In
<1> QED
  BY <1>1, <1>2, <1>3, <1>4, <1>5 DEF FifoStep

-----------------------------------------------------------------------------
(* my_pthread.c:279-318.  With SIGALRM blocked, head, tail, the links, the *)
(* locals and what dequeue returned are tcbs or NULL, and size is at most  *)
(* the number of tcbs, at every assignment.                                *)
THEOREM QueueTypeCorrect ==
  ASSUME Masked = TRUE
  PROVE  Spec => []TypeOK
BY RepresentedHolds, RepresentedTypes, PTL

(* my_pthread.c:279-318.  With SIGALRM blocked, between two calls size     *)
(* different tcbs hang from head, the last is tail and links to nothing,   *)
(* and no tcb outside the queue links into it.                             *)
THEOREM WellLinkedHolds ==
  ASSUME Masked = TRUE
  PROVE  Spec => []WellLinked
BY RepresentedHolds, RepresentedIsWellLinked, PTL

(* my_pthread.c:279-318.  With SIGALRM blocked, the assignments of enqueue *)
(* and dequeue implement a first-in first-out queue: each call takes       *)
(* effect at the one assignment that counts size.                          *)
THEOREM RefinesHolds ==
  ASSUME Masked = TRUE
  PROVE  Spec => Refines
<1>1. Init => Fifo!Init
  BY InitRepresents DEF Fifo!Init, Init
<1>2. Represented /\ [Next]_vars => [Fifo!Next]_<<Contents, returned>>
  BY NextRepresents, FifoStepsAreFifo
<1> QED
  BY <1>1, <1>2, RepresentedHolds, PTL DEF Spec, Refines, Fifo!Spec
=============================================================================
