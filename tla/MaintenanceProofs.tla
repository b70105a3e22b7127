-------------------------- MODULE MaintenanceProofs --------------------------
(***************************************************************************)
(* scheduler_maintenance and delete_tcb of my_pthread.c, for any number of *)
(* tcbs, levels, start times and calls.                                    *)
(***************************************************************************)
EXTENDS Maintenance, TLAPS, SequenceTheorems, FiniteSetTheorems,
        FunctionTheorems, WellFoundedInduction

LEMMA LeastExists ==
  ASSUME NEW S \in SUBSET Nat, S # {}
  PROVE  \E x \in S : \A y \in S : x <= y
<1> DEFINE R == {ss \in Nat \X Nat : ss[1] < ss[2]}
<1>1. IsWellFoundedOn(R, Nat)
  BY NatLessThanWellFounded DEF OpToRel
<1>2. PICK x \in S : \A y \in S : ~(<<y, x>> \in R)
  <2> HIDE DEF R
  <2> QED
    BY <1>1, WFMin
<1>3. ASSUME NEW y \in S PROVE x <= y
  <2>1. <<y, x>> \in Nat \X Nat /\ <<y, x>>[1] = y /\ <<y, x>>[2] = x
    OBVIOUS
  <2>2. ~(y < x)
    BY <1>2, <2>1
  <2> QED
    BY <2>2
<1> QED
  BY <1>3

-----------------------------------------------------------------------------
(* Recursive functions: that a definition f[s \in D] == ... is of a        *)
(* function that satisfies it must be known before anything else of it.    *)

(* A loop: f[s] is the value of the first state of B that H leads to from  *)
(* s.  The function exists whether or not the loop ends.                   *)
Loops(f, D, B, V, H) == f = [s \in D |-> IF s \in B THEN V[s] ELSE f[H[s]]]

LEMMA LoopExists ==
  ASSUME NEW D, NEW B, NEW V, NEW H, \A s \in D : s \notin B => H[s] \in D
  PROVE  \E f : Loops(f, D, B, V, H)
<1> DEFINE Closed(X) == \A x \in X : x \notin B => H[x] \in X
           End(s) == {e \in D : /\ e \in B
                                /\ \A X \in SUBSET D :
                                     s \in X /\ Closed(X) => e \in X}
           g == [s \in D |-> V[CHOOSE e : e \in End(s)]]
<1>1. ASSUME NEW s \in D, s \in B
      PROVE  g[s] = V[s]
  <2>1. {s} \in SUBSET D /\ Closed({s})
    BY <1>1
  <2>2. s \in End(s)
    BY <1>1
  <2>3. \A e \in End(s) : e = s
    BY <2>1
  <2>4. (CHOOSE e : e \in End(s)) = s
    <3> HIDE DEF End
    <3> QED
      BY <2>2, <2>3
  <2> QED
    BY <2>4
<1>2. ASSUME NEW s \in D, s \notin B
      PROVE  g[s] = g[H[s]]
  <2>1. H[s] \in D
    BY <1>2
  <2>2. ASSUME NEW e \in End(s) PROVE e \in End(H[s])
    <3> SUFFICES ASSUME NEW X \in SUBSET D, H[s] \in X, Closed(X)
                 PROVE  e \in X
      OBVIOUS
    <3>1. X \cup {s} \in SUBSET D /\ Closed(X \cup {s})
      OBVIOUS
    <3>2. e \in X \cup {s} /\ e # s
      BY <3>1, <1>2
    <3> QED
      BY <3>2
  <2>3. ASSUME NEW e \in End(H[s]) PROVE e \in End(s)
    <3> SUFFICES ASSUME NEW X \in SUBSET D, s \in X, Closed(X)
                 PROVE  e \in X
      OBVIOUS
    <3>1. H[s] \in X
      BY <1>2
    <3> QED
      BY <3>1
  <2>4. End(s) = End(H[s])
    <3> HIDE DEF End
    <3> QED
      BY <2>2, <2>3
  <2>5. g[s] = V[CHOOSE e : e \in End(s)]
    OBVIOUS
  <2>6. g[H[s]] = V[CHOOSE e : e \in End(H[s])]
    BY <2>1
  <2> HIDE DEF End, g
  <2> QED
    BY <2>4, <2>5, <2>6
<1>3. \A s \in D : g[s] = IF s \in B THEN V[s] ELSE g[H[s]]
  <2> HIDE DEF g
  <2> QED
    BY <1>1, <1>2
<1>4. g = [s \in D |-> g[s]]
  OBVIOUS
<1>5. Loops(g, D, B, V, H)
  <2> HIDE DEF g
  <2> QED
    BY <1>3, <1>4 DEF Loops
<1> QED
  <2> HIDE DEF g
  <2> QED
    BY <1>5

-----------------------------------------------------------------------------
(* The walk of a list.  It ends because the links have a rank that goes    *)
(* down along them.                                                        *)

Acyclic(next) == \E K \in Nat : \E rank \in [Pointers -> 0 .. K] :
                   \A m \in Tcbs : rank[next[m]] < rank[m]

WalkStep(f, next, n) == IF n = NULL THEN <<>> ELSE <<n>> \o f[next[n]]

LEMMA PointersFacts ==
  /\ NULL \in Pointers /\ NULL \notin Tcbs
  /\ \A n \in Pointers : n # NULL => n \in Tcbs
  /\ \A n \in Tcbs : n \in Pointers
BY MaintenanceAssumption DEF Pointers, Tcbs, NULL

LEMMA WalkExists ==
  ASSUME NEW next \in [Tcbs -> Pointers], Acyclic(next)
  PROVE  \E f : f = [n \in Pointers |-> WalkStep(f, next, n)]
<1>1. PICK K \in Nat : \E rank \in [Pointers -> 0 .. K] :
                         \A m \in Tcbs : rank[next[m]] < rank[m]
  BY DEF Acyclic
<1>2. PICK rank \in [Pointers -> 0 .. K] :
             \A m \in Tcbs : rank[next[m]] < rank[m]
  BY <1>1
<1> DEFINE Right(f, k) == /\ f \in [Pointers -> Seq(Tcbs)]
                          /\ \A n \in Pointers :
                               rank[n] < k => f[n] = WalkStep(f, next, n)
           Wrong == {k \in Nat : ~\E f : Right(f, k)}
<1>3. ASSUME NEW k \in Nat, NEW f, Right(f, k)
      PROVE  \E g : Right(g, k + 1)
  <2> DEFINE g == [n \in Pointers |-> WalkStep(f, next, n)]
  <2>1. ASSUME NEW n \in Pointers PROVE WalkStep(f, next, n) \in Seq(Tcbs)
    <3>1. CASE n = NULL
      BY <3>1 DEF WalkStep
    <3>2. CASE n # NULL
      <4>1. n \in Tcbs
        BY <3>2, PointersFacts
      <4>2. f[next[n]] \in Seq(Tcbs)
        BY <4>1, <1>3
      <4>3. <<n>> \in Seq(Tcbs)
        BY <4>1
      <4>4. <<n>> \o f[next[n]] \in Seq(Tcbs)
        BY <4>2, <4>3, ConcatProperties
      <4> QED
        BY <3>2, <4>4 DEF WalkStep
    <3> QED
      BY <3>1, <3>2
  <2>2. g \in [Pointers -> Seq(Tcbs)]
    BY <2>1
  <2>3. ASSUME NEW n \in Pointers, rank[n] < k + 1
        PROVE  g[n] = WalkStep(g, next, n)
    <3>1. g[n] = WalkStep(f, next, n)
      OBVIOUS
    <3>2. CASE n = NULL
      BY <3>1, <3>2 DEF WalkStep
    <3>3. CASE n # NULL
      <4>1. n \in Tcbs /\ next[n] \in Pointers
        BY <3>3, PointersFacts
      <4>2. rank[next[n]] < rank[n] /\ rank[n] \in 0 .. K /\ rank[next[n]] \in 0 .. K
        BY <4>1, <1>2
      <4>3. rank[next[n]] < k
        BY <4>2, <2>3
      <4>4. f[next[n]] = WalkStep(f, next, next[n])
        BY <4>1, <4>3, <1>3
      <4>5. g[next[n]] = f[next[n]]
        BY <4>1, <4>4
      <4> HIDE DEF g
      <4> QED
        BY <3>1, <3>3, <4>5 DEF WalkStep
    <3> QED
      BY <3>2, <3>3
  <2> HIDE DEF g
  <2> QED
    BY <2>2, <2>3
<1>4. \E f : Right(f, 0)
  <2>1. [n \in Pointers |-> <<>>] \in [Pointers -> Seq(Tcbs)]
    OBVIOUS
  <2>2. \A n \in Pointers : ~(rank[n] < 0)
    BY <1>2
  <2>3. Right([n \in Pointers |-> <<>>], 0)
    BY <2>1, <2>2
  <2> HIDE DEF Right
  <2> QED
    BY <2>3
<1>5. Wrong = {}
  <2> HIDE DEF Right
  <2> SUFFICES ASSUME Wrong # {} PROVE FALSE
    OBVIOUS
  <2>1. Wrong \in SUBSET Nat
    OBVIOUS
  <2>2. PICK x \in Wrong : \A y \in Wrong : x <= y
    <3> HIDE DEF Wrong
    <3> QED
      BY <2>1, LeastExists
  <2>3. x \in Nat /\ x # 0
    BY <2>2, <1>4
  <2>4. x - 1 \in Nat /\ x - 1 + 1 = x /\ ~(x <= x - 1)
    BY <2>3
  <2>5. x - 1 \notin Wrong
    BY <2>2, <2>4
  <2>6. PICK f : Right(f, x - 1)
    BY <2>4, <2>5
  <2>7. \E g : Right(g, x - 1 + 1)
    BY <2>4, <2>6, <1>3
  <2> QED
    BY <2>2, <2>4, <2>7
<1>6. K + 1 \in Nat
  BY <1>1
<1>7. PICK f : Right(f, K + 1)
  <2> HIDE DEF Right
  <2> QED
    BY <1>5, <1>6
<1>8. \A n \in Pointers : rank[n] < K + 1
  BY <1>1, <1>2
<1>9. f = [n \in Pointers |-> WalkStep(f, next, n)]
  BY <1>7, <1>8
<1> QED
  BY <1>9

(* The walk of level l is s, if s hangs from its head and ends in NULL.    *)
Chained(q, l, s) ==
  /\ q.head[l] = IF s = <<>> THEN NULL ELSE s[1]
  /\ \A i \in 1 .. Len(s) :
       q.next_tcb[s[i]] = IF i = Len(s) THEN NULL ELSE s[i + 1]

LEMMA WalkIs ==
  ASSUME NEW q, NEW l, q.next_tcb \in [Tcbs -> Pointers],
         Acyclic(q.next_tcb), NEW s \in Seq(Tcbs), Chained(q, l, s)
  PROVE  Walk(q, l) = s
<1> DEFINE next == q.next_tcb
           W == CHOOSE f : f = [n \in Pointers |-> WalkStep(f, next, n)]
<1>1. W = [n \in Pointers |-> WalkStep(W, next, n)]
  <2>1. \E f : f = [n \in Pointers |-> WalkStep(f, next, n)]
    BY WalkExists
  <2> QED
    BY <2>1
<1>2. Walk(q, l) = W[q.head[l]]
  BY Zenon DEF Walk, WalkStep
<1>3. \A n \in Pointers : W[n] = WalkStep(W, next, n)
  <2> HIDE DEF W
  <2> QED
    BY <1>1
<1> HIDE DEF W
<1>4. W[NULL] = <<>>
  BY <1>3, PointersFacts DEF WalkStep
<1>5. Len(s) \in Nat /\ \A i \in 1 .. Len(s) : s[i] \in Tcbs
  BY LenProperties, ElementOfSeq
<1> DEFINE n == Len(s)
           Wrong == {k \in 0 .. n : k > 0 /\ W[s[n + 1 - k]] # SubSeq(s, n + 1 - k, n)}
<1> HIDE DEF n
<1>6. Wrong = {}
  <2> SUFFICES ASSUME Wrong # {} PROVE FALSE
    OBVIOUS
  <2>1. Wrong \in SUBSET Nat
    BY <1>5 DEF n
  <2>2. PICK x \in Wrong : \A y \in Wrong : x <= y
    <3> HIDE DEF Wrong
    <3> QED
      BY <2>1, LeastExists
  <2>3. PICK i \in Int : i = n + 1 - x
    <3>1. n \in Nat /\ x \in 0 .. n
      BY <1>5, <2>2 DEF n
    <3>2. n + 1 - x \in Int
      BY <3>1
    <3> QED
      BY <3>2
  <2>4. /\ n \in Nat /\ i \in 1 .. n /\ n \in i .. n /\ x \in 1 .. n
    BY <1>5, <2>2, <2>3 DEF n
  <2>5. W[s[i]] # SubSeq(s, i, n)
    BY <2>2, <2>3
  <2>6. SubSeq(s, i, n) = <<s[i]>> \o SubSeq(s, i + 1, n)
    BY <2>4, SubSeqRecursiveFirst DEF n
  <2>7. W[s[i]] = <<s[i]>> \o W[next[s[i]]]
    <3>1. s[i] \in Tcbs
      BY <1>5, <2>4 DEF n
    <3> QED
      BY <3>1, <1>3, PointersFacts DEF WalkStep
  <2>8. next[s[i]] = IF i = n THEN NULL ELSE s[i + 1]
    BY <2>4 DEF Chained, n
  <2>9. CASE i = n
    <3>1. SubSeq(s, i + 1, n) = <<>>
      BY <2>4, <2>9, SubSeqEmpty
    <3> QED
      BY <3>1, <2>5, <2>6, <2>7, <2>8, <2>9, <1>4
  <2>10. CASE i # n
    <3>1. x - 1 \in 0 .. n /\ x - 1 > 0 /\ n + 1 - (x - 1) = i + 1 /\ ~(x <= x - 1)
      BY <2>3, <2>4, <2>10
    <3>2. x - 1 \notin Wrong
      BY <2>2, <3>1
    <3>3. W[s[i + 1]] = SubSeq(s, i + 1, n)
      BY <3>1, <3>2
    <3> QED
      BY <3>3, <2>5, <2>6, <2>7, <2>8, <2>10
  <2> QED
    BY <2>9, <2>10
<1>7. CASE s = <<>>
  BY <1>2, <1>4, <1>7 DEF Chained
<1>8. CASE s # <<>>
  <2>1. n \in 0 .. n /\ n > 0 /\ n + 1 - n = 1
    BY <1>5, <1>8, EmptySeq DEF n
  <2>2. W[s[1]] = SubSeq(s, 1, n)
    BY <2>1, <1>6
  <2>3. SubSeq(s, 1, n) = s
    BY SubSeqFull DEF n
  <2> QED
    BY <1>2, <1>8, <2>2, <2>3 DEF Chained
<1> QED
  BY <1>7, <1>8

-----------------------------------------------------------------------------
(* All tcbs are on level 0: the array has the tcbs of that level.          *)

FlattenStep(f, seqs, i) == IF i = 1 THEN seqs[i] ELSE f[i - 1] \o seqs[i]

LEMMA FlattenFirst ==
  ASSUME NEW s \in Seq(Tcbs), NEW seqs, Len(seqs) \in Nat \ {0},
         seqs[1] = s, \A i \in 2 .. Len(seqs) : seqs[i] = <<>>
  PROVE  FlattenSeq(seqs) = s
<1> DEFINE N == Len(seqs)
           v == [i \in 1 .. N |-> s]
           F == CHOOSE f : f = [i \in 1 .. N |-> FlattenStep(f, seqs, i)]
<1>1. FlattenSeq(seqs) = F[N]
  BY Zenon DEF FlattenSeq, FlattenStep
<1> HIDE DEF N
<1>2. N \in Nat /\ N # 0
  BY DEF N
<1>3. s \o <<>> = s
  BY ConcatEmptySeq
<1>4. v = [i \in 1 .. N |-> FlattenStep(v, seqs, i)]
  <2>1. ASSUME NEW i \in 1 .. N PROVE s = FlattenStep(v, seqs, i)
    <3>1. CASE i = 1
      BY <3>1 DEF FlattenStep
    <3>2. CASE i # 1
      <4>1. i \in 2 .. N /\ i - 1 \in 1 .. N
        BY <1>2, <3>2
      <4>2. v[i - 1] = s /\ seqs[i] = <<>>
        BY <4>1 DEF N
      <4> QED
        BY <3>2, <4>2, <1>3 DEF FlattenStep
    <3> QED
      BY <3>1, <3>2
  <2>2. v = [i \in 1 .. N |-> s]
    OBVIOUS
  <2> HIDE DEF v
  <2> QED
    BY <2>1, <2>2
<1>5. F = [i \in 1 .. N |-> FlattenStep(F, seqs, i)]
  <2> HIDE DEF v
  <2> QED
    BY <1>4
<1> HIDE DEF F
<1>6. \A i \in 1 .. N : F[i] = FlattenStep(F, seqs, i)
  BY <1>5
<1> DEFINE Wrong == {i \in 1 .. N : F[i] # s}
<1>7. Wrong = {}
  <2> SUFFICES ASSUME Wrong # {} PROVE FALSE
    OBVIOUS
  <2>1. Wrong \in SUBSET Nat
    BY <1>2
  <2>2. PICK x \in Wrong : \A y \in Wrong : x <= y
    <3> HIDE DEF Wrong
    <3> QED
      BY <2>1, LeastExists
  <2>3. x \in 1 .. N /\ F[x] # s
    BY <2>2
  <2>4. CASE x = 1
    BY <2>3, <2>4, <1>6 DEF FlattenStep
  <2>5. CASE x # 1
    <3>1. x - 1 \in 1 .. N /\ x \in 2 .. N /\ ~(x <= x - 1)
      BY <1>2, <2>3, <2>5
    <3>2. x - 1 \notin Wrong
      BY <2>2, <3>1
    <3>3. F[x - 1] = s /\ seqs[x] = <<>>
      BY <3>1, <3>2 DEF N
    <3> QED
      BY <2>3, <2>5, <3>3, <1>3, <1>6 DEF FlattenStep
  <2> QED
    BY <2>4, <2>5
<1>8. N \in 1 .. N
  BY <1>2
<1> QED
  BY <1>1, <1>7, <1>8

Distinct(s) == \A i, j \in 1 .. Len(s) : i # j => s[i] # s[j]
In(n, s) == \E i \in 1 .. Len(s) : n = s[i]

Queues == [head : [Levels -> Pointers], tail : [Levels -> Pointers],
           size : [Levels -> Nat], next_tcb : [Tcbs -> Pointers]]

(* The queues hold the list s on level 0 and nothing else.  size is at     *)
(* least the length of s, and if it is not 0 there is a tail, which is the *)
(* last of s unless s is empty.                                            *)
Holds(q, s) ==
  /\ q \in Queues
  /\ s \in Seq(Tcbs) /\ Distinct(s)
  /\ Acyclic(q.next_tcb)
  /\ Chained(q, 0, s)
  /\ s # <<>> => q.tail[0] = s[Len(s)]
  /\ q.size[0] # 0 => q.tail[0] \in Tcbs
  /\ q.size[0] >= Len(s)
  /\ \A l \in Levels : l # 0 => q.head[l] = NULL

LEMMA LevelsFacts ==
  /\ 0 \in Levels
  /\ \A i \in 1 .. NUMBER_LEVELS : i - 1 \in Levels /\ (i # 1 => i - 1 # 0)
  /\ \A l \in Levels : l + 1 \in 1 .. NUMBER_LEVELS
BY MaintenanceAssumption DEF Levels

LEMMA WalksOfHeld ==
  ASSUME NEW q, NEW s, Holds(q, s)
  PROVE  /\ Walk(q, 0) = s
         /\ \A l \in Levels : l # 0 => Walk(q, l) = <<>>
<1>1. q.next_tcb \in [Tcbs -> Pointers] /\ Acyclic(q.next_tcb) /\ s \in Seq(Tcbs)
  BY DEF Holds, Queues
<1>2. Walk(q, 0) = s
  BY <1>1, WalkIs DEF Holds
<1>3. ASSUME NEW l \in Levels, l # 0 PROVE Walk(q, l) = <<>>
  <2>1. <<>> \in Seq(Tcbs) /\ Len(<<>>) = 0
    BY EmptySeq
  <2>2. Chained(q, l, <<>>)
    BY <1>3, <2>1 DEF Holds, Chained
  <2> QED
    BY <1>1, <2>1, <2>2, WalkIs
<1> QED
  BY <1>2, <1>3

LEMMA ArrayOfHeld ==
  ASSUME NEW q, NEW s, Holds(q, s)
  PROVE  fold_mlpq_to_array(q) = s
<1> DEFINE seqs == [i \in 1 .. NUMBER_LEVELS |-> Walk(q, i - 1)]
<1>1. NUMBER_LEVELS \in Nat \ {0}
  BY MaintenanceAssumption
<1>2. s \in Seq(Tcbs)
  BY DEF Holds
<1>3. 1 \in 1 .. NUMBER_LEVELS /\ 1 - 1 = 0
  BY <1>1
<1>4. seqs[1] = s
  BY <1>3, WalksOfHeld
<1>5. ASSUME NEW i \in 2 .. NUMBER_LEVELS PROVE seqs[i] = <<>>
  <2>1. i \in 1 .. NUMBER_LEVELS /\ i # 1
    BY <1>1
  <2>2. i - 1 \in Levels /\ i - 1 # 0
    BY <2>1, LevelsFacts
  <2> QED
    BY <2>1, <2>2, WalksOfHeld
<1>6. Len(seqs) = NUMBER_LEVELS
  BY <1>1
<1>7. fold_mlpq_to_array(q) = FlattenSeq(seqs)
  BY DEF fold_mlpq_to_array
<1> HIDE DEF seqs
<1> QED
  BY <1>1, <1>2, <1>4, <1>5, <1>6, <1>7, FlattenFirst

LEMMA InIsToSet ==
  ASSUME NEW s \in Seq(Tcbs), NEW n
  PROVE  n \in ToSet(s) <=> In(n, s)
BY LenProperties DEF ToSet, In

LEMMA ScheduledIsIn ==
  ASSUME NEW q, NEW s, Holds(q, s), NEW n
  PROVE  Scheduled(q, n) <=> In(n, s)
<1>1. s \in Seq(Tcbs)
  BY DEF Holds
<1> QED
  BY <1>1, ArrayOfHeld, InIsToSet DEF Scheduled

-----------------------------------------------------------------------------
(* The links stay without a circle: a tcb is linked only to what its links *)
(* led to already, to NULL, or to one that links to nothing.               *)

LEMMA AcyclicCut ==
  ASSUME NEW next \in [Tcbs -> Pointers], Acyclic(next), NEW m \in Tcbs
  PROVE  Acyclic([next EXCEPT ![m] = NULL])
<1>1. PICK K \in Nat : \E rank \in [Pointers -> 0 .. K] :
                         \A n \in Tcbs : rank[next[n]] < rank[n]
  BY DEF Acyclic
<1>2. PICK rank \in [Pointers -> 0 .. K] :
             \A n \in Tcbs : rank[next[n]] < rank[n]
  BY <1>1
<1> DEFINE low == [n \in Pointers |-> IF n = NULL THEN 0 ELSE rank[n] + 1]
<1>3. K + 1 \in Nat /\ low \in [Pointers -> 0 .. K + 1]
  <2>1. ASSUME NEW n \in Pointers
        PROVE  (IF n = NULL THEN 0 ELSE rank[n] + 1) \in 0 .. K + 1
    BY <1>2, <1>1
  <2> QED
    BY <1>1, <2>1
<1>4. ASSUME NEW n \in Tcbs
      PROVE  low[[next EXCEPT ![m] = NULL][n]] < low[n]
  <2>1. n # NULL /\ n \in Pointers /\ low[n] = rank[n] + 1 /\ rank[n] \in 0 .. K
    BY <1>2, PointersFacts
  <2>2. CASE n = m
    <3>1. [next EXCEPT ![m] = NULL][n] = NULL /\ low[NULL] = 0
      BY <2>2, PointersFacts
    <3> QED
      BY <2>1, <3>1
  <2>3. CASE n # m
    <3>1. [next EXCEPT ![m] = NULL][n] = next[n] /\ next[n] \in Pointers
      BY <2>3
    <3>2. /\ rank[next[n]] \in 0 .. K /\ rank[next[n]] < rank[n]
          /\ (low[next[n]] = 0 \/ low[next[n]] = rank[next[n]] + 1)
      BY <1>2, <3>1
    <3> HIDE DEF low
    <3> QED
      BY <2>1, <3>1, <3>2
  <2> QED
    BY <2>2, <2>3
<1> HIDE DEF low
<1> QED
  BY <1>3, <1>4 DEF Acyclic

LEMMA AcyclicSkip ==
  ASSUME NEW next \in [Tcbs -> Pointers], Acyclic(next),
         NEW m \in Tcbs, NEW n \in Tcbs, next[m] = n
  PROVE  Acyclic([next EXCEPT ![m] = next[n]])
<1>1. PICK K \in Nat : \E rank \in [Pointers -> 0 .. K] :
                         \A x \in Tcbs : rank[next[x]] < rank[x]
  BY DEF Acyclic
<1>2. PICK rank \in [Pointers -> 0 .. K] :
             \A x \in Tcbs : rank[next[x]] < rank[x]
  BY <1>1
<1>3. ASSUME NEW x \in Tcbs
      PROVE  rank[[next EXCEPT ![m] = next[n]][x]] < rank[x]
  <2>1. CASE x = m
    <3>1. [next EXCEPT ![m] = next[n]][x] = next[n]
      BY <2>1
    <3>2. rank[next[n]] < rank[n] /\ rank[n] < rank[m]
      BY <1>2
    <3>3. m \in Pointers /\ n \in Pointers /\ next[n] \in Pointers
      BY PointersFacts
    <3>4. rank[m] \in Int /\ rank[n] \in Int /\ rank[next[n]] \in Int
      BY <1>2, <3>3
    <3> QED
      BY <2>1, <3>1, <3>2, <3>4
  <2>2. CASE x # m
    BY <2>2, <1>2
  <2> QED
    BY <2>1, <2>2
<1> QED
  BY <1>1, <1>2, <1>3 DEF Acyclic

(* What enqueue makes of the links: n links to nothing, and t to n unless  *)
(* it is n itself or the queue was empty.                                  *)
LinkedTo(next, n, t, c) ==
  [m \in Tcbs |-> IF m = n THEN NULL
                  ELSE IF c /\ m = t THEN n ELSE next[m]]

LEMMA AcyclicLinked ==
  ASSUME NEW next \in [Tcbs -> Pointers], Acyclic(next),
         NEW n \in Tcbs, NEW t, NEW c
  PROVE  /\ LinkedTo(next, n, t, c) \in [Tcbs -> Pointers]
         /\ Acyclic(LinkedTo(next, n, t, c))
<1>1. PICK K \in Nat : \E rank \in [Pointers -> 0 .. K] :
                         \A x \in Tcbs : rank[next[x]] < rank[x]
  BY DEF Acyclic
<1>2. PICK rank \in [Pointers -> 0 .. K] :
             \A x \in Tcbs : rank[next[x]] < rank[x]
  BY <1>1
<1> DEFINE low == [x \in Pointers |-> IF x = NULL THEN 0
                                      ELSE IF x = n THEN 1 ELSE rank[x] + 2]
           new == LinkedTo(next, n, t, c)
<1>3. K + 2 \in Nat /\ low \in [Pointers -> 0 .. K + 2]
  <2>1. ASSUME NEW x \in Pointers
        PROVE  (IF x = NULL THEN 0 ELSE IF x = n THEN 1 ELSE rank[x] + 2)
                 \in 0 .. K + 2
    BY <1>2, <1>1
  <2> QED
    BY <1>1, <2>1
<1>4. new \in [Tcbs -> Pointers]
  BY PointersFacts DEF LinkedTo
<1>5. ASSUME NEW x \in Tcbs
      PROVE  low[new[x]] < low[x]
  <2>1. x # NULL /\ x \in Pointers /\ rank[x] \in 0 .. K /\ low[NULL] = 0
    BY <1>2, PointersFacts
  <2>2. CASE x = n
    <3>1. low[x] = 1 /\ new[x] = NULL
      BY <2>1, <2>2 DEF LinkedTo
    <3> HIDE DEF low, new
    <3> QED
      BY <2>1, <3>1
  <2>3. CASE x # n
    <3>1. low[x] = rank[x] + 2
      BY <2>1, <2>3
    <3>2. CASE new[x] = n
      <4>1. low[n] = 1
        BY PointersFacts
      <4> HIDE DEF low, new
      <4> QED
        BY <2>1, <3>1, <3>2, <4>1
    <3>3. CASE new[x] # n
      <4>1. new[x] = next[x]
        BY <2>3, <3>3 DEF LinkedTo
      <4>2. next[x] \in Pointers /\ rank[next[x]] < rank[x] /\ rank[next[x]] \in 0 .. K
        BY <1>2
      <4>3. low[next[x]] = 0 \/ low[next[x]] = rank[next[x]] + 2
        BY <3>3, <4>1, <4>2
      <4> HIDE DEF low, new
      <4> QED
        BY <2>1, <3>1, <4>1, <4>2, <4>3
    <3> QED
      BY <3>2, <3>3
  <2> QED
    BY <2>2, <2>3
<1> HIDE DEF low
<1> QED
  BY <1>3, <1>4, <1>5 DEF Acyclic

-----------------------------------------------------------------------------
(* What the queue operations do to a list that the queues hold.            *)

LEMMA EnqueueFields ==
  ASSUME NEW q \in Queues, NEW n \in Tcbs
  PROVE  /\ enqueue(q, 0, n) \in Queues
         /\ enqueue(q, 0, n).head[0] = IF q.size[0] = 0 THEN n ELSE q.head[0]
         /\ \A l \in Levels : l # 0 => enqueue(q, 0, n).head[l] = q.head[l]
         /\ enqueue(q, 0, n).tail[0] = n
         /\ enqueue(q, 0, n).size[0] = q.size[0] + 1
         /\ enqueue(q, 0, n).next_tcb
              = LinkedTo(q.next_tcb, n, q.tail[0], q.size[0] # 0)
<1> DEFINE head == [q.head EXCEPT ![0] = IF q.size[0] = 0 THEN n ELSE @]
           tail == [q.tail EXCEPT ![0] = n]
           size == [q.size EXCEPT ![0] = @ + 1]
           next == LinkedTo(q.next_tcb, n, q.tail[0], q.size[0] # 0)
<1>1. /\ q.head \in [Levels -> Pointers] /\ q.tail \in [Levels -> Pointers]
      /\ q.size \in [Levels -> Nat] /\ q.next_tcb \in [Tcbs -> Pointers]
  BY DEF Queues
<1>2. 0 \in Levels /\ n \in Pointers /\ NULL \in Pointers
  BY LevelsFacts, PointersFacts
<1>3. /\ head \in [Levels -> Pointers]
      /\ head[0] = IF q.size[0] = 0 THEN n ELSE q.head[0]
      /\ \A l \in Levels : l # 0 => head[l] = q.head[l]
  BY <1>1, <1>2
<1>4. tail \in [Levels -> Pointers] /\ tail[0] = n
  BY <1>1, <1>2
<1>5. size \in [Levels -> Nat] /\ size[0] = q.size[0] + 1
  BY <1>1, <1>2
<1>6. next \in [Tcbs -> Pointers]
  BY <1>1, <1>2 DEF LinkedTo
<1>7. enqueue(q, 0, n) = [head |-> head, tail |-> tail, size |-> size,
                          next_tcb |-> next]
  BY Zenon DEF enqueue, LinkedTo
<1> HIDE DEF head, tail, size, next
<1>8. enqueue(q, 0, n) \in Queues
  BY <1>3, <1>4, <1>5, <1>6, <1>7 DEF Queues
<1>9. /\ enqueue(q, 0, n).head = head /\ enqueue(q, 0, n).tail = tail
      /\ enqueue(q, 0, n).size = size /\ enqueue(q, 0, n).next_tcb = next
  BY <1>7
<1> QED
  BY <1>3, <1>4, <1>5, <1>8, <1>9 DEF next

(* The list keeps its order and n comes last; only when the list is empty  *)
(* and size is not, it stays empty and n is lost.                          *)
LEMMA EnqueueHeld ==
  ASSUME NEW q, NEW s, Holds(q, s), NEW n \in Tcbs, ~In(n, s)
  PROVE  /\ enqueue(q, 0, n).size[0] # 0
         /\ \/ Holds(enqueue(q, 0, n), Append(s, n))
            \/ s = <<>> /\ q.size[0] # 0 /\ Holds(enqueue(q, 0, n), <<>>)
<1>1. /\ q \in Queues /\ s \in Seq(Tcbs) /\ q.size[0] \in Nat
      /\ q.next_tcb \in [Tcbs -> Pointers] /\ Acyclic(q.next_tcb)
  BY LevelsFacts DEF Holds, Queues
<1> DEFINE next == LinkedTo(q.next_tcb, n, q.tail[0], q.size[0] # 0)
<1>2. PICK new : new = enqueue(q, 0, n)
  OBVIOUS
<1>3. /\ new \in Queues
      /\ new.head[0] = IF q.size[0] = 0 THEN n ELSE q.head[0]
      /\ \A l \in Levels : l # 0 => new.head[l] = q.head[l]
      /\ new.tail[0] = n /\ new.size[0] = q.size[0] + 1
      /\ new.next_tcb = next
  BY <1>1, <1>2, EnqueueFields
<1>4. Acyclic(new.next_tcb)
  BY <1>1, <1>3, AcyclicLinked
<1>5. new.size[0] # 0 /\ new.tail[0] \in Tcbs /\ new.size[0] = q.size[0] + 1
  BY <1>1, <1>3
<1>6. \A l \in Levels : l # 0 => new.head[l] = NULL
  BY <1>3 DEF Holds
<1>7. Len(s) \in Nat /\ (\A i \in 1 .. Len(s) : s[i] \in Tcbs)
  BY <1>1, LenProperties, ElementOfSeq
<1>8. CASE s = <<>> /\ q.size[0] # 0
  <2>1. <<>> \in Seq(Tcbs) /\ Len(<<>>) = 0 /\ Distinct(<<>>)
    BY EmptySeq DEF Distinct
  <2>2. new.head[0] = NULL
    BY <1>3, <1>8 DEF Holds, Chained
  <2>3. Chained(new, 0, <<>>)
    BY <2>1, <2>2 DEF Chained
  <2>4. new.size[0] >= 0
    BY <1>1, <1>5
  <2>5. Holds(new, <<>>)
    BY <1>3, <1>4, <1>5, <1>6, <2>1, <2>3, <2>4 DEF Holds
  <2> QED
    BY <1>2, <1>5, <1>8, <2>5
<1>9. CASE ~(s = <<>> /\ q.size[0] # 0)
  <2>1. PICK t : t = Append(s, n)
    OBVIOUS
  <2>2. /\ t \in Seq(Tcbs) /\ t # <<>> /\ Len(t) = Len(s) + 1
        /\ \A i \in 1 .. Len(s) : t[i] = s[i]
        /\ t[Len(s) + 1] = n
    BY <1>1, <2>1, AppendProperties
  <2>3. Distinct(t)
    <3>1. ASSUME NEW i \in 1 .. Len(t), NEW j \in 1 .. Len(t), i # j
          PROVE  t[i] # t[j]
      <4>1. \A k \in 1 .. Len(s) : s[k] # n
        BY DEF In
      <4>2. \A k, m \in 1 .. Len(s) : k # m => s[k] # s[m]
        BY DEF Holds, Distinct
      <4>3. /\ i \in 1 .. Len(s) \/ i = Len(s) + 1
            /\ j \in 1 .. Len(s) \/ j = Len(s) + 1
        BY <1>7, <2>2
      <4> QED
        BY <3>1, <4>1, <4>2, <4>3, <2>2
    <3> QED
      BY <3>1 DEF Distinct
  <2>4. new.head[0] = t[1]
    <3>1. CASE s = <<>>
      <4>1. Len(s) = 0 /\ q.size[0] = 0
        BY <3>1, <1>9
      <4>2. t[1] = n
        BY <2>2, <4>1
      <4> QED
        BY <1>3, <4>1, <4>2
    <3>2. CASE s # <<>>
      <4>1. Len(s) # 0 /\ q.size[0] >= Len(s)
        BY <3>2, <1>1, EmptySeq DEF Holds
      <4>2. q.size[0] # 0 /\ 1 \in 1 .. Len(s)
        BY <4>1, <1>1, <1>7
      <4> QED
        BY <1>3, <2>2, <3>2, <4>2 DEF Holds, Chained
    <3> QED
      BY <3>1, <3>2
  <2>5. ASSUME NEW i \in 1 .. Len(t)
        PROVE  new.next_tcb[t[i]] = IF i = Len(t) THEN NULL ELSE t[i + 1]
    <3>1. CASE i = Len(t)
      <4>1. t[i] = n
        BY <3>1, <2>2
      <4> QED
        BY <3>1, <4>1, <1>3 DEF LinkedTo
    <3>2. CASE i # Len(t)
      <4>1. /\ i \in 1 .. Len(s) /\ i + 1 \in 1 .. Len(t)
            /\ (i # Len(s) => i + 1 \in 1 .. Len(s))
        BY <3>2, <2>2, <1>7
      <4>2. t[i] = s[i] /\ s[i] # n /\ s[i] \in Tcbs /\ s # <<>>
        BY <4>1, <2>2, <1>7 DEF In
      <4>3. q.size[0] # 0 /\ q.tail[0] = s[Len(s)]
        BY <4>2, <1>9, <1>1, <4>1, <1>7 DEF Holds
      <4>4. CASE i = Len(s)
        <5>1. new.next_tcb[t[i]] = n
          BY <1>3, <4>2, <4>3, <4>4 DEF LinkedTo
        <5> QED
          BY <5>1, <3>2, <2>2, <4>4
      <4>5. CASE i # Len(s)
        <5>1. s[i] # s[Len(s)]
          <6>1. Len(s) \in 1 .. Len(s)
            BY <1>7, <4>1
          <6> QED
            BY <4>1, <4>5, <6>1 DEF Holds, Distinct
        <5>2. new.next_tcb[t[i]] = q.next_tcb[s[i]]
          BY <1>3, <4>2, <4>3, <5>1 DEF LinkedTo
        <5>3. q.next_tcb[s[i]] = s[i + 1]
          BY <4>1, <4>5 DEF Holds, Chained
        <5>4. t[i + 1] = s[i + 1]
          BY <4>1, <4>5, <2>2
        <5> QED
          BY <3>2, <5>2, <5>3, <5>4
      <4> QED
        BY <4>4, <4>5
    <3> QED
      BY <3>1, <3>2
  <2>6. Chained(new, 0, t)
    BY <2>2, <2>4, <2>5 DEF Chained
  <2>7. new.tail[0] = t[Len(t)]
    BY <1>3, <2>2
  <2>8. new.size[0] >= Len(t)
    <3>1. q.size[0] >= Len(s)
      BY DEF Holds
    <3> QED
      BY <3>1, <1>1, <1>5, <1>7, <2>2
  <2>9. Holds(new, t)
    BY <1>3, <1>4, <1>5, <1>6, <2>2, <2>3, <2>6, <2>7, <2>8 DEF Holds
  <2> QED
    BY <1>2, <1>5, <2>1, <2>9
<1> QED
  BY <1>8, <1>9

LEMMA DequeueFields ==
  ASSUME NEW q \in Queues, q.head[0] \in Tcbs, q.size[0] # 0
  PROVE  /\ dequeue(q, 0) \in Queues
         /\ dequeue(q, 0).head[0]
              = IF q.size[0] = 1 THEN NULL ELSE q.next_tcb[q.head[0]]
         /\ \A l \in Levels : l # 0 => dequeue(q, 0).head[l] = q.head[l]
         /\ dequeue(q, 0).tail[0] = IF q.size[0] = 1 THEN NULL ELSE q.tail[0]
         /\ dequeue(q, 0).size[0] = q.size[0] - 1
         /\ dequeue(q, 0).next_tcb = [q.next_tcb EXCEPT ![q.head[0]] = NULL]
<1> DEFINE head == [q.head EXCEPT ![0] = IF q.size[0] = 1 THEN NULL
                                         ELSE q.next_tcb[@]]
           tail == [q.tail EXCEPT ![0] = IF q.size[0] = 1 THEN NULL ELSE @]
           size == [q.size EXCEPT ![0] = @ - 1]
           next == [q.next_tcb EXCEPT ![q.head[0]] = NULL]
<1>1. /\ q.head \in [Levels -> Pointers] /\ q.tail \in [Levels -> Pointers]
      /\ q.size \in [Levels -> Nat] /\ q.next_tcb \in [Tcbs -> Pointers]
  BY DEF Queues
<1>2. 0 \in Levels /\ NULL \in Pointers
  BY LevelsFacts, PointersFacts
<1>3. /\ head \in [Levels -> Pointers]
      /\ head[0] = IF q.size[0] = 1 THEN NULL ELSE q.next_tcb[q.head[0]]
      /\ \A l \in Levels : l # 0 => head[l] = q.head[l]
  BY <1>1, <1>2
<1>4. /\ tail \in [Levels -> Pointers]
      /\ tail[0] = IF q.size[0] = 1 THEN NULL ELSE q.tail[0]
  BY <1>1, <1>2
<1>5. size \in [Levels -> Nat] /\ size[0] = q.size[0] - 1
  <2>1. q.size[0] - 1 \in Nat
    BY <1>1, <1>2
  <2> QED
    BY <2>1, <1>1, <1>2
<1>6. next \in [Tcbs -> Pointers]
  BY <1>1, <1>2
<1>7. dequeue(q, 0) = [head |-> head, tail |-> tail, size |-> size,
                       next_tcb |-> next]
  BY Zenon DEF dequeue
<1> HIDE DEF head, tail, size, next
<1>8. dequeue(q, 0) \in Queues
  BY <1>3, <1>4, <1>5, <1>6, <1>7 DEF Queues
<1>9. /\ dequeue(q, 0).head = head /\ dequeue(q, 0).tail = tail
      /\ dequeue(q, 0).size = size /\ dequeue(q, 0).next_tcb = next
  BY <1>7
<1> QED
  BY <1>3, <1>4, <1>5, <1>8, <1>9 DEF next

(* The first of a list is gone; size may have been larger than the list.   *)
LEMMA DequeueHeld ==
  ASSUME NEW q, NEW s, Holds(q, s), s # <<>>
  PROVE  /\ q.size[0] # 0 /\ q.head[0] = s[1] /\ s[1] \in Tcbs
         /\ Holds(dequeue(q, 0), Tail(s))
<1>1. /\ q \in Queues /\ s \in Seq(Tcbs) /\ q.size[0] \in Nat
      /\ q.next_tcb \in [Tcbs -> Pointers] /\ Acyclic(q.next_tcb)
  BY LevelsFacts DEF Holds, Queues
<1>2. /\ Len(s) \in Nat /\ Len(s) # 0 /\ 1 \in 1 .. Len(s)
      /\ \A i \in 1 .. Len(s) : s[i] \in Tcbs
  BY <1>1, EmptySeq, LenProperties, ElementOfSeq
<1>3. q.size[0] # 0 /\ q.size[0] >= Len(s) /\ q.head[0] = s[1] /\ s[1] \in Tcbs
  BY <1>1, <1>2 DEF Holds, Chained
<1>4. PICK new : new = dequeue(q, 0)
  OBVIOUS
<1>5. /\ new \in Queues
      /\ new.head[0] = IF q.size[0] = 1 THEN NULL ELSE q.next_tcb[s[1]]
      /\ \A l \in Levels : l # 0 => new.head[l] = q.head[l]
      /\ new.tail[0] = IF q.size[0] = 1 THEN NULL ELSE q.tail[0]
      /\ new.size[0] = q.size[0] - 1
      /\ new.next_tcb = [q.next_tcb EXCEPT ![s[1]] = NULL]
  <2>1. q.head[0] \in Tcbs
    BY <1>3
  <2> QED
    BY <1>1, <1>3, <1>4, <2>1, DequeueFields
<1>6. Acyclic(new.next_tcb)
  BY <1>1, <1>3, <1>5, AcyclicCut
<1>7. PICK t : t = Tail(s)
  OBVIOUS
<1>8. /\ t \in Seq(Tcbs) /\ Len(t) = Len(s) - 1
      /\ \A i \in 1 .. Len(t) : t[i] = s[i + 1]
  BY <1>1, <1>7, HeadTailProperties
<1>9. \A i, j \in 1 .. Len(s) : i # j => s[i] # s[j]
  BY DEF Holds, Distinct
<1>10. \A i \in 1 .. Len(t) : i + 1 \in 1 .. Len(s) /\ i + 1 # 1 /\ i \in 1 .. Len(s)
  BY <1>2, <1>8
<1>11. Distinct(t)
  <2>1. ASSUME NEW i \in 1 .. Len(t), NEW j \in 1 .. Len(t), i # j
        PROVE  t[i] # t[j]
    <3>1. i + 1 # j + 1
      BY <2>1
    <3> QED
      BY <3>1, <1>8, <1>9, <1>10
  <2> QED
    BY <2>1 DEF Distinct
<1>12. t = <<>> <=> Len(s) = 1
  BY <1>2, <1>8, EmptySeq
<1>13. \A i \in 1 .. Len(s) :
         q.next_tcb[s[i]] = IF i = Len(s) THEN NULL ELSE s[i + 1]
  BY DEF Holds, Chained
<1>14. new.head[0] = IF t = <<>> THEN NULL ELSE t[1]
  <2>1. CASE Len(s) = 1
    <3>1. q.next_tcb[s[1]] = NULL
      BY <1>2, <1>13, <2>1
    <3> QED
      BY <1>5, <1>12, <2>1, <3>1
  <2>2. CASE Len(s) # 1
    <3>1. q.size[0] # 1 /\ 1 \in 1 .. Len(t)
      BY <1>1, <1>2, <1>3, <1>8, <2>2
    <3>2. q.next_tcb[s[1]] = s[1 + 1] /\ t[1] = s[1 + 1]
      BY <1>2, <1>8, <1>13, <2>2, <3>1
    <3> QED
      BY <1>5, <1>12, <2>2, <3>1, <3>2
  <2> QED
    BY <2>1, <2>2
<1>15. ASSUME NEW i \in 1 .. Len(t)
       PROVE  new.next_tcb[t[i]] = IF i = Len(t) THEN NULL ELSE t[i + 1]
  <2>1. t[i] = s[i + 1] /\ s[i + 1] # s[1] /\ s[i + 1] \in Tcbs
    BY <1>2, <1>8, <1>9, <1>10
  <2>2. new.next_tcb[t[i]] = q.next_tcb[s[i + 1]]
    BY <1>1, <1>5, <2>1
  <2>3. q.next_tcb[s[i + 1]] = IF i + 1 = Len(s) THEN NULL ELSE s[i + 1 + 1]
    BY <1>10, <1>13
  <2>4. i + 1 = Len(s) <=> i = Len(t)
    BY <1>2, <1>8
  <2>5. i # Len(t) => t[i + 1] = s[i + 1 + 1]
    <3> HAVE i # Len(t)
    <3>1. i + 1 \in 1 .. Len(t)
      BY <1>2, <1>8
    <3> QED
      BY <3>1, <1>8
  <2> QED
    BY <2>2, <2>3, <2>4, <2>5
<1>16. Chained(new, 0, t)
  BY <1>14, <1>15 DEF Chained
<1>17. t # <<>> => new.tail[0] = t[Len(t)]
  <2> HAVE t # <<>>
  <2>1. Len(t) \in 1 .. Len(t) /\ Len(t) + 1 = Len(s) /\ Len(s) # 1
    BY <1>2, <1>8, <1>12
  <2>2. q.size[0] # 1
    BY <1>1, <1>2, <1>3, <2>1
  <2>3. t[Len(t)] = s[Len(s)] /\ q.tail[0] = s[Len(s)]
    BY <1>8, <2>1 DEF Holds
  <2> QED
    BY <1>5, <2>2, <2>3
<1>18. new.size[0] # 0 => new.tail[0] \in Tcbs
  <2> HAVE new.size[0] # 0
  <2>1. q.size[0] # 1
    BY <1>1, <1>5
  <2>2. q.tail[0] \in Tcbs
    BY <1>3 DEF Holds
  <2> QED
    BY <1>5, <2>1, <2>2
<1>19. new.size[0] >= Len(t)
  BY <1>1, <1>2, <1>3, <1>5, <1>8
<1>20. \A l \in Levels : l # 0 => new.head[l] = NULL
  BY <1>5 DEF Holds
<1>21. Holds(new, t)
  BY <1>5, <1>6, <1>8, <1>11, <1>16, <1>17, <1>18, <1>19, <1>20 DEF Holds
<1> QED
  BY <1>3, <1>4, <1>7, <1>21

LEMMA RemoveAtProperties ==
  ASSUME NEW S, NEW s \in Seq(S), NEW i \in 1 .. Len(s)
  PROVE  /\ RemoveAt(s, i) \in Seq(S)
         /\ Len(RemoveAt(s, i)) = Len(s) - 1
         /\ \A j \in 1 .. Len(s) - 1 :
              RemoveAt(s, i)[j] = IF j < i THEN s[j] ELSE s[j + 1]
<1>1. Len(s) \in Nat /\ \A j \in 1 .. Len(s) : s[j] \in S
  BY LenProperties, ElementOfSeq
<1>2. PICK a : a = SubSeq(s, 1, i - 1)
  OBVIOUS
<1>3. PICK b : b = SubSeq(s, i + 1, Len(s))
  OBVIOUS
<1>4. /\ a \in Seq(S) /\ Len(a) = i - 1
      /\ \A j \in 1 .. i - 1 : a[j] = s[j]
  <2>1. \A j \in 1 .. i - 1 : s[j] \in S
    BY <1>1
  <2>2. /\ SubSeq(s, 1, i - 1) \in Seq(S)
        /\ Len(SubSeq(s, 1, i - 1)) = IF 1 <= i - 1 THEN i - 1 - 1 + 1 ELSE 0
        /\ \A j \in 1 .. i - 1 - 1 + 1 : SubSeq(s, 1, i - 1)[j] = s[1 + j - 1]
    BY <2>1, <1>1, SubSeqProperties
  <2> QED
    BY <1>1, <1>2, <2>2
<1>5. /\ b \in Seq(S) /\ Len(b) = Len(s) - i
      /\ \A j \in 1 .. Len(s) - i : b[j] = s[i + j]
  <2>1. \A j \in i + 1 .. Len(s) : s[j] \in S
    BY <1>1
  <2>2. /\ SubSeq(s, i + 1, Len(s)) \in Seq(S)
        /\ Len(SubSeq(s, i + 1, Len(s)))
             = IF i + 1 <= Len(s) THEN Len(s) - (i + 1) + 1 ELSE 0
        /\ \A j \in 1 .. Len(s) - (i + 1) + 1 :
             SubSeq(s, i + 1, Len(s))[j] = s[i + 1 + j - 1]
    BY <2>1, <1>1, SubSeqProperties
  <2> QED
    BY <1>1, <1>3, <2>2
<1>6. /\ a \o b \in Seq(S) /\ Len(a \o b) = Len(a) + Len(b)
      /\ \A j \in 1 .. Len(a) + Len(b) :
           (a \o b)[j] = IF j <= Len(a) THEN a[j] ELSE b[j - Len(a)]
  BY <1>4, <1>5, ConcatProperties
<1>7. RemoveAt(s, i) = a \o b
  BY <1>2, <1>3 DEF RemoveAt
<1>8. Len(a) + Len(b) = Len(s) - 1
  BY <1>1, <1>4, <1>5
<1>9. ASSUME NEW j \in 1 .. Len(s) - 1
      PROVE  (a \o b)[j] = IF j < i THEN s[j] ELSE s[j + 1]
  <2>1. CASE j < i
    <3>1. j <= Len(a) /\ j \in 1 .. i - 1
      BY <1>1, <1>4, <2>1
    <3> QED
      BY <3>1, <1>4, <1>6, <1>8, <2>1
  <2>2. CASE ~(j < i)
    <3>1. ~(j <= Len(a)) /\ j - Len(a) \in 1 .. Len(s) - i /\ i + (j - Len(a)) = j + 1
      BY <1>1, <1>4, <2>2
    <3> QED
      BY <3>1, <1>5, <1>6, <1>8, <2>2
  <2> QED
    BY <2>1, <2>2
<1> QED
  BY <1>6, <1>7, <1>8, <1>9

(* What the surgery does to the tcb at place i of level 0.                 *)
RemovedAt(q, s, i) ==
  IF i = 1 THEN SetHead(q, 0, q.next_tcb[s[i]])
  ELSE IF i = Len(s) THEN SetNext(SetTail(q, 0, s[i - 1]), s[i - 1], NULL)
  ELSE SetNext(q, s[i - 1], q.next_tcb[s[i]])

LEMMA FoundWhere ==
  ASSUME NEW q, NEW s, Holds(q, s), NEW i \in 1 .. Len(s)
  PROVE  get_and_remove_tcb(q, s[i]) = RemovedAt(q, s, i)
<1>1. s \in Seq(Tcbs) /\ Walk(q, 0) = s
  BY WalksOfHeld DEF Holds
<1>2. s[i] \in ToSet(Walk(q, 0))
  BY <1>1, InIsToSet DEF In
<1>3. ASSUME NEW l \in Levels, s[i] \in ToSet(Walk(q, l)) PROVE l = 0
  <2> SUFFICES ASSUME l # 0 PROVE FALSE
    OBVIOUS
  <2>1. Walk(q, l) = <<>> /\ <<>> \in Seq(Tcbs) /\ Len(<<>>) = 0
    BY WalksOfHeld, EmptySeq
  <2>2. In(s[i], <<>>)
    BY <1>3, <2>1, InIsToSet
  <2> QED
    BY <2>1, <2>2 DEF In
<1>4. LevelOf(q, s[i]) = 0
  BY <1>2, <1>3, LevelsFacts DEF LevelOf
<1>5. DOMAIN s = 1 .. Len(s)
  BY <1>1, LenProperties
<1>6. PlaceIn(s, s[i]) = i
  BY <1>5 DEF PlaceIn, Holds, Distinct
<1> QED
  BY <1>1, <1>4, <1>6 DEF get_and_remove_tcb, RemovedAt

LEMMA SetFields ==
  ASSUME NEW q \in Queues, NEW m \in Tcbs, NEW n \in Pointers
  PROVE  /\ SetHead(q, 0, n) \in Queues
         /\ SetHead(q, 0, n).head = [q.head EXCEPT ![0] = n]
         /\ SetHead(q, 0, n).tail = q.tail /\ SetHead(q, 0, n).size = q.size
         /\ SetHead(q, 0, n).next_tcb = q.next_tcb
         /\ SetTail(q, 0, n) \in Queues
         /\ SetTail(q, 0, n).tail = [q.tail EXCEPT ![0] = n]
         /\ SetTail(q, 0, n).head = q.head /\ SetTail(q, 0, n).size = q.size
         /\ SetTail(q, 0, n).next_tcb = q.next_tcb
         /\ SetNext(q, m, n) \in Queues
         /\ SetNext(q, m, n).next_tcb = [q.next_tcb EXCEPT ![m] = n]
         /\ SetNext(q, m, n).head = q.head /\ SetNext(q, m, n).tail = q.tail
         /\ SetNext(q, m, n).size = q.size
<1>1. /\ q.head \in [Levels -> Pointers] /\ q.tail \in [Levels -> Pointers]
      /\ q.size \in [Levels -> Nat] /\ q.next_tcb \in [Tcbs -> Pointers]
  BY DEF Queues
<1>2. /\ [q.head EXCEPT ![0] = n] \in [Levels -> Pointers]
      /\ [q.tail EXCEPT ![0] = n] \in [Levels -> Pointers]
      /\ [q.next_tcb EXCEPT ![m] = n] \in [Tcbs -> Pointers]
  BY <1>1
<1>3. PICK head : head = [q.head EXCEPT ![0] = n]
  OBVIOUS
<1>4. PICK tail : tail = [q.tail EXCEPT ![0] = n]
  OBVIOUS
<1>5. PICK next : next = [q.next_tcb EXCEPT ![m] = n]
  OBVIOUS
<1>6. /\ SetHead(q, 0, n) = [q EXCEPT !.head = head]
      /\ SetTail(q, 0, n) = [q EXCEPT !.tail = tail]
      /\ SetNext(q, m, n) = [q EXCEPT !.next_tcb = next]
  BY <1>3, <1>4, <1>5 DEF SetHead, SetTail, SetNext
<1>7. /\ head \in [Levels -> Pointers] /\ tail \in [Levels -> Pointers]
      /\ next \in [Tcbs -> Pointers]
  BY <1>2, <1>3, <1>4, <1>5
<1>8. /\ [q EXCEPT !.head = head] \in Queues
      /\ [q EXCEPT !.head = head].head = head
      /\ [q EXCEPT !.head = head].tail = q.tail
      /\ [q EXCEPT !.head = head].size = q.size
      /\ [q EXCEPT !.head = head].next_tcb = q.next_tcb
  BY <1>7 DEF Queues
<1>9. /\ [q EXCEPT !.tail = tail] \in Queues
      /\ [q EXCEPT !.tail = tail].tail = tail
      /\ [q EXCEPT !.tail = tail].head = q.head
      /\ [q EXCEPT !.tail = tail].size = q.size
      /\ [q EXCEPT !.tail = tail].next_tcb = q.next_tcb
  BY <1>7 DEF Queues
<1>10. /\ [q EXCEPT !.next_tcb = next] \in Queues
       /\ [q EXCEPT !.next_tcb = next].next_tcb = next
       /\ [q EXCEPT !.next_tcb = next].head = q.head
       /\ [q EXCEPT !.next_tcb = next].tail = q.tail
       /\ [q EXCEPT !.next_tcb = next].size = q.size
  BY <1>7 DEF Queues
<1> QED
  BY <1>3, <1>4, <1>5, <1>6, <1>8, <1>9, <1>10

(* The tcb at place i is cut out, and the others keep their order.         *)
LEMMA RemoveHeld ==
  ASSUME NEW q, NEW s, Holds(q, s), NEW i \in 1 .. Len(s), q.size[0] # 0
  PROVE  /\ Holds(get_and_remove_tcb(q, s[i]), RemoveAt(s, i))
         /\ get_and_remove_tcb(q, s[i]).size[0] # 0
<1>1. /\ q \in Queues /\ s \in Seq(Tcbs) /\ q.size[0] \in Nat
      /\ q.next_tcb \in [Tcbs -> Pointers] /\ Acyclic(q.next_tcb)
      /\ q.head \in [Levels -> Pointers] /\ q.tail \in [Levels -> Pointers]
  BY LevelsFacts DEF Holds, Queues
<1>2. /\ Len(s) \in Nat /\ Len(s) # 0 /\ s # <<>>
      /\ \A j \in 1 .. Len(s) : s[j] \in Tcbs
  BY <1>1, EmptySeq, LenProperties, ElementOfSeq
<1>3. PICK t : t = RemoveAt(s, i)
  OBVIOUS
<1>4. /\ t \in Seq(Tcbs) /\ Len(t) = Len(s) - 1
      /\ \A j \in 1 .. Len(t) : t[j] = IF j < i THEN s[j] ELSE s[j + 1]
  BY <1>1, <1>3, RemoveAtProperties
<1>5. PICK new : new = RemovedAt(q, s, i)
  OBVIOUS
<1>6. \A j, k \in 1 .. Len(s) : j # k => s[j] # s[k]
  BY DEF Holds, Distinct
<1>7. \A j \in 1 .. Len(s) :
        q.next_tcb[s[j]] = IF j = Len(s) THEN NULL ELSE s[j + 1]
  BY DEF Holds, Chained
<1>8. Distinct(t)
  <2>1. ASSUME NEW j \in 1 .. Len(t), NEW k \in 1 .. Len(t), j # k
        PROVE  t[j] # t[k]
    <3>1. PICK a \in 1 .. Len(s) : a = IF j < i THEN j ELSE j + 1
      BY <1>2, <1>4
    <3>2. PICK b \in 1 .. Len(s) : b = IF k < i THEN k ELSE k + 1
      BY <1>2, <1>4
    <3>3. a # b
      BY <2>1, <3>1, <3>2
    <3>4. t[j] = s[a] /\ t[k] = s[b]
      BY <1>4, <3>1, <3>2
    <3> QED
      BY <1>6, <3>3, <3>4
  <2> QED
    BY <2>1 DEF Distinct
<1>9. t = <<>> <=> Len(s) = 1
  BY <1>2, <1>4, EmptySeq
<1>10. q.tail[0] = s[Len(s)] /\ q.size[0] >= Len(s) /\ q.head[0] = s[1]
  BY <1>2 DEF Holds, Chained
<1>11. q.next_tcb[s[i]] \in Pointers /\ NULL \in Pointers
  BY <1>1, <1>2, PointersFacts
<1>12. /\ new \in Queues /\ new.size = q.size /\ Acyclic(new.next_tcb)
       /\ \A l \in Levels : l # 0 => new.head[l] = q.head[l]
       /\ new.head[0] = IF i = 1 THEN q.next_tcb[s[i]] ELSE q.head[0]
       /\ new.tail[0] = IF i # 1 /\ i = Len(s) THEN s[i - 1] ELSE q.tail[0]
       /\ \A m \in Tcbs : new.next_tcb[m] =
            IF i # 1 /\ m = s[i - 1] THEN q.next_tcb[s[i]] ELSE q.next_tcb[m]
  <2>1. CASE i = 1
    <3>1. new = SetHead(q, 0, q.next_tcb[s[i]])
      BY <1>5, <2>1 DEF RemovedAt
    <3>2. s[i] \in Tcbs
      BY <1>2
    <3>3. /\ new \in Queues
          /\ new.head = [q.head EXCEPT ![0] = q.next_tcb[s[i]]]
          /\ new.tail = q.tail /\ new.size = q.size
          /\ new.next_tcb = q.next_tcb
      BY <1>1, <1>11, <3>1, <3>2, SetFields
    <3>4. /\ new.head[0] = q.next_tcb[s[i]]
          /\ \A l \in Levels : l # 0 => new.head[l] = q.head[l]
      BY <1>1, <3>3, LevelsFacts
    <3> QED
      BY <1>1, <2>1, <3>3, <3>4
  <2>2. CASE i # 1
    <3>1. /\ i - 1 \in 1 .. Len(s) /\ i - 1 # Len(s) /\ i - 1 + 1 = i
          /\ s[i - 1] \in Tcbs /\ s[i] \in Tcbs /\ s[i - 1] \in Pointers
      BY <1>2, <2>2, PointersFacts
    <3>2. q.next_tcb[s[i - 1]] = s[i]
      BY <1>7, <3>1
    <3>3. Acyclic([q.next_tcb EXCEPT ![s[i - 1]] = q.next_tcb[s[i]]])
      BY <1>1, <3>1, <3>2, AcyclicSkip
    <3>4. \A m \in Tcbs :
            [q.next_tcb EXCEPT ![s[i - 1]] = q.next_tcb[s[i]]][m] =
               IF m = s[i - 1] THEN q.next_tcb[s[i]] ELSE q.next_tcb[m]
      BY <1>1, <3>1
    <3>5. CASE i = Len(s)
      <4>1. q.next_tcb[s[i]] = NULL
        BY <1>7, <3>5
      <4>2. PICK cut : cut = SetTail(q, 0, s[i - 1])
        OBVIOUS
      <4>3. /\ cut \in Queues /\ cut.tail = [q.tail EXCEPT ![0] = s[i - 1]]
            /\ cut.head = q.head /\ cut.size = q.size
            /\ cut.next_tcb = q.next_tcb
        BY <1>1, <3>1, <4>2, SetFields
      <4>4. new = SetNext(cut, s[i - 1], NULL)
        BY <1>5, <2>2, <3>5, <4>2 DEF RemovedAt
      <4>5. /\ new \in Queues
            /\ new.next_tcb = [cut.next_tcb EXCEPT ![s[i - 1]] = NULL]
            /\ new.head = cut.head /\ new.tail = cut.tail /\ new.size = cut.size
        <5>1. SetNext(cut, s[i - 1], NULL) \in Queues
          BY <1>11, <3>1, <4>3, SetFields
        <5> QED
          BY <1>11, <3>1, <4>3, <4>4, <5>1 DEF SetNext, Queues
      <4>6. new.tail[0] = s[i - 1]
        BY <1>1, <4>3, <4>5, LevelsFacts
      <4> QED
        BY <2>2, <3>3, <3>4, <3>5, <4>1, <4>3, <4>5, <4>6
    <3>6. CASE i # Len(s)
      <4>1. new = SetNext(q, s[i - 1], q.next_tcb[s[i]])
        BY <1>5, <2>2, <3>6 DEF RemovedAt
      <4>2. /\ new \in Queues
            /\ new.next_tcb = [q.next_tcb EXCEPT ![s[i - 1]] = q.next_tcb[s[i]]]
            /\ new.head = q.head /\ new.tail = q.tail /\ new.size = q.size
        <5>1. SetNext(q, s[i - 1], q.next_tcb[s[i]]) \in Queues
          BY <1>1, <1>11, <3>1, SetFields
        <5> QED
          BY <1>1, <4>1, <5>1 DEF SetNext, Queues
      <4> QED
        BY <2>2, <3>3, <3>4, <3>6, <4>2
    <3> QED
      BY <3>5, <3>6
  <2> QED
    BY <2>1, <2>2
<1>13. new.head[0] = IF t = <<>> THEN NULL ELSE t[1]
  <2>1. CASE i # 1
    <3>1. t # <<>> /\ 1 \in 1 .. Len(t) /\ 1 < i
      BY <1>2, <1>4, <1>9, <2>1
    <3>2. t[1] = s[1]
      BY <1>4, <3>1
    <3> QED
      BY <1>10, <1>12, <2>1, <3>1, <3>2
  <2>2. CASE i = 1 /\ Len(s) = 1
    BY <1>7, <1>9, <1>12, <2>2
  <2>3. CASE i = 1 /\ Len(s) # 1
    <3>1. 1 \in 1 .. Len(t) /\ ~(1 < i)
      BY <1>2, <1>4, <2>3
    <3>2. t[1] = s[1 + 1]
      BY <1>4, <3>1
    <3> QED
      BY <1>7, <1>9, <1>12, <2>3, <3>2
  <2> QED
    BY <2>1, <2>2, <2>3
<1>14. ASSUME NEW j \in 1 .. Len(t)
       PROVE  new.next_tcb[t[j]] = IF j = Len(t) THEN NULL ELSE t[j + 1]
  <2>1. CASE i # 1 /\ j = i - 1
    <3>1. t[j] = s[i - 1] /\ s[i - 1] \in Tcbs
      <4>1. j < i /\ j \in 1 .. Len(s)
        BY <1>2, <1>4, <2>1
      <4> QED
        BY <1>2, <1>4, <2>1, <4>1
    <3>2. new.next_tcb[t[j]] = q.next_tcb[s[i]]
      BY <1>12, <2>1, <3>1
    <3>3. j = Len(t) <=> i = Len(s)
      BY <1>2, <1>4, <2>1
    <3>4. j # Len(t) => t[j + 1] = s[i + 1]
      <4> HAVE j # Len(t)
      <4>1. j + 1 \in 1 .. Len(t) /\ ~(j + 1 < i) /\ j + 1 = i
        BY <1>2, <1>4, <2>1
      <4> QED
        BY <1>4, <4>1
    <3> QED
      BY <1>7, <3>2, <3>3, <3>4
  <2>2. CASE i # 1 /\ j < i - 1
    <3>1. /\ j < i /\ j + 1 < i /\ j \in 1 .. Len(s) /\ i - 1 \in 1 .. Len(s)
          /\ j # Len(s) /\ j # Len(t) /\ j + 1 \in 1 .. Len(t) /\ j # i - 1
      BY <1>2, <1>4, <2>2
    <3>2. t[j] = s[j] /\ t[j + 1] = s[j + 1] /\ s[j] # s[i - 1] /\ s[j] \in Tcbs
      BY <1>2, <1>4, <1>6, <3>1
    <3>3. new.next_tcb[t[j]] = q.next_tcb[s[j]]
      BY <1>12, <3>2
    <3> QED
      BY <1>7, <3>1, <3>2, <3>3
  <2>3. CASE ~(j < i)
    <3>1. /\ j + 1 \in 1 .. Len(s) /\ (j = Len(t) <=> j + 1 = Len(s))
          /\ j + 1 # i - 1 /\ (i # 1 => i - 1 \in 1 .. Len(s))
      BY <1>2, <1>4, <2>3
    <3>2. t[j] = s[j + 1] /\ s[j + 1] \in Tcbs /\ (i # 1 => s[j + 1] # s[i - 1])
      BY <1>2, <1>4, <1>6, <2>3, <3>1
    <3>3. new.next_tcb[t[j]] = q.next_tcb[s[j + 1]]
      BY <1>12, <3>2
    <3>4. j # Len(t) => t[j + 1] = s[j + 1 + 1]
      <4> HAVE j # Len(t)
      <4>1. j + 1 \in 1 .. Len(t) /\ ~(j + 1 < i)
        BY <1>2, <1>4, <2>3
      <4> QED
        BY <1>4, <4>1
    <3> QED
      BY <1>7, <3>1, <3>3, <3>4
  <2>4. \/ i # 1 /\ j = i - 1
        \/ i # 1 /\ j < i - 1
        \/ ~(j < i)
    BY <1>2, <1>4
  <2> QED
    BY <2>1, <2>2, <2>3, <2>4
<1>15. Chained(new, 0, t)
  BY <1>13, <1>14 DEF Chained
<1>16. t # <<>> => new.tail[0] = t[Len(t)]
  <2> HAVE t # <<>>
  <2>1. Len(t) \in 1 .. Len(t)
    BY <1>2, <1>4, <1>9
  <2>2. CASE i = Len(s)
    <3>1. i # 1 /\ Len(t) < i /\ Len(t) = i - 1
      BY <1>2, <1>4, <2>1, <2>2
    <3>2. t[Len(t)] = s[i - 1]
      BY <1>4, <2>1, <3>1
    <3> QED
      BY <1>12, <2>2, <3>1, <3>2
  <2>3. CASE i # Len(s)
    <3>1. ~(Len(t) < i) /\ Len(t) + 1 = Len(s)
      BY <1>2, <1>4, <2>3
    <3>2. t[Len(t)] = s[Len(s)]
      BY <1>4, <2>1, <3>1
    <3> QED
      BY <1>10, <1>12, <2>3, <3>2
  <2> QED
    BY <2>2, <2>3
<1>17. new.tail[0] \in Tcbs
  <2>1. Len(s) \in 1 .. Len(s) /\ (i # 1 => i - 1 \in 1 .. Len(s))
    BY <1>2
  <2> QED
    BY <1>2, <1>10, <1>12, <2>1
<1>18. new.size[0] >= Len(t) /\ new.size[0] # 0
  BY <1>1, <1>2, <1>4, <1>10, <1>12
<1>19. \A l \in Levels : l # 0 => new.head[l] = NULL
  BY <1>12 DEF Holds
<1>20. Holds(new, t)
  BY <1>4, <1>8, <1>12, <1>15, <1>16, <1>17, <1>18, <1>19 DEF Holds
<1> QED
  BY <1>3, <1>5, <1>18, <1>20, FoundWhere

-----------------------------------------------------------------------------
(* The queues that the first creates leave behind.                         *)

(* A recursion from lo up to hi that starts with base and goes on with G.  *)
Upward(f, lo, hi, X, base, G) ==
  /\ f \in [lo .. hi -> X]
  /\ \A i \in lo .. hi : f[i] = IF i = lo THEN base ELSE G[i][f[i - 1]]

LEMMA UpwardExists ==
  ASSUME NEW lo \in Nat, NEW hi \in Nat, NEW X, NEW base \in X,
         NEW G, G \in [lo .. hi -> [X -> X]]
  PROVE  \E f : Upward(f, lo, hi, X, base, G)
<1> DEFINE Right(f, k) == /\ f \in [lo .. hi -> X]
                          /\ \A i \in lo .. hi : i < k =>
                               f[i] = IF i = lo THEN base ELSE G[i][f[i - 1]]
           Wrong == {k \in Nat : ~\E f : Right(f, k)}
<1>1. ASSUME NEW k \in Nat, NEW f, Right(f, k)
      PROVE  \E g : Right(g, k + 1)
  <2> DEFINE g == [i \in lo .. hi |-> IF i = lo THEN base ELSE G[i][f[i - 1]]]
  <2>1. ASSUME NEW i \in lo .. hi, i # lo
        PROVE  i - 1 \in lo .. hi /\ i - 1 < i
    BY <2>1
  <2>2. g \in [lo .. hi -> X]
    <3>1. ASSUME NEW i \in lo .. hi
          PROVE  (IF i = lo THEN base ELSE G[i][f[i - 1]]) \in X
      BY <1>1, <2>1
    <3> QED
      BY <3>1
  <2>3. ASSUME NEW i \in lo .. hi, i < k + 1
        PROVE  g[i] = IF i = lo THEN base ELSE G[i][g[i - 1]]
    <3>1. CASE i = lo
      BY <3>1
    <3>2. CASE i # lo
      <4>1. i - 1 \in lo .. hi /\ i - 1 < k
        BY <2>1, <2>3, <3>2
      <4>2. f[i - 1] = IF i - 1 = lo THEN base ELSE G[i - 1][f[i - 1 - 1]]
        BY <4>1, <1>1
      <4>3. g[i - 1] = f[i - 1]
        BY <4>1, <4>2
      <4>4. g[i] = G[i][f[i - 1]]
        BY <3>2
      <4> HIDE DEF g
      <4> QED
        BY <3>2, <4>3, <4>4
    <3> QED
      BY <3>1, <3>2
  <2> HIDE DEF g
  <2> QED
    BY <2>2, <2>3
<1>2. \E f : Right(f, 0)
  <2>1. [i \in lo .. hi |-> base] \in [lo .. hi -> X]
    OBVIOUS
  <2>2. \A i \in lo .. hi : ~(i < 0)
    OBVIOUS
  <2>3. Right([i \in lo .. hi |-> base], 0)
    BY <2>1, <2>2
  <2> HIDE DEF Right
  <2> QED
    BY <2>3
<1>3. Wrong = {}
  <2> HIDE DEF Right
  <2> SUFFICES ASSUME Wrong # {} PROVE FALSE
    OBVIOUS
  <2>1. Wrong \in SUBSET Nat
    OBVIOUS
  <2>2. PICK x \in Wrong : \A y \in Wrong : x <= y
    <3> HIDE DEF Wrong
    <3> QED
      BY <2>1, LeastExists
  <2>3. x \in Nat /\ x # 0
    BY <2>2, <1>2
  <2>4. x - 1 \in Nat /\ x - 1 + 1 = x /\ ~(x <= x - 1)
    BY <2>3
  <2>5. x - 1 \notin Wrong
    BY <2>2, <2>4
  <2>6. PICK f : Right(f, x - 1)
    BY <2>4, <2>5
  <2>7. \E g : Right(g, x - 1 + 1)
    BY <2>4, <2>6, <1>1
  <2> QED
    BY <2>2, <2>4, <2>7
<1>4. hi + 1 \in Nat /\ \A i \in lo .. hi : i < hi + 1
  OBVIOUS
<1>5. PICK f : Right(f, hi + 1)
  <2> HIDE DEF Right
  <2> QED
    BY <1>3, <1>4
<1> QED
  BY <1>4, <1>5 DEF Upward

LEMMA CreatedUnfolds ==
  \A num \in 0 .. MaxTcbs :
    Created[num] = IF num = 0 THEN queue_init
                   ELSE enqueue(Created[num - 1], 0, num)
<1> DEFINE Step(f, num) == IF num = 0 THEN queue_init
                           ELSE enqueue(f[num - 1], 0, num)
           G == [num \in 0 .. MaxTcbs |->
                   [q \in Queues |-> IF num = 0 THEN q ELSE enqueue(q, 0, num)]]
<1>1. MaxTcbs \in Nat /\ 0 \in Nat
  BY MaintenanceAssumption
<1>2. queue_init \in Queues
  BY PointersFacts DEF queue_init, Queues
<1>3. G \in [0 .. MaxTcbs -> [Queues -> Queues]]
  <2>1. ASSUME NEW num \in 0 .. MaxTcbs, NEW q \in Queues
        PROVE  (IF num = 0 THEN q ELSE enqueue(q, 0, num)) \in Queues
    <3>1. num # 0 => num \in Tcbs
      BY <1>1 DEF Tcbs
    <3> QED
      BY <3>1, EnqueueFields
  <2> QED
    BY <2>1
<1>4. PICK f : Upward(f, 0, MaxTcbs, Queues, queue_init, G)
  <2> HIDE DEF G
  <2> QED
    BY <1>1, <1>2, <1>3, UpwardExists
<1>5. ASSUME NEW i \in 0 .. MaxTcbs PROVE f[i] = Step(f, i)
  <2>1. CASE i = 0
    BY <2>1, <1>4 DEF Upward
  <2>2. CASE i # 0
    <3>1. i - 1 \in 0 .. MaxTcbs
      BY <1>1, <2>2
    <3>2. f[i - 1] \in Queues
      BY <1>4, <3>1 DEF Upward
    <3>3. G[i][f[i - 1]] = enqueue(f[i - 1], 0, i)
      BY <2>2, <3>2
    <3> QED
      BY <1>4, <2>2, <3>3 DEF Upward
  <2> QED
    BY <2>1, <2>2
<1>6. f = [i \in 0 .. MaxTcbs |-> Step(f, i)]
  <2> HIDE DEF Step
  <2> QED
    BY <1>4, <1>5 DEF Upward
<1>7. Created = CHOOSE g : g = [num \in 0 .. MaxTcbs |-> Step(g, num)]
  BY Zenon DEF Created
<1>8. Created = [num \in 0 .. MaxTcbs |-> Step(Created, num)]
  <2> HIDE DEF Step
  <2> QED
    BY <1>6, <1>7
<1> QED
  BY <1>8

LEMMA InitHolds ==
  ASSUME NEW num \in Tcbs
  PROVE  \E s : Holds(Created[num], s) /\ Created[num].size[0] # 0
<1> DEFINE Good(m) == /\ m # 0 => Created[m].size[0] # 0
                      /\ \E s : /\ Holds(Created[m], s)
                                /\ (m = 0 => Created[m].size[0] = 0)
                                /\ (m # 0 => s # <<>>)
                                /\ \A n \in Tcbs : In(n, s) => n <= m
           Wrong == {m \in 0 .. MaxTcbs : ~Good(m)}
<1>1. MaxTcbs \in Nat /\ num \in 0 .. MaxTcbs /\ num # 0 /\ 0 \in 0 .. MaxTcbs
  BY MaintenanceAssumption DEF Tcbs
<1>2. Good(0)
  <2>1. Created[0] = queue_init
    BY <1>1, CreatedUnfolds
  <2>2. queue_init \in Queues
    BY PointersFacts DEF queue_init, Queues
  <2>3. <<>> \in Seq(Tcbs) /\ Len(<<>>) = 0 /\ Distinct(<<>>)
    BY EmptySeq DEF Distinct
  <2>4. Acyclic(queue_init.next_tcb)
    <3> DEFINE rank == [n \in Pointers |-> IF n = NULL THEN 0 ELSE 1]
               next == [n \in Tcbs |-> NULL]
    <3>1. rank \in [Pointers -> 0 .. 1] /\ 1 \in Nat
      OBVIOUS
    <3>2. ASSUME NEW m \in Tcbs PROVE rank[next[m]] < rank[m]
      BY PointersFacts
    <3>3. queue_init.next_tcb = next
      BY DEF queue_init
    <3> HIDE DEF rank, next
    <3> QED
      BY <3>1, <3>2, <3>3 DEF Acyclic
  <2>5. /\ \A l \in Levels : queue_init.head[l] = NULL /\ queue_init.size[l] = 0
        /\ 0 \in Levels
    BY LevelsFacts DEF queue_init
  <2>6. Chained(queue_init, 0, <<>>)
    BY <2>3, <2>5 DEF Chained
  <2>7. Holds(queue_init, <<>>)
    BY <2>2, <2>3, <2>4, <2>5, <2>6 DEF Holds
  <2>8. \A n \in Tcbs : ~In(n, <<>>)
    BY <2>3 DEF In
  <2> QED
    BY <2>1, <2>5, <2>7, <2>8
<1>3. ASSUME NEW m \in 0 .. MaxTcbs, m # 0, Good(m - 1)
      PROVE  Good(m)
  <2>1. PICK s : /\ Holds(Created[m - 1], s)
                 /\ m - 1 = 0 => Created[m - 1].size[0] = 0
                 /\ m - 1 # 0 => s # <<>>
                 /\ \A n \in Tcbs : In(n, s) => n <= m - 1
    BY <1>3
  <2>2. m \in Tcbs /\ ~(m <= m - 1) /\ m \in Nat
    BY <1>1, <1>3 DEF Tcbs
  <2>3. ~In(m, s)
    BY <2>1, <2>2
  <2>4. Created[m] = enqueue(Created[m - 1], 0, m)
    BY <1>3, CreatedUnfolds
  <2>5. ~(s = <<>> /\ Created[m - 1].size[0] # 0)
    BY <2>1
  <2>6. Created[m].size[0] # 0 /\ Holds(Created[m], Append(s, m))
    BY <2>1, <2>2, <2>3, <2>4, <2>5, EnqueueHeld
  <2>7. s \in Seq(Tcbs)
    BY <2>1 DEF Holds
  <2>8. PICK t : t = Append(s, m)
    OBVIOUS
  <2>9. /\ t # <<>> /\ Len(t) = Len(s) + 1 /\ Len(s) \in Nat
        /\ \A i \in 1 .. Len(s) : t[i] = s[i]
        /\ t[Len(s) + 1] = m
    BY <2>2, <2>7, <2>8, AppendProperties, LenProperties
  <2>10. ASSUME NEW n \in Tcbs, In(n, t) PROVE n <= m
    <3>1. PICK i \in 1 .. Len(t) : n = t[i]
      BY <2>10 DEF In
    <3>2. CASE i = Len(s) + 1
      BY <2>2, <2>9, <3>1, <3>2
    <3>3. CASE i # Len(s) + 1
      <4>1. i \in 1 .. Len(s)
        BY <2>9, <3>3
      <4>2. In(n, s)
        BY <2>9, <3>1, <4>1 DEF In
      <4>3. n <= m - 1 /\ n \in Int
        BY <2>1, <4>2 DEF Tcbs
      <4> QED
        BY <2>2, <4>3
    <3> QED
      BY <3>2, <3>3
  <2>11. Holds(Created[m], t)
    BY <2>6, <2>8
  <2> QED
    BY <1>3, <2>6, <2>9, <2>10, <2>11
<1>4. Wrong = {}
  <2> HIDE DEF Good
  <2> SUFFICES ASSUME Wrong # {} PROVE FALSE
    OBVIOUS
  <2>1. Wrong \in SUBSET Nat
    BY <1>1
  <2>2. PICK x \in Wrong : \A y \in Wrong : x <= y
    <3> HIDE DEF Wrong
    <3> QED
      BY <2>1, LeastExists
  <2>3. x \in 0 .. MaxTcbs /\ ~Good(x) /\ x # 0
    BY <2>2, <1>2
  <2>4. x - 1 \in 0 .. MaxTcbs /\ ~(x <= x - 1)
    BY <1>1, <2>3
  <2>5. Good(x - 1)
    BY <2>2, <2>4
  <2> QED
    BY <2>3, <2>5, <1>3
<1>5. Good(num)
  <2> HIDE DEF Good
  <2> QED
    BY <1>1, <1>4
<1> QED
  BY <1>1, <1>5

-----------------------------------------------------------------------------
(* The lists in every state.  size, which removals leave behind, is never  *)
(* 0 again, and the tcb that is about to be scheduled is in no list.       *)

Listed(s) ==
  /\ Holds(queues, s) /\ queues.size[0] # 0
  /\ tcb_node \in Pointers /\ (tcb_node # NULL => ~In(tcb_node, s))

ListInvariant == \E s : Listed(s)

(* What a step makes of the list s: nothing, a removal, a scheduling, or a *)
(* rotation; the last two may lose what they schedule.                     *)
Kept(s, t) == t = s /\ tcb_node' = tcb_node
Removed(s, t) ==
  \E i \in 1 .. Len(s) :
    /\ t = RemoveAt(s, i)
    /\ \/ tcb_node = NULL /\ tcb_node' = s[i]
       \/ tcb_node' = tcb_node /\ delete_tcb(s[i])
Appended(s, t) ==
  /\ tcb_node # NULL /\ tcb_node' = NULL
  /\ \/ t = Append(s, tcb_node)
     \/ s = <<>> /\ t = <<>>
Rotated(s, t) ==
  /\ s # <<>> /\ tcb_node' = tcb_node
  /\ \/ t = Append(Tail(s), s[1])
     \/ Tail(s) = <<>> /\ t = <<>>

LEMMA RemovedIsOut ==
  ASSUME NEW q, NEW s, Holds(q, s), NEW i \in 1 .. Len(s)
  PROVE  /\ ~In(s[i], RemoveAt(s, i))
         /\ \A n : In(n, RemoveAt(s, i)) => In(n, s)
         /\ \A n : In(n, s) => n = s[i] \/ In(n, RemoveAt(s, i))
<1>1. s \in Seq(Tcbs) /\ Len(s) \in Nat
  BY LenProperties DEF Holds
<1>2. \A j, k \in 1 .. Len(s) : j # k => s[j] # s[k]
  BY DEF Holds, Distinct
<1>3. PICK t : t = RemoveAt(s, i)
  OBVIOUS
<1>4. /\ Len(t) = Len(s) - 1
      /\ \A j \in 1 .. Len(s) - 1 : t[j] = IF j < i THEN s[j] ELSE s[j + 1]
  BY <1>1, <1>3, RemoveAtProperties
<1>5. ASSUME NEW j \in 1 .. Len(t) PROVE \E k \in 1 .. Len(s) : k # i /\ t[j] = s[k]
  <2>1. j < i => j \in 1 .. Len(s) /\ j # i
    BY <1>1, <1>4
  <2>2. ~(j < i) => j + 1 \in 1 .. Len(s) /\ j + 1 # i
    BY <1>1, <1>4
  <2> QED
    BY <1>4, <2>1, <2>2
<1>6. ~In(s[i], t)
  BY <1>2, <1>5 DEF In
<1>7. ASSUME NEW n, In(n, t) PROVE In(n, s)
  BY <1>5, <1>7 DEF In
<1>8. ASSUME NEW n, In(n, s), n # s[i] PROVE In(n, t)
  <2>1. PICK k \in 1 .. Len(s) : n = s[k]
    BY <1>8 DEF In
  <2>2. k # i
    BY <1>8, <2>1
  <2>3. CASE k < i
    <3>1. k \in 1 .. Len(t) /\ k \in 1 .. Len(s) - 1
      BY <1>1, <1>4, <2>3
    <3> QED
      BY <1>4, <2>1, <2>3, <3>1 DEF In
  <2>4. CASE ~(k < i)
    <3>1. /\ k - 1 \in 1 .. Len(t) /\ k - 1 \in 1 .. Len(s) - 1
          /\ ~(k - 1 < i) /\ k - 1 + 1 = k
      BY <1>1, <1>4, <2>2, <2>4
    <3>2. t[k - 1] = s[k]
      BY <1>4, <3>1
    <3> QED
      BY <2>1, <3>1, <3>2 DEF In
  <2> QED
    BY <2>3, <2>4
<1> QED
  BY <1>3, <1>6, <1>7, <1>8

LEMMA AppendedIn ==
  ASSUME NEW s \in Seq(Tcbs), NEW m \in Tcbs
  PROVE  \A n : In(n, Append(s, m)) <=> In(n, s) \/ n = m
<1>1. PICK t : t = Append(s, m)
  OBVIOUS
<1>2. /\ Len(t) = Len(s) + 1 /\ Len(s) \in Nat
      /\ \A i \in 1 .. Len(s) : t[i] = s[i]
      /\ t[Len(s) + 1] = m
  BY <1>1, AppendProperties, LenProperties
<1>3. \A i \in 1 .. Len(t) : i \in 1 .. Len(s) \/ i = Len(s) + 1
  BY <1>2
<1>4. Len(s) + 1 \in 1 .. Len(t) /\ \A i \in 1 .. Len(s) : i \in 1 .. Len(t)
  BY <1>2
<1>5. ASSUME NEW n, In(n, t) PROVE In(n, s) \/ n = m
  BY <1>2, <1>3, <1>5 DEF In
<1>6. ASSUME NEW n, In(n, s) \/ n = m PROVE In(n, t)
  BY <1>2, <1>4, <1>6 DEF In
<1> QED
  BY <1>1, <1>5, <1>6

LEMMA TailIn ==
  ASSUME NEW q, NEW s, Holds(q, s), s # <<>>
  PROVE  /\ ~In(s[1], Tail(s)) /\ In(s[1], s)
         /\ \A n : In(n, s) <=> n = s[1] \/ In(n, Tail(s))
         /\ Len(s) \in Nat /\ Len(s) # 0 /\ Len(Tail(s)) = Len(s) - 1
         /\ Tail(s) \in Seq(Tcbs)
<1>1. s \in Seq(Tcbs) /\ Len(s) \in Nat /\ Len(s) # 0
  BY EmptySeq, LenProperties DEF Holds
<1>2. PICK t : t = Tail(s)
  OBVIOUS
<1>3. /\ t \in Seq(Tcbs) /\ Len(t) = Len(s) - 1
      /\ \A i \in 1 .. Len(t) : t[i] = s[i + 1]
  BY <1>1, <1>2, HeadTailProperties
<1>4. \A i, j \in 1 .. Len(s) : i # j => s[i] # s[j]
  BY DEF Holds, Distinct
<1>5. 1 \in 1 .. Len(s) /\ \A i \in 1 .. Len(t) : i + 1 \in 1 .. Len(s) /\ i + 1 # 1
  BY <1>1, <1>3
<1>6. \A i \in 1 .. Len(s) : i = 1 \/ (i - 1 \in 1 .. Len(t) /\ i - 1 + 1 = i)
  BY <1>1, <1>3
<1>7. ~In(s[1], t) /\ In(s[1], s)
  BY <1>3, <1>4, <1>5 DEF In
<1>8. ASSUME NEW n, In(n, s), n # s[1] PROVE In(n, t)
  <2>1. PICK i \in 1 .. Len(s) : n = s[i]
    BY <1>8 DEF In
  <2>2. i - 1 \in 1 .. Len(t) /\ i - 1 + 1 = i
    BY <1>6, <1>8, <2>1
  <2>3. t[i - 1] = s[i]
    BY <1>3, <2>2
  <2> QED
    BY <2>1, <2>2, <2>3 DEF In
<1>9. ASSUME NEW n, n = s[1] \/ In(n, t) PROVE In(n, s)
  BY <1>3, <1>5, <1>9 DEF In
<1> QED
  BY <1>1, <1>2, <1>3, <1>7, <1>8, <1>9

LEMMA ListStep ==
  ASSUME NEW s, Listed(s), [Next]_vars
  PROVE  \E t : /\ Listed(t)'
                /\ Kept(s, t) \/ Removed(s, t) \/ Appended(s, t) \/ Rotated(s, t)
<1>1. /\ Holds(queues, s) /\ queues.size[0] # 0 /\ s \in Seq(Tcbs)
      /\ tcb_node \in Pointers /\ (tcb_node # NULL => ~In(tcb_node, s))
  BY DEF Listed, Holds
<1>2. Len(s) \in Nat /\ (\A i \in 1 .. Len(s) : s[i] \in Tcbs)
  BY <1>1, LenProperties, ElementOfSeq
<1>3. CASE UNCHANGED <<queues, tcb_node>>
  <2>1. Listed(s)' /\ Kept(s, s)
    BY <1>1, <1>3 DEF Listed, Kept
  <2> QED
    BY <2>1
<1>4. ASSUME NEW i \in 1 .. Len(s), queues' = get_and_remove_tcb(queues, s[i]),
             \/ tcb_node = NULL /\ tcb_node' = s[i]
             \/ tcb_node' = tcb_node /\ delete_tcb(s[i])
      PROVE  \E t : Listed(t)' /\ Removed(s, t)
  <2>1. Holds(queues', RemoveAt(s, i)) /\ queues'.size[0] # 0
    BY <1>1, <1>4, RemoveHeld
  <2>2. /\ ~In(s[i], RemoveAt(s, i))
        /\ \A n : In(n, RemoveAt(s, i)) => In(n, s)
    BY <1>1, RemovedIsOut
  <2>3. /\ tcb_node' \in Pointers
        /\ tcb_node' # NULL => ~In(tcb_node', RemoveAt(s, i))
    BY <1>1, <1>2, <1>4, <2>2, PointersFacts
  <2>4. Removed(s, RemoveAt(s, i))
    BY <1>4 DEF Removed
  <2>5. Listed(RemoveAt(s, i))'
    BY <2>1, <2>3 DEF Listed
  <2> QED
    BY <2>4, <2>5
<1>5. CASE scheduler_maintenance
  BY <1>3, <1>5 DEF scheduler_maintenance
<1>6. CASE ChangePriorityRemoves
  <2>1. PICK n : n = Head(oldest_tcb_array)
    OBVIOUS
  <2>2. CASE ~Scheduled(queues, n)
    BY <1>3, <1>6, <2>1, <2>2 DEF ChangePriorityRemoves, Crash
  <2>3. CASE Scheduled(queues, n)
    <3>1. PICK i \in 1 .. Len(s) : n = s[i]
      BY <1>1, <2>3, ScheduledIsIn DEF In
    <3>2. /\ tcb_node = NULL /\ tcb_node' = s[i]
          /\ queues' = get_and_remove_tcb(queues, s[i])
      BY <1>6, <2>1, <2>3, <3>1 DEF ChangePriorityRemoves
    <3> QED
      BY <3>2, <1>4
  <2> QED
    BY <2>2, <2>3
<1>7. CASE ChangePrioritySchedules
  <2>1. /\ tcb_node # NULL /\ tcb_node \in Tcbs /\ ~In(tcb_node, s)
        /\ tcb_node' = NULL /\ queues' = enqueue(queues, 0, tcb_node)
    BY <1>1, <1>7, PointersFacts DEF ChangePrioritySchedules
  <2>2. PICK t : /\ \/ t = Append(s, tcb_node)
                    \/ s = <<>> /\ t = <<>>
                 /\ Holds(queues', t) /\ queues'.size[0] # 0
    <3>1. /\ queues'.size[0] # 0
          /\ \/ Holds(queues', Append(s, tcb_node))
             \/ s = <<>> /\ Holds(queues', <<>>)
      BY <1>1, <2>1, EnqueueHeld
    <3> QED
      BY <3>1
  <2>3. Listed(t)'
    BY <2>1, <2>2, PointersFacts DEF Listed
  <2>4. Appended(s, t)
    BY <2>1, <2>2 DEF Appended
  <2> QED
    BY <2>3, <2>4
<1>8. ASSUME NEW n \in Tcbs, delete_tcb(n)
      PROVE  \E t : /\ Listed(t)'
                    /\ \/ Kept(s, t) \/ Removed(s, t)
                       \/ Appended(s, t) \/ Rotated(s, t)
  <2>1. CASE Scheduled(queues, n)
    <3>1. tcb_node' = tcb_node /\ queues' = get_and_remove_tcb(queues, n)
      BY <1>8, <2>1 DEF delete_tcb
    <3>2. PICK i \in 1 .. Len(s) : n = s[i]
      BY <1>1, <2>1, ScheduledIsIn DEF In
    <3> QED
      BY <1>4, <1>8, <3>1, <3>2
  <2>2. CASE ~Scheduled(queues, n)
    <3>1. UNCHANGED <<queues, tcb_node>>
      BY <1>8, <2>2 DEF delete_tcb, Crash
    <3> QED
      BY <1>3, <3>1
  <2> QED
    BY <2>1, <2>2
<1>9. CASE Tick
  <2>1. CASE queues.head[0] = NULL
    BY <1>3, <1>9, <2>1 DEF Tick, Crash
  <2>2. CASE queues.head[0] # NULL
    <3>1. s # <<>>
      BY <1>1, <2>2 DEF Holds, Chained
    <3>2. /\ queues.head[0] = s[1] /\ s[1] \in Tcbs
          /\ Holds(dequeue(queues, 0), Tail(s))
      BY <1>1, <3>1, DequeueHeld
    <3>3. ~In(s[1], Tail(s)) /\ \A n : In(n, s) <=> n = s[1] \/ In(n, Tail(s))
      BY <1>1, <3>1, TailIn
    <3>4. /\ queues' = enqueue(dequeue(queues, 0), 0, s[1])
          /\ tcb_node' = tcb_node
      BY <1>1, <1>9, <2>2, <3>2 DEF Tick
    <3>5. PICK t : /\ \/ t = Append(Tail(s), s[1])
                      \/ Tail(s) = <<>> /\ t = <<>>
                   /\ Holds(queues', t) /\ queues'.size[0] # 0
      <4>1. /\ queues'.size[0] # 0
            /\ \/ Holds(queues', Append(Tail(s), s[1]))
               \/ Tail(s) = <<>> /\ Holds(queues', <<>>)
        <5>1. PICK q : q = dequeue(queues, 0)
          OBVIOUS
        <5>2. PICK n \in Tcbs : n = s[1]
          BY <3>2
        <5>3. PICK r : r = Tail(s)
          OBVIOUS
        <5>4. Holds(q, r) /\ ~In(n, r) /\ queues' = enqueue(q, 0, n)
          BY <3>2, <3>3, <3>4, <5>1, <5>2, <5>3
        <5>5. /\ enqueue(q, 0, n).size[0] # 0
              /\ \/ Holds(enqueue(q, 0, n), Append(r, n))
                 \/ r = <<>> /\ Holds(enqueue(q, 0, n), <<>>)
          BY <5>4, EnqueueHeld
        <5> QED
          BY <5>2, <5>3, <5>4, <5>5
      <4> QED
        BY <4>1
    <3>6. Rotated(s, t)
      BY <3>1, <3>4, <3>5 DEF Rotated
    <3>7. ASSUME NEW n, In(n, t) PROVE In(n, s)
      <4>1. Tail(s) \in Seq(Tcbs)
        BY <1>1, <3>1, TailIn
      <4>2. CASE t = Append(Tail(s), s[1])
        BY <3>2, <3>3, <3>7, <4>1, <4>2, AppendedIn
      <4>3. CASE t = <<>>
        BY <3>7, <4>3 DEF In
      <4> QED
        BY <3>5, <4>2, <4>3
    <3>8. Listed(t)'
      BY <1>1, <3>4, <3>5, <3>7 DEF Listed
    <3> QED
      BY <3>6, <3>8
  <2> QED
    BY <2>1, <2>2
<1>10. CASE UNCHANGED vars
  BY <1>3, <1>10 DEF vars
<1> QED
  BY <1>5, <1>6, <1>7, <1>8, <1>9, <1>10 DEF Next

THEOREM ListInvariantHolds == Spec => []ListInvariant
<1>1. Init => ListInvariant
  <2> SUFFICES ASSUME Init PROVE ListInvariant
    OBVIOUS
  <2>1. PICK num \in Tcbs : queues = Created[num]
    BY DEF Init
  <2>2. PICK s : Holds(queues, s) /\ queues.size[0] # 0
    BY <2>1, InitHolds
  <2>3. tcb_node = NULL
    BY DEF Init
  <2> QED
    BY <2>2, <2>3, PointersFacts DEF ListInvariant, Listed
<1>2. ListInvariant /\ [Next]_vars => ListInvariant'
  <2> SUFFICES ASSUME ListInvariant, [Next]_vars PROVE ListInvariant'
    OBVIOUS
  <2>1. PICK s : Listed(s)
    BY DEF ListInvariant
  <2>2. PICK t : Listed(t)'
    BY <2>1, ListStep
  <2> QED
    BY <2>2 DEF ListInvariant
<1> QED
  BY <1>1, <1>2, PTL DEF Spec

-----------------------------------------------------------------------------
(* Theorems about the lists.                                               *)

(* The tail of a list that is not empty is its last tcb and size is never  *)
(* smaller than the list, whatever removals have left behind (what         *)
(* enqueue, my_pthread.c:285-297, relies on).                              *)
THEOREM ListsUsableHolds == Spec => []ListsUsable
<1>1. ListInvariant => ListsUsable
  <2> SUFFICES ASSUME ListInvariant, NEW l \in Levels
               PROVE  /\ Walk(queues, l) # <<>> =>
                           queues.tail[l] = Last(Walk(queues, l))
                      /\ queues.size[l] >= Len(Walk(queues, l))
    BY DEF ListsUsable
  <2>1. PICK s : Holds(queues, s)
    BY DEF ListInvariant, Listed
  <2>2. CASE l = 0
    <3>1. Walk(queues, l) = s
      BY <2>1, <2>2, WalksOfHeld
    <3> QED
      BY <2>1, <2>2, <3>1 DEF Holds, Last
  <2>3. CASE l # 0
    <3>1. Walk(queues, l) = <<>> /\ Len(<<>>) = 0
      BY <2>1, <2>3, WalksOfHeld, EmptySeq
    <3>2. queues.size[l] \in Nat
      BY <2>1 DEF Holds, Queues
    <3> QED
      BY <3>1, <3>2
  <2> QED
    BY <2>2, <2>3
<1> QED
  BY <1>1, ListInvariantHolds, PTL

(* A step seen on the arrays that fold_mlpq_to_array makes of the queues.  *)
LEMMA ArrayStep ==
  ASSUME ListInvariant, [Next]_vars
  PROVE  \E s, t :
           /\ Listed(s) /\ Listed(t)'
           /\ fold_mlpq_to_array(queues) = s
           /\ fold_mlpq_to_array(queues') = t
           /\ \A n : Scheduled(queues, n) <=> In(n, s)
           /\ \A n : Scheduled(queues', n) <=> In(n, t)
           /\ Kept(s, t) \/ Removed(s, t) \/ Appended(s, t) \/ Rotated(s, t)
<1>1. PICK s : Listed(s)
  BY DEF ListInvariant
<1>2. PICK t : /\ Listed(t)'
               /\ Kept(s, t) \/ Removed(s, t) \/ Appended(s, t) \/ Rotated(s, t)
  BY <1>1, ListStep
<1>3. Holds(queues, s) /\ Holds(queues', t)
  BY <1>1, <1>2 DEF Listed
<1>4. /\ fold_mlpq_to_array(queues) = s
      /\ fold_mlpq_to_array(queues') = t
  BY <1>3, ArrayOfHeld
<1>5. \A n : Scheduled(queues, n) <=> In(n, s)
  BY <1>3, ScheduledIsIn
<1>6. \A n : Scheduled(queues', n) <=> In(n, t)
  BY <1>3, ScheduledIsIn
<1> QED
  BY <1>1, <1>2, <1>4, <1>5, <1>6

SurgeryStep ==
  LET before == fold_mlpq_to_array(queues)
      after == fold_mlpq_to_array(queues')
  IN Len(after) < Len(before) =>
       \E i \in DOMAIN before : after = RemoveAt(before, i)

(* Wherever get_and_remove_tcb and delete_tcb (my_pthread.c:117-194) find  *)
(* a tcb, cutting it out leaves the others in their order.                 *)
THEOREM SurgeryIsCleanHolds == Spec => SurgeryIsClean
<1>1. ListInvariant /\ [Next]_vars => SurgeryStep
  <2> SUFFICES ASSUME ListInvariant, [Next]_vars,
                      Len(fold_mlpq_to_array(queues'))
                        < Len(fold_mlpq_to_array(queues))
               PROVE  \E i \in DOMAIN fold_mlpq_to_array(queues) :
                        fold_mlpq_to_array(queues')
                          = RemoveAt(fold_mlpq_to_array(queues), i)
    BY DEF SurgeryStep
  <2>1. PICK s, t :
           /\ Listed(s) /\ Listed(t)'
           /\ fold_mlpq_to_array(queues) = s
           /\ fold_mlpq_to_array(queues') = t
           /\ Kept(s, t) \/ Removed(s, t) \/ Appended(s, t) \/ Rotated(s, t)
    BY ArrayStep
  <2>2. Len(t) < Len(s)
    BY <2>1
  <2>3. Holds(queues, s) /\ s \in Seq(Tcbs)
    BY <2>1 DEF Listed, Holds
  <2>4. Len(s) \in Nat /\ DOMAIN s = 1 .. Len(s)
    BY <2>3, LenProperties
  <2>5. CASE Kept(s, t)
    BY <2>2, <2>4, <2>5 DEF Kept
  <2>6. CASE Removed(s, t)
    BY <2>1, <2>4, <2>6 DEF Removed
  <2>7. CASE Appended(s, t)
    <3>1. tcb_node \in Tcbs
      BY <2>1, <2>7, PointersFacts DEF Listed, Appended
    <3>2. Len(Append(s, tcb_node)) = Len(s) + 1
      BY <2>3, <3>1, AppendProperties
    <3>3. t = Append(s, tcb_node) \/ t = s
      BY <2>7 DEF Appended
    <3> QED
      BY <2>2, <2>4, <3>2, <3>3
  <2>8. CASE Rotated(s, t)
    <3>1. s # <<>>
      BY <2>8 DEF Rotated
    <3>2. /\ Len(s) # 0 /\ Len(Tail(s)) = Len(s) - 1
          /\ Tail(s) \in Seq(Tcbs) /\ s[1] \in Tcbs
      BY <2>3, <3>1, TailIn, DequeueHeld
    <3>3. CASE t = Append(Tail(s), s[1])
      <4>1. Len(t) = Len(s) - 1 + 1
        BY <3>2, <3>3, AppendProperties
      <4> QED
        BY <2>2, <2>4, <4>1
    <3>4. CASE Tail(s) = <<>> /\ t = <<>>
      <4>1. Len(s) = 1
        <5>1. PICK rest : rest = Tail(s)
          OBVIOUS
        <5>2. rest = <<>> /\ Len(rest) = Len(s) - 1
          BY <3>2, <3>4, <5>1
        <5>3. Len(rest) = 0
          BY <5>2, EmptySeq
        <5>4. PICK len \in Nat : len = Len(s)
          BY <2>4
        <5>5. 0 = len - 1
          BY <5>2, <5>3, <5>4
        <5>6. len = 1
          BY <5>5
        <5> QED
          BY ONLY <5>4, <5>6
      <4>2. PICK i \in 1 .. Len(s) : i = 1
        BY <4>1
      <4>3. PICK cut : cut = RemoveAt(s, i)
        OBVIOUS
      <4>4. cut \in Seq(Tcbs) /\ Len(cut) = Len(s) - 1
        BY <2>3, <4>3, RemoveAtProperties
      <4>5. cut = <<>>
        BY <4>1, <4>4, EmptySeq
      <4> QED
        BY <2>1, <3>4, <4>2, <4>3, <4>5
    <3> QED
      BY <2>8, <3>3, <3>4 DEF Rotated
  <2> QED
    BY <2>1, <2>5, <2>6, <2>7, <2>8
<1>2. Spec => [][SurgeryStep]_vars
  <2> HIDE DEF SurgeryStep
  <2> QED
    BY <1>1, ListInvariantHolds, PTL DEF Spec
<1> QED
  BY <1>2 DEF SurgeryIsClean, SurgeryStep

LostStep ==
  \A n \in Tcbs :
    (/\ Scheduled(queues, n) \/ tcb_node = n
     /\ ~(Scheduled(queues', n) \/ tcb_node' = n)
     /\ ~delete_tcb(n))
    => fold_mlpq_to_array(queues) \in {<<>>, <<n>>}

(* A tcb that nobody deletes drops out of the lists only if it was alone   *)
(* (change_priority and the rotation, my_pthread.c:266-269 and 571-577).   *)
THEOREM LostOnlyWhenAloneHolds == Spec => LostOnlyWhenAlone
<1>1. ListInvariant /\ [Next]_vars => LostStep
  <2> SUFFICES ASSUME ListInvariant, [Next]_vars, NEW n \in Tcbs,
                      Scheduled(queues, n) \/ tcb_node = n,
                      ~Scheduled(queues', n), tcb_node' # n, ~delete_tcb(n)
               PROVE  fold_mlpq_to_array(queues) \in {<<>>, <<n>>}
    BY Zenon DEF LostStep
  <2>1. PICK s, t :
           /\ Listed(s) /\ Listed(t)'
           /\ fold_mlpq_to_array(queues) = s
           /\ \A m : Scheduled(queues, m) <=> In(m, s)
           /\ \A m : Scheduled(queues', m) <=> In(m, t)
           /\ Kept(s, t) \/ Removed(s, t) \/ Appended(s, t) \/ Rotated(s, t)
    BY ArrayStep
  <2>2. (In(n, s) \/ tcb_node = n) /\ ~In(n, t)
    BY <2>1
  <2>3. Holds(queues, s) /\ s \in Seq(Tcbs) /\ Len(s) \in Nat
    BY <2>1, LenProperties DEF Listed, Holds
  <2>4. n # NULL
    BY PointersFacts
  <2>5. CASE Kept(s, t)
    BY <2>2, <2>5 DEF Kept
  <2>6. CASE Removed(s, t)
    <3>1. PICK i \in 1 .. Len(s) :
             /\ t = RemoveAt(s, i)
             /\ \/ tcb_node = NULL /\ tcb_node' = s[i]
                \/ tcb_node' = tcb_node /\ delete_tcb(s[i])
      BY <2>6 DEF Removed
    <3>2. n # s[i]
      BY <3>1
    <3>3. In(n, s)
      BY <2>2, <2>4, <3>1
    <3> QED
      BY <2>2, <2>3, <3>1, <3>2, <3>3, RemovedIsOut
  <2>7. CASE Appended(s, t)
    <3>1. tcb_node \in Tcbs
      BY <2>1, <2>7, PointersFacts DEF Listed, Appended
    <3>2. t # Append(s, tcb_node)
      <4>1. PICK m \in Tcbs : m = tcb_node
        BY <3>1
      <4>2. In(n, Append(s, m))
        BY <2>2, <2>3, <4>1, AppendedIn
      <4> QED
        BY <2>2, <4>1, <4>2
    <3> QED
      BY <2>1, <2>7, <3>2 DEF Appended
  <2>8. CASE Rotated(s, t)
    <3>1. s # <<>> /\ In(n, s)
      BY <2>2, <2>8 DEF Rotated
    <3>2. /\ Len(s) # 0 /\ Len(Tail(s)) = Len(s) - 1
          /\ Tail(s) \in Seq(Tcbs) /\ s[1] \in Tcbs
          /\ n = s[1] \/ In(n, Tail(s))
      BY <2>3, <3>1, TailIn, DequeueHeld
    <3>3. t # Append(Tail(s), s[1])
      <4>1. PICK rest, m : rest = Tail(s) /\ m = s[1]
        OBVIOUS
      <4>2. rest \in Seq(Tcbs) /\ m \in Tcbs /\ (In(n, rest) \/ n = m)
        BY <3>2, <4>1
      <4>3. In(n, Append(rest, m))
        BY <4>2, AppendedIn
      <4> QED
        BY <2>2, <4>1, <4>3
    <3>4. Tail(s) = <<>>
      BY <2>8, <3>3 DEF Rotated
    <3>5. Len(s) = 1 /\ n = s[1]
      <4>1. PICK rest : rest = Tail(s)
        OBVIOUS
      <4>2. rest = <<>> /\ Len(rest) = Len(s) - 1 /\ (n = s[1] \/ In(n, rest))
        BY <3>2, <3>4, <4>1
      <4>3. Len(rest) = 0
        BY <4>2, EmptySeq
      <4>4. ~In(n, rest)
        BY <4>3 DEF In
      <4> QED
        BY <2>3, <4>2, <4>3, <4>4
    <3>6. s = <<n>>
      <4>1. <<n>> \in Seq(Tcbs) /\ Len(<<n>>) = 1 /\ <<n>>[1] = n
        OBVIOUS
      <4>2. \A i \in 1 .. 1 : s[i] = <<n>>[i]
        BY <3>5, <4>1
      <4> QED
        BY <2>3, <3>5, <4>1, <4>2, SeqEqual
    <3> QED
      BY <2>1, <3>6
  <2> QED
    BY <2>1, <2>5, <2>6, <2>7, <2>8
<1>2. Spec => [][LostStep]_vars
  <2> HIDE DEF LostStep
  <2> QED
    BY <1>1, ListInvariantHolds, PTL DEF Spec
<1> QED
  BY <1>2 DEF LostOnlyWhenAlone, LostStep

-----------------------------------------------------------------------------
(* quick_select only rearranges the array: b is a with its values between  *)
(* from and to in another order.                                           *)
Arrays(n) == [1 .. n -> Tcbs]

Shuffles(f, n, from, to) ==
  /\ f \in [1 .. n -> 1 .. n]
  /\ \A i, j \in 1 .. n : f[i] = f[j] => i = j
  /\ \A j \in 1 .. n : \E i \in 1 .. n : f[i] = j
  /\ \A i \in 1 .. n : IF i \in from .. to THEN f[i] \in from .. to ELSE f[i] = i

Rearranged(a, b, n, from, to) ==
  \E f : Shuffles(f, n, from, to) /\ \A i \in 1 .. n : b[i] = a[f[i]]

LEMMA RearrangedSelf ==
  ASSUME NEW n \in Nat, NEW from \in 1 .. n, NEW to \in 1 .. n, NEW a
  PROVE  Rearranged(a, a, n, from, to)
<1>1. PICK f : f = [i \in 1 .. n |-> i]
  OBVIOUS
<1>2. Shuffles(f, n, from, to)
  BY <1>1 DEF Shuffles
<1> QED
  BY <1>1, <1>2 DEF Rearranged

LEMMA RearrangedTwice ==
  ASSUME NEW n \in Nat, NEW from \in 1 .. n, NEW to \in 1 .. n,
         NEW a, NEW b, NEW c,
         Rearranged(a, b, n, from, to), Rearranged(b, c, n, from, to)
  PROVE  Rearranged(a, c, n, from, to)
<1>1. PICK f : Shuffles(f, n, from, to) /\ \A i \in 1 .. n : b[i] = a[f[i]]
  BY DEF Rearranged
<1>2. PICK g : Shuffles(g, n, from, to) /\ \A i \in 1 .. n : c[i] = b[g[i]]
  BY DEF Rearranged
<1>3. f \in [1 .. n -> 1 .. n] /\ g \in [1 .. n -> 1 .. n]
  BY <1>1, <1>2 DEF Shuffles
<1>4. PICK h : h = [i \in 1 .. n |-> f[g[i]]]
  OBVIOUS
<1>5. /\ h \in [1 .. n -> 1 .. n]
      /\ \A i \in 1 .. n : g[i] \in 1 .. n /\ h[i] = f[g[i]]
  BY <1>3, <1>4
<1>6. ASSUME NEW i \in 1 .. n, NEW j \in 1 .. n, h[i] = h[j]
      PROVE  i = j
  <2>1. f[g[i]] = f[g[j]] /\ g[i] \in 1 .. n /\ g[j] \in 1 .. n
    BY <1>5, <1>6
  <2>2. g[i] = g[j]
    BY <1>1, <2>1 DEF Shuffles
  <2> QED
    BY <1>2, <2>2 DEF Shuffles
<1>7. ASSUME NEW j \in 1 .. n PROVE \E i \in 1 .. n : h[i] = j
  <2>1. PICK m \in 1 .. n : f[m] = j
    BY <1>1 DEF Shuffles
  <2>2. PICK i \in 1 .. n : g[i] = m
    BY <1>2 DEF Shuffles
  <2> QED
    BY <1>5, <2>1, <2>2
<1>8. ASSUME NEW i \in 1 .. n
      PROVE  IF i \in from .. to THEN h[i] \in from .. to ELSE h[i] = i
  <2>1. IF i \in from .. to THEN g[i] \in from .. to ELSE g[i] = i
    BY <1>2 DEF Shuffles
  <2>2. IF g[i] \in from .. to THEN f[g[i]] \in from .. to
                               ELSE f[g[i]] = g[i]
    BY <1>1, <1>5 DEF Shuffles
  <2> QED
    BY <1>5, <2>1, <2>2
<1>9. Shuffles(h, n, from, to)
  BY <1>5, <1>6, <1>7, <1>8 DEF Shuffles
<1>10. \A i \in 1 .. n : c[i] = a[h[i]]
  BY <1>1, <1>2, <1>5
<1> QED
  BY <1>9, <1>10 DEF Rearranged

LEMMA RearrangedWider ==
  ASSUME NEW n \in Nat, NEW from \in 1 .. n, NEW to \in 1 .. n,
         NEW a, NEW b, Rearranged(a, b, n, from, to)
  PROVE  Rearranged(a, b, n, 1, n)
<1>1. PICK f : Shuffles(f, n, from, to) /\ \A i \in 1 .. n : b[i] = a[f[i]]
  BY DEF Rearranged
<1>2. Shuffles(f, n, 1, n)
  BY <1>1 DEF Shuffles
<1> QED
  BY <1>1, <1>2 DEF Rearranged

LEMMA RearrangedSwap ==
  ASSUME NEW n \in Nat, NEW from \in 1 .. n, NEW to \in 1 .. n,
         NEW a \in Arrays(n), NEW r \in from .. to, NEW w \in from .. to
  PROVE  /\ Swap(a, r, w) \in Arrays(n)
         /\ Rearranged(a, Swap(a, r, w), n, from, to)
         /\ \A i \in 1 .. n : Swap(a, r, w)[i] = IF i = w THEN a[r]
                                                 ELSE IF i = r THEN a[w]
                                                 ELSE a[i]
<1>1. r \in 1 .. n /\ w \in 1 .. n
  OBVIOUS
<1>2. PICK f : f = [i \in 1 .. n |-> IF i = w THEN r ELSE IF i = r THEN w ELSE i]
  OBVIOUS
<1>3. f \in [1 .. n -> 1 .. n]
  BY <1>1, <1>2
<1>4. \A i \in 1 .. n : f[i] = IF i = w THEN r ELSE IF i = r THEN w ELSE i
  BY <1>2
<1>5. \A j \in 1 .. n : f[f[j]] = j
  BY <1>1, <1>3, <1>4
<1>6. Shuffles(f, n, from, to)
  <2>1. \A i, j \in 1 .. n : f[i] = f[j] => i = j
    BY <1>5
  <2>2. \A j \in 1 .. n : \E i \in 1 .. n : f[i] = j
    BY <1>3, <1>5
  <2>3. \A i \in 1 .. n : IF i \in from .. to THEN f[i] \in from .. to
                                              ELSE f[i] = i
    BY <1>4
  <2> QED
    BY <1>3, <2>1, <2>2, <2>3 DEF Shuffles
<1>7. PICK b : b = Swap(a, r, w)
  OBVIOUS
<1>8. b \in Arrays(n)
  BY <1>1, <1>7 DEF Swap, Arrays
<1>9. \A i \in 1 .. n : b[i] = IF i = w THEN a[r] ELSE IF i = r THEN a[w]
                               ELSE a[i]
  BY <1>1, <1>7 DEF Swap, Arrays
<1>10. \A i \in 1 .. n : b[i] = a[f[i]]
  BY <1>4, <1>9
<1> QED
  BY <1>6, <1>7, <1>8, <1>9, <1>10 DEF Rearranged

(* Nothing outside of from .. to moves, and nothing leaves it.             *)
LEMMA RearrangedInside ==
  ASSUME NEW n \in Nat, NEW from \in 1 .. n, NEW to \in 1 .. n,
         NEW a, NEW b, Rearranged(a, b, n, from, to)
  PROVE  /\ \A i \in 1 .. n : i \notin from .. to => b[i] = a[i]
         /\ \A i \in from .. to : \E j \in from .. to : b[i] = a[j]
         /\ \A j \in from .. to : \E i \in from .. to : b[i] = a[j]
<1>1. PICK f : Shuffles(f, n, from, to) /\ \A i \in 1 .. n : b[i] = a[f[i]]
  BY DEF Rearranged
<1>2. /\ f \in [1 .. n -> 1 .. n]
      /\ \A j \in 1 .. n : \E i \in 1 .. n : f[i] = j
      /\ \A i \in 1 .. n : IF i \in from .. to THEN f[i] \in from .. to
                                               ELSE f[i] = i
  BY <1>1 DEF Shuffles
<1>3. \A i \in from .. to : i \in 1 .. n
  OBVIOUS
<1>4. ASSUME NEW j \in from .. to PROVE \E i \in from .. to : b[i] = a[j]
  <2>1. PICK i \in 1 .. n : f[i] = j
    BY <1>2, <1>3
  <2>2. i \in from .. to
    BY <1>2, <2>1
  <2> QED
    BY <1>1, <2>1, <2>2
<1>5. ASSUME NEW i \in from .. to PROVE \E j \in from .. to : b[i] = a[j]
  BY <1>1, <1>2, <1>3
<1>6. ASSUME NEW i \in 1 .. n, i \notin from .. to PROVE b[i] = a[i]
  BY <1>1, <1>2, <1>6
<1> QED
  BY <1>4, <1>5, <1>6

-----------------------------------------------------------------------------
(* A pass of quick_select.                                                 *)
Timed == initial_start_time \in [Tcbs -> Times]

LEMMA TimeIsNat ==
  ASSUME Timed, NEW n \in Nat, NEW a \in Arrays(n), NEW i \in 1 .. n
  PROVE  Time(a, i) \in Nat /\ a[i] \in Tcbs
BY MaintenanceAssumption DEF Timed, Time, Arrays

ScanStates(n, from, to) ==
  [a : [1 .. n -> Tcbs], r : from .. to, w : from .. to]

(* While nothing is below mid, the array turns: its first value goes to    *)
(* the end and the others move down by one.                                *)
Turning(a, from, to, s) ==
  /\ s.a[from] = IF s.w = to THEN a[from] ELSE a[s.w + 1]
  /\ \A i \in from + 1 .. s.w : s.a[i] = a[i]
  /\ \A i \in s.w + 1 .. to : s.a[i] = IF i = to THEN a[from] ELSE a[i + 1]

Scanning(a, n, from, to, mid, s) ==
  /\ s \in ScanStates(n, from, to)
  /\ s.r <= s.w
  /\ Rearranged(a, s.a, n, from, to)
  /\ \A i \in from .. s.r - 1 : Time(s.a, i) < initial_start_time[mid]
  /\ \A i \in s.w + 1 .. to : Time(s.a, i) >= initial_start_time[mid]
  /\ s.w = to => s.a = a
  /\ s.r = from => Turning(a, from, to, s)

LEMMA ScanStarts ==
  ASSUME NEW n \in Nat, NEW from \in 1 .. n, NEW to \in from .. n,
         NEW a \in Arrays(n), NEW mid
  PROVE  Scanning(a, n, from, to, mid, [a |-> a, r |-> from, w |-> to])
<1>1. PICK s : s = [a |-> a, r |-> from, w |-> to]
  OBVIOUS
<1>2. s.a = a /\ s.r = from /\ s.w = to /\ s \in ScanStates(n, from, to)
  BY <1>1 DEF ScanStates, Arrays
<1>3. Rearranged(a, a, n, from, to)
  BY RearrangedSelf
<1>4. Turning(a, from, to, s)
  BY <1>2 DEF Turning
<1>5. Scanning(a, n, from, to, mid, s)
  BY <1>2, <1>3, <1>4 DEF Scanning
<1> QED
  BY <1>1, <1>5

LEMMA ScanStepKeeps ==
  ASSUME Timed, NEW n \in Nat, NEW from \in 1 .. n, NEW to \in from .. n,
         NEW a \in Arrays(n), NEW mid \in Tcbs, NEW s,
         Scanning(a, n, from, to, mid, s), s.r < s.w
  PROVE  /\ Scanning(a, n, from, to, mid, ScanStep(s, mid))
         /\ ScanStep(s, mid).w - ScanStep(s, mid).r = s.w - s.r - 1
<1>1. /\ s \in ScanStates(n, from, to) /\ s.a \in Arrays(n)
      /\ s.r \in from .. to /\ s.w \in from .. to /\ s.r <= s.w
      /\ s = [a |-> s.a, r |-> s.r, w |-> s.w]
      /\ s.r \in 1 .. n /\ s.w \in 1 .. n /\ to \in 1 .. n
  BY DEF Scanning, ScanStates, Arrays
<1>2. PICK t : t = ScanStep(s, mid)
  OBVIOUS
<1>3. initial_start_time[mid] \in Nat
  BY MaintenanceAssumption DEF Timed
<1>4. \A i \in 1 .. n : Time(s.a, i) \in Nat
  BY <1>1, TimeIsNat
<1>5. /\ \A i \in from .. s.r - 1 : Time(s.a, i) < initial_start_time[mid]
      /\ \A i \in s.w + 1 .. to : Time(s.a, i) >= initial_start_time[mid]
  BY DEF Scanning
<1>6. Rearranged(a, s.a, n, from, to)
  BY DEF Scanning
<1>7. CASE Time(s.a, s.r) >= initial_start_time[mid]
  <2>1. t = [a |-> Swap(s.a, s.r, s.w), r |-> s.r, w |-> s.w - 1]
    BY <1>2, <1>7 DEF ScanStep
  <2>2. PICK b, p, q : b = s.a /\ p = s.r /\ q = s.w
    OBVIOUS
  <2>3. /\ Swap(b, p, q) \in Arrays(n)
        /\ Rearranged(b, Swap(b, p, q), n, from, to)
        /\ \A i \in 1 .. n : Swap(b, p, q)[i] = IF i = q THEN b[p]
                                                ELSE IF i = p THEN b[q]
                                                ELSE b[i]
    BY <1>1, <2>2, RearrangedSwap
  <2>4. t.a = Swap(b, p, q) /\ t.r = p /\ t.w = q - 1
    BY <2>1, <2>2
  <2>5. t \in ScanStates(n, from, to)
    BY <1>1, <2>1, <2>2, <2>3 DEF ScanStates, Arrays
  <2>6. Rearranged(a, t.a, n, from, to)
    <3>1. PICK c : c = t.a
      OBVIOUS
    <3>2. Rearranged(a, b, n, from, to) /\ Rearranged(b, c, n, from, to)
      BY <1>6, <2>2, <2>3, <2>4, <3>1
    <3>3. Rearranged(a, c, n, from, to)
      BY <1>1, <3>2, RearrangedTwice
    <3> QED
      BY <3>1, <3>3
  <2>7. \A i \in 1 .. n : t.a[i] = IF i = q THEN b[p]
                                   ELSE IF i = p THEN b[q] ELSE b[i]
    BY <2>3, <2>4
  <2>8. ASSUME NEW i \in from .. p - 1
        PROVE  Time(t.a, i) < initial_start_time[mid]
    <3>1. t.a[i] = s.a[i]
      BY <1>1, <2>2, <2>7
    <3>2. i \in from .. s.r - 1
      BY <2>2
    <3> QED
      BY <1>5, <3>1, <3>2 DEF Time
  <2>9. ASSUME NEW i \in q .. to
        PROVE  Time(t.a, i) >= initial_start_time[mid]
    <3>1. CASE i = q
      BY <1>1, <1>7, <2>2, <2>7, <3>1 DEF Time
    <3>2. CASE i # q
      <4>1. i \in s.w + 1 .. to /\ t.a[i] = s.a[i]
        BY <1>1, <2>2, <2>7, <3>2
      <4> QED
        BY <1>5, <4>1 DEF Time
    <3> QED
      BY <3>1, <3>2
  <2>10. ASSUME p = from PROVE Turning(a, from, to, t)
    <3>1. Turning(a, from, to, s) /\ (s.w = to => s.a = a)
      BY <2>2, <2>10 DEF Scanning
    <3>2. /\ b[from] = IF q = to THEN a[from] ELSE a[q + 1]
          /\ \A i \in from + 1 .. q : b[i] = a[i]
          /\ \A i \in q + 1 .. to : b[i] = IF i = to THEN a[from] ELSE a[i + 1]
      BY <2>2, <3>1 DEF Turning
    <3>3. from < q /\ q \in from .. to
      BY <1>1, <2>2, <2>10
    <3>4. t.a[from] = a[q]
      BY <2>7, <2>10, <3>2, <3>3
    <3>5. \A i \in from + 1 .. q - 1 : t.a[i] = a[i]
      BY <2>7, <2>10, <3>2, <3>3
    <3>6. t.a[q] = IF q = to THEN a[from] ELSE a[q + 1]
      BY <2>7, <2>10, <3>2, <3>3
    <3>7. \A i \in q + 1 .. to :
             t.a[i] = IF i = to THEN a[from] ELSE a[i + 1]
      BY <2>7, <2>10, <3>2, <3>3
    <3>8. \A i \in q .. to : t.a[i] = IF i = to THEN a[from] ELSE a[i + 1]
      BY <3>3, <3>6, <3>7
    <3>9. t.w = q - 1 /\ t.w + 1 = q /\ t.w # to
      BY <2>4, <3>3
    <3> QED
      BY <3>4, <3>5, <3>8, <3>9 DEF Turning
  <2>11. t.w # to /\ t.r <= t.w /\ t.w - t.r = s.w - s.r - 1 /\ t.w + 1 = q
    BY <1>1, <2>2, <2>4
  <2>12. Scanning(a, n, from, to, mid, t)
    BY <2>4, <2>5, <2>6, <2>8, <2>9, <2>10, <2>11 DEF Scanning
  <2> QED
    BY <1>2, <2>11, <2>12
<1>8. CASE ~(Time(s.a, s.r) >= initial_start_time[mid])
  <2>1. t = [s EXCEPT !.r = @ + 1]
    BY <1>2, <1>8 DEF ScanStep
  <2>2. t.a = s.a /\ t.r = s.r + 1 /\ t.w = s.w /\ t \in ScanStates(n, from, to)
    BY <1>1, <2>1 DEF ScanStates
  <2>3. t.r # from /\ t.r <= t.w /\ t.w - t.r = s.w - s.r - 1
    BY <1>1, <2>2
  <2>4. Time(s.a, s.r) < initial_start_time[mid]
    BY <1>1, <1>3, <1>4, <1>8
  <2>5. \A i \in from .. t.r - 1 : Time(t.a, i) < initial_start_time[mid]
    <3> SUFFICES ASSUME NEW i \in from .. t.r - 1
                 PROVE  Time(s.a, i) < initial_start_time[mid]
      BY <2>2
    <3>1. i = s.r \/ i \in from .. s.r - 1
      BY <1>1, <2>2
    <3> QED
      BY <1>5, <2>4, <3>1
  <2>6. \A i \in t.w + 1 .. to : Time(t.a, i) >= initial_start_time[mid]
    BY <1>5, <2>2
  <2>7. t.w = to => t.a = a
    BY <2>2 DEF Scanning
  <2>8. Scanning(a, n, from, to, mid, t)
    BY <1>6, <2>2, <2>3, <2>5, <2>6, <2>7 DEF Scanning
  <2> QED
    BY <1>2, <2>3, <2>8
<1> QED
  BY <1>7, <1>8

ScanLoop(f, n, from, to, mid) ==
  f = [s \in ScanStates(n, from, to) |->
         IF s.r >= s.w THEN s ELSE f[ScanStep(s, mid)]]

LEMMA ScanLoopExists ==
  ASSUME NEW n \in Nat, NEW from \in 1 .. n, NEW to \in from .. n, NEW mid
  PROVE  \E f : ScanLoop(f, n, from, to, mid)
<1>1. PICK D : D = ScanStates(n, from, to)
  OBVIOUS
<1>2. PICK B : B = {s \in D : s.r >= s.w}
  OBVIOUS
<1>3. PICK V : V = [s \in D |-> s]
  OBVIOUS
<1>4. PICK H : H = [s \in D |-> ScanStep(s, mid)]
  OBVIOUS
<1>5. ASSUME NEW s \in D, s \notin B PROVE H[s] \in D
  <2>1. /\ s.a \in Arrays(n) /\ s.r \in from .. to /\ s.w \in from .. to
        /\ s = [a |-> s.a, r |-> s.r, w |-> s.w] /\ ~(s.r >= s.w)
    BY <1>1, <1>2, <1>5 DEF ScanStates, Arrays
  <2>2. CASE Time(s.a, s.r) >= initial_start_time[mid]
    <3>1. ScanStep(s, mid)
            = [a |-> Swap(s.a, s.r, s.w), r |-> s.r, w |-> s.w - 1]
      BY <2>2 DEF ScanStep
    <3>2. PICK b, r, w : b = s.a /\ r = s.r /\ w = s.w
      OBVIOUS
    <3>3. Swap(b, r, w) \in Arrays(n)
      BY <2>1, <3>2, RearrangedSwap
    <3> QED
      BY <1>1, <1>4, <2>1, <3>1, <3>2, <3>3 DEF ScanStates, Arrays
  <2>3. CASE ~(Time(s.a, s.r) >= initial_start_time[mid])
    <3>1. ScanStep(s, mid) = [s EXCEPT !.r = @ + 1]
      BY <2>3 DEF ScanStep
    <3>2. ScanStep(s, mid) \in ScanStates(n, from, to)
      BY <2>1, <3>1 DEF ScanStates, Arrays
    <3> QED
      BY <1>1, <1>4, <3>2
  <2> QED
    BY <2>2, <2>3
<1>6. PICK f : f = [s \in D |-> IF s \in B THEN V[s] ELSE f[H[s]]]
  <2>1. \A s \in D : s \notin B => H[s] \in D
    BY <1>5
  <2>2. \E f : Loops(f, D, B, V, H)
    BY <2>1, LoopExists
  <2> QED
    BY <2>2, Zenon DEF Loops
<1>7. \A s \in D : /\ s \in B <=> s.r >= s.w
                   /\ V[s] = s /\ H[s] = ScanStep(s, mid)
  BY <1>2, <1>3, <1>4
<1>8. f = [s \in D |-> IF s.r >= s.w THEN s ELSE f[ScanStep(s, mid)]]
  BY <1>6, <1>7
<1>9. ScanLoop(f, n, from, to, mid)
  BY <1>1, <1>8 DEF ScanLoop
<1> QED
  BY <1>9

LEMMA ScanEnds ==
  ASSUME Timed, NEW n \in Nat, NEW from \in 1 .. n, NEW to \in from .. n,
         NEW a \in Arrays(n), NEW mid \in Tcbs,
         NEW f, ScanLoop(f, n, from, to, mid),
         NEW s0, Scanning(a, n, from, to, mid, s0)
  PROVE  Scanning(a, n, from, to, mid, f[s0]) /\ f[s0].r = f[s0].w
<1> DEFINE Right(s) == /\ Scanning(a, n, from, to, mid, f[s])
                       /\ f[s].r = f[s].w
           Wrong == {d \in Nat : \E s : /\ Scanning(a, n, from, to, mid, s)
                                        /\ ~Right(s) /\ d = s.w - s.r}
<1>1. ASSUME NEW s, Scanning(a, n, from, to, mid, s)
      PROVE  /\ s.r \in Int /\ s.w \in Int /\ s.r <= s.w
             /\ f[s] = IF s.r >= s.w THEN s ELSE f[ScanStep(s, mid)]
  <2>1. s \in ScanStates(n, from, to) /\ s.r <= s.w
    BY <1>1 DEF Scanning
  <2>2. f[s] = IF s.r >= s.w THEN s ELSE f[ScanStep(s, mid)]
    BY <2>1, Zenon DEF ScanLoop
  <2>3. s.r \in Int /\ s.w \in Int
    BY <2>1 DEF ScanStates
  <2> QED
    BY <2>1, <2>2, <2>3
<1>2. ASSUME NEW s, Scanning(a, n, from, to, mid, s), ~Right(s)
      PROVE  s.w - s.r \in Wrong
  BY <1>1, <1>2
<1>3. ASSUME Wrong # {} PROVE FALSE
  <2>1. PICK d \in Wrong : \A e \in Wrong : d <= e
    <3>1. Wrong \in SUBSET Nat
      OBVIOUS
    <3> HIDE DEF Wrong
    <3> QED
      BY <1>3, <3>1, LeastExists
  <2>2. PICK s : Scanning(a, n, from, to, mid, s) /\ ~Right(s) /\ d = s.w - s.r
    OBVIOUS
  <2>3. s.r < s.w
    <3>1. s.r >= s.w => f[s] = s /\ s.r = s.w
      BY <1>1, <2>2
    <3> QED
      BY <1>1, <2>2, <3>1
  <2>4. PICK t : t = ScanStep(s, mid)
    OBVIOUS
  <2>5. Scanning(a, n, from, to, mid, t) /\ t.w - t.r = s.w - s.r - 1
    BY <2>2, <2>3, <2>4, ScanStepKeeps
  <2>6. f[s] = f[t]
    BY <1>1, <2>2, <2>3, <2>4
  <2>7. ~Right(t)
    BY <2>2, <2>6
  <2>8. t.w - t.r \in Wrong
    BY <1>2, <2>5, <2>7
  <2> HIDE DEF Wrong, Right
  <2>9. d <= t.w - t.r
    BY <2>1, <2>8
  <2>10. s.w \in Int /\ s.r \in Int
    BY <1>1, <2>2
  <2> QED
    BY <2>2, <2>5, <2>9, <2>10
<1>4. Right(s0)
  <2> HIDE DEF Right, Wrong
  <2> QED
    BY <1>2, <1>3
<1> QED
  BY <1>4

(* What a pass returns.  Its lower part may be empty: then the value in    *)
(* the middle was the least, and the array is turned by one.               *)
Turned(a, b, from, to) ==
  /\ b[to] = a[from]
  /\ \A i \in from .. to - 1 : b[i] = a[i + 1]

Parted(a, n, from, to, p) ==
  /\ p.a \in Arrays(n)
  /\ p.r \in from - 1 .. to - 1
  /\ Rearranged(a, p.a, n, from, to)
  /\ \A i \in from .. p.r : \A j \in p.r + 1 .. to : Time(p.a, i) <= Time(p.a, j)
  /\ p.r = from - 1 =>
       /\ Turned(a, p.a, from, to)
       /\ \A i \in from .. to : Time(a, (from + to) \div 2) <= Time(a, i)
       /\ Time(p.a, from) > Time(a, (from + to) \div 2)

LEMMA MiddleIsBefore ==
  ASSUME NEW n \in Nat, NEW from \in 1 .. n, NEW to \in from .. n, from < to
  PROVE  (from + to) \div 2 \in from .. to - 1
OBVIOUS

ScanOf(a, from, to) ==
  CHOOSE f : f = [s \in [a : [DOMAIN a -> Tcbs], r : from .. to, w : from .. to] |->
                    IF s.r >= s.w THEN s
                    ELSE f[ScanStep(s, a[(from + to) \div 2])]]

LEMMA PartitionUnfolds ==
  ASSUME NEW n \in Nat, NEW from \in 1 .. n, NEW to \in from .. n,
         NEW a \in Arrays(n), NEW mid, mid = a[(from + to) \div 2]
  PROVE  \E f, end : /\ ScanLoop(f, n, from, to, mid)
                     /\ end = f[[a |-> a, r |-> from, w |-> to]]
                     /\ Partition(a, from, to)
                          = [a |-> end.a, r |-> StepDown(end.a, end.r, mid)]
<1>1. PICK f : f = ScanOf(a, from, to)
  OBVIOUS
<1>2. DOMAIN a = 1 .. n
  BY DEF Arrays
<1>3. ScanStates(n, from, to)
        = [a : [DOMAIN a -> Tcbs], r : from .. to, w : from .. to]
  BY <1>2 DEF ScanStates
<1>4. \E g : ScanLoop(g, n, from, to, mid)
  BY ScanLoopExists
<1>5. ScanLoop(f, n, from, to, mid)
  <2>1. f = CHOOSE g : g = [s \in ScanStates(n, from, to) |->
                              IF s.r >= s.w THEN s ELSE g[ScanStep(s, mid)]]
    BY <1>1, <1>3, Zenon DEF ScanOf
  <2>2. f = CHOOSE g : ScanLoop(g, n, from, to, mid)
    BY <2>1, Zenon DEF ScanLoop
  <2> QED
    BY <1>4, <2>2, Zenon
<1>6. PICK start : start = [a |-> a, r |-> from, w |-> to]
  OBVIOUS
<1>7. PICK end : end = f[start]
  OBVIOUS
<1>8. Partition(a, from, to)
        = [a |-> end.a, r |-> StepDown(end.a, end.r, mid)]
  BY <1>1, <1>6, <1>7, Zenon DEF Partition, ScanOf
<1> QED
  BY <1>5, <1>6, <1>7, <1>8, Zenon

LEMMA PartitionFacts ==
  ASSUME Timed, NEW n \in Nat, NEW from \in 1 .. n, NEW to \in from .. n,
         from < to, NEW a \in Arrays(n)
  PROVE  Parted(a, n, from, to, Partition(a, from, to))
<1>1. PICK c : c = (from + to) \div 2
  OBVIOUS
<1>2. c \in from .. to - 1 /\ c \in 1 .. n /\ to \in 1 .. n
  BY <1>1, MiddleIsBefore
<1>3. PICK mid : mid = a[c]
  OBVIOUS
<1>4. mid \in Tcbs /\ initial_start_time[mid] = Time(a, c)
  BY <1>2, <1>3, TimeIsNat DEF Time
<1>5. PICK m : m = initial_start_time[mid]
  OBVIOUS
<1>6. m \in Nat
  BY <1>2, <1>4, <1>5, TimeIsNat
<1>7. PICK f, e :
         /\ ScanLoop(f, n, from, to, mid)
         /\ e = f[[a |-> a, r |-> from, w |-> to]]
         /\ Partition(a, from, to)
              = [a |-> e.a, r |-> StepDown(e.a, e.r, mid)]
  BY <1>1, <1>3, PartitionUnfolds
<1>8. Scanning(a, n, from, to, mid, e) /\ e.r = e.w
  <2>1. PICK s : s = [a |-> a, r |-> from, w |-> to]
    OBVIOUS
  <2>2. Scanning(a, n, from, to, mid, s)
    BY <2>1, ScanStarts
  <2>3. Scanning(a, n, from, to, mid, f[s]) /\ f[s].r = f[s].w
    BY <1>4, <1>7, <2>2, ScanEnds
  <2> QED
    BY <1>7, <2>1, <2>3
<1>9. PICK b, r : b = e.a /\ r = e.r
  OBVIOUS
<1>10. /\ b \in Arrays(n) /\ r \in from .. to
       /\ Rearranged(a, b, n, from, to)
       /\ \A i \in from .. r - 1 : Time(b, i) < m
       /\ \A i \in r + 1 .. to : Time(b, i) >= m
       /\ r = to => b = a
       /\ r = from => Turning(a, from, to, e)
  BY <1>5, <1>8, <1>9 DEF Scanning, ScanStates, Arrays
<1>11. r # to
  <2> SUFFICES ASSUME r = to PROVE FALSE
    OBVIOUS
  <2>1. Time(a, c) < m
    BY <1>2, <1>10
  <2> QED
    BY <1>4, <1>5, <1>6, <2>1
<1>12. \A i \in from .. to : Time(b, i) \in Nat
  BY <1>10, TimeIsNat
<1>13. PICK p : p = Partition(a, from, to)
  OBVIOUS
<1>14. p.a = b /\ p.r = StepDown(b, r, mid)
  BY <1>7, <1>9, <1>13
<1>15. p.r = IF Time(b, r) > m THEN r - 1 ELSE r
  BY <1>5, <1>14 DEF StepDown
<1>16. p.r \in from - 1 .. to - 1
  BY <1>10, <1>11, <1>15
<1>17. ASSUME NEW i \in from .. p.r PROVE Time(b, i) <= m
  <2>1. CASE i = r
    <3>1. p.r # r - 1
      BY <1>10, <1>16, <2>1
    <3>2. ~(Time(b, r) > m)
      BY <1>15, <3>1
    <3> QED
      BY <1>6, <1>10, <1>12, <2>1, <3>2
  <2>2. CASE i # r
    <3>1. p.r \in {r - 1, r}
      BY <1>15
    <3>2. i \in from .. r - 1 /\ i \in from .. to
      BY <1>10, <2>2, <3>1
    <3>3. Time(b, i) < m
      BY <1>10, <3>2
    <3> QED
      BY <1>6, <1>12, <3>2, <3>3
  <2> QED
    BY <2>1, <2>2
<1>18. ASSUME NEW j \in p.r + 1 .. to PROVE Time(b, j) >= m
  <2>1. CASE j = r
    <3>1. p.r # r
      BY <1>10, <1>16, <2>1
    <3>2. Time(b, r) > m
      BY <1>15, <3>1
    <3> QED
      BY <1>6, <1>10, <1>12, <2>1, <3>2
  <2>2. CASE j # r
    <3>1. p.r \in {r - 1, r}
      BY <1>15
    <3>2. j \in r + 1 .. to
      BY <1>10, <2>2, <3>1
    <3> QED
      BY <1>10, <3>2
  <2> QED
    BY <2>1, <2>2
<1>19. \A i \in from .. p.r : \A j \in p.r + 1 .. to : Time(p.a, i) <= Time(p.a, j)
  <2> SUFFICES ASSUME NEW i \in from .. p.r, NEW j \in p.r + 1 .. to
               PROVE  Time(b, i) <= Time(b, j)
    BY <1>14
  <2>1. Time(b, i) <= m /\ Time(b, j) >= m
    BY <1>17, <1>18
  <2>2. Time(b, i) \in Nat /\ Time(b, j) \in Nat
    BY <1>12, <1>16
  <2> QED
    BY <1>6, <2>1, <2>2
<1>20. ASSUME p.r = from - 1
       PROVE  /\ Turned(a, b, from, to)
              /\ \A i \in from .. to : m <= Time(a, i)
              /\ Time(b, from) > m
  <2>1. r = from /\ Time(b, from) > m
    BY <1>10, <1>15, <1>20
  <2>2. Turned(a, b, from, to)
    <3>1. e.w = from /\ Turning(a, from, to, e) /\ b = e.a
      BY <1>8, <1>9, <1>10, <2>1
    <3>2. /\ b[from] = a[from + 1]
          /\ \A i \in from + 1 .. to : b[i] = IF i = to THEN a[from] ELSE a[i + 1]
      BY <3>1 DEF Turning
    <3>3. b[to] = a[from]
      BY <3>2
    <3>4. \A i \in from .. to - 1 : b[i] = a[i + 1]
      BY <3>2
    <3> QED
      BY <3>3, <3>4 DEF Turned
  <2>3. ASSUME NEW i \in from .. to PROVE m <= Time(a, i)
    <3>1. PICK j \in from .. to : b[j] = a[i]
      BY <1>2, <1>10, RearrangedInside
    <3>2. Time(b, j) >= m
      BY <1>18, <1>20
    <3>3. Time(b, j) = Time(a, i)
      BY <3>1 DEF Time
    <3> QED
      BY <1>6, <1>12, <3>2, <3>3
  <2> QED
    BY <2>1, <2>2, <2>3
<1>21. Parted(a, n, from, to, p)
  BY <1>1, <1>4, <1>5, <1>10, <1>14, <1>16, <1>19, <1>20 DEF Parted
<1> QED
  BY <1>13, <1>21

-----------------------------------------------------------------------------
(* The passes of quick_select.  The search is between from and to: what is *)
(* before is not younger, what is behind not older.                        *)
Split(a, n, e) == \A i \in 1 .. e : \A j \in e + 1 .. n : Time(a, i) <= Time(a, j)

NarrowStates(n) == [a : [1 .. n -> Tcbs], from : 1 .. n, to : 1 .. n]

Narrowed(a, n, k, s) ==
  /\ s \in NarrowStates(n)
  /\ s.from <= k /\ k <= s.to
  /\ Rearranged(a, s.a, n, 1, n)
  /\ Split(s.a, n, s.from - 1) /\ Split(s.a, n, s.to)

LEMMA SplitKept ==
  ASSUME NEW n \in Nat, NEW from \in 1 .. n, NEW to \in from .. n,
         NEW a, NEW b, Rearranged(a, b, n, from, to),
         NEW e \in 0 .. n, e < from \/ e >= to, Split(a, n, e)
  PROVE  Split(b, n, e)
<1>1. /\ \A i \in 1 .. n : i \notin from .. to => b[i] = a[i]
      /\ \A i \in from .. to : \E j \in from .. to : b[i] = a[j]
  <2>1. to \in 1 .. n
    OBVIOUS
  <2> QED
    BY <2>1, RearrangedInside
<1>2. ASSUME NEW i \in 1 .. e PROVE \E j \in 1 .. e : b[i] = a[j]
  <2>1. CASE i \in from .. to
    <3>1. PICK j \in from .. to : b[i] = a[j]
      BY <1>1, <2>1
    <3>2. j \in 1 .. e
      BY <2>1
    <3> QED
      BY <3>1, <3>2
  <2>2. CASE i \notin from .. to
    BY <1>1, <2>2
  <2> QED
    BY <2>1, <2>2
<1>3. ASSUME NEW i \in e + 1 .. n PROVE \E j \in e + 1 .. n : b[i] = a[j]
  <2>1. CASE i \in from .. to
    <3>1. PICK j \in from .. to : b[i] = a[j]
      BY <1>1, <2>1
    <3>2. j \in e + 1 .. n
      BY <2>1
    <3> QED
      BY <3>1, <3>2
  <2>2. CASE i \notin from .. to
    <3>1. i \in 1 .. n
      OBVIOUS
    <3> QED
      BY <1>1, <2>2, <3>1
  <2> QED
    BY <2>1, <2>2
<1> SUFFICES ASSUME NEW i \in 1 .. e, NEW j \in e + 1 .. n
             PROVE  Time(b, i) <= Time(b, j)
  BY DEF Split
<1>4. PICK x \in 1 .. e : b[i] = a[x]
  BY <1>2
<1>5. PICK y \in e + 1 .. n : b[j] = a[y]
  BY <1>3
<1>6. Time(a, x) <= Time(a, y)
  BY DEF Split
<1> QED
  BY <1>4, <1>5, <1>6 DEF Time

LEMMA SplitAtPass ==
  ASSUME NEW n \in Nat, NEW from \in 1 .. n, NEW to \in from .. n,
         NEW a, NEW p, Parted(a, n, from, to, p),
         Split(a, n, from - 1), Split(a, n, to)
  PROVE  /\ Split(p.a, n, from - 1) /\ Split(p.a, n, to)
         /\ Split(p.a, n, p.r)
<1>1. PICK b, r : b = p.a /\ r = p.r
  OBVIOUS
<1>2. /\ Rearranged(a, b, n, from, to) /\ r \in from - 1 .. to - 1
      /\ \A i \in from .. r : \A j \in r + 1 .. to : Time(b, i) <= Time(b, j)
  BY <1>1 DEF Parted
<1>3. PICK below \in 0 .. n : below = from - 1
  OBVIOUS
<1>4. Split(b, n, below)
  BY <1>2, <1>3, SplitKept
<1>5. PICK all \in 0 .. n : all = to
  OBVIOUS
<1>6. Split(b, n, all)
  BY <1>2, <1>5, SplitKept
<1>7. Split(b, n, r)
  <2> SUFFICES ASSUME NEW i \in 1 .. r, NEW j \in r + 1 .. n
               PROVE  Time(b, i) <= Time(b, j)
    BY DEF Split
  <2>1. CASE i < from
    <3>1. i \in 1 .. below /\ j \in below + 1 .. n
      BY <1>2, <1>3, <2>1
    <3> QED
      BY <1>4, <3>1 DEF Split
  <2>2. CASE j > to
    <3>1. i \in 1 .. all /\ j \in all + 1 .. n
      BY <1>2, <1>5, <2>2
    <3> QED
      BY <1>6, <3>1 DEF Split
  <2>3. CASE ~(i < from) /\ ~(j > to)
    <3>1. i \in from .. r /\ j \in r + 1 .. to
      BY <1>2, <2>3
    <3> QED
      BY <1>2, <3>1
  <2> QED
    BY <2>1, <2>2, <2>3
<1> QED
  BY <1>1, <1>3, <1>4, <1>5, <1>6, <1>7

Middle(s) == (s.from + s.to) \div 2

(* A pass that leaves as much to search as before has turned the array.    *)
Turns(s, t) ==
  /\ t.from = s.from /\ t.to = s.to
  /\ Turned(s.a, t.a, s.from, s.to)
  /\ \A i \in s.from .. s.to : Time(s.a, Middle(s)) <= Time(s.a, i)
  /\ Time(t.a, s.from) > Time(s.a, Middle(s))

LEMMA NarrowStepKeeps ==
  ASSUME Timed, NEW n \in Nat, NEW k \in 1 .. n, NEW a \in Arrays(n),
         NEW s, Narrowed(a, n, k, s), s.from < s.to
  PROVE  /\ Narrowed(a, n, k, NarrowStep(s, k))
         /\ \/ NarrowStep(s, k).to - NarrowStep(s, k).from < s.to - s.from
            \/ Turns(s, NarrowStep(s, k))
<1>1. PICK b, from, to : b = s.a /\ from = s.from /\ to = s.to
  OBVIOUS
<1>2. /\ b \in Arrays(n) /\ from \in 1 .. n /\ to \in from .. n /\ to \in 1 .. n
      /\ from < to /\ k \in from .. to
      /\ Rearranged(a, b, n, 1, n)
      /\ Split(b, n, from - 1) /\ Split(b, n, to)
  BY <1>1 DEF Narrowed, NarrowStates, Arrays
<1>3. PICK p : p = Partition(b, from, to)
  OBVIOUS
<1>4. Parted(b, n, from, to, p)
  BY <1>2, <1>3, PartitionFacts
<1>5. PICK c, r : c = p.a /\ r = p.r
  OBVIOUS
<1>6. /\ c \in Arrays(n) /\ r \in from - 1 .. to - 1
      /\ Rearranged(b, c, n, from, to)
      /\ r = from - 1 =>
           /\ Turned(b, c, from, to)
           /\ \A i \in from .. to : Time(b, (from + to) \div 2) <= Time(b, i)
           /\ Time(c, from) > Time(b, (from + to) \div 2)
  BY <1>4, <1>5 DEF Parted
<1>7. Split(c, n, from - 1) /\ Split(c, n, to) /\ Split(c, n, r)
  BY <1>2, <1>4, <1>5, SplitAtPass
<1>8. Rearranged(a, c, n, 1, n)
  <2>1. PICK lo \in 1 .. n, hi \in 1 .. n : lo = 1 /\ hi = n
    BY <1>2
  <2>2. Rearranged(b, c, n, lo, hi)
    BY <1>2, <1>6, <2>1, RearrangedWider
  <2>3. Rearranged(a, c, n, lo, hi)
    BY <1>2, <2>1, <2>2, RearrangedTwice
  <2> QED
    BY <2>1, <2>3
<1>9. PICK t : t = NarrowStep(s, k)
  OBVIOUS
<1>10. t = IF k <= r THEN [a |-> c, from |-> from, to |-> r]
           ELSE [a |-> c, from |-> r + 1, to |-> to]
  BY <1>1, <1>3, <1>5, <1>9 DEF NarrowStep
<1>11. CASE k <= r
  <2>1. t.a = c /\ t.from = from /\ t.to = r
    BY <1>10, <1>11
  <2>2. t \in NarrowStates(n) /\ r < to
    BY <1>2, <1>6, <1>10, <1>11 DEF NarrowStates, Arrays
  <2>3. Narrowed(a, n, k, t)
    BY <1>2, <1>7, <1>8, <1>11, <2>1, <2>2 DEF Narrowed
  <2> QED
    BY <1>1, <1>2, <1>6, <1>9, <2>1, <2>2, <2>3
<1>12. CASE ~(k <= r)
  <2>1. t.a = c /\ t.from = r + 1 /\ t.to = to
    BY <1>10, <1>12
  <2>2. t \in NarrowStates(n) /\ r + 1 <= k
    BY <1>2, <1>6, <1>10, <1>12 DEF NarrowStates, Arrays
  <2>3. Split(t.a, n, t.from - 1)
    <3>1. t.from - 1 = r
      BY <1>6, <2>1
    <3> QED
      BY <1>7, <2>1, <3>1
  <2>4. Narrowed(a, n, k, t)
    BY <1>2, <1>7, <1>8, <2>1, <2>2, <2>3 DEF Narrowed
  <2>5. CASE r = from - 1
    <3>1. t.from = from
      BY <1>2, <2>1, <2>5
    <3>2. Turns(s, t)
      BY <1>1, <1>6, <2>1, <2>5, <3>1 DEF Turns, Middle
    <3> QED
      BY <1>9, <2>4, <3>2
  <2>6. CASE r # from - 1
    BY <1>1, <1>2, <1>6, <1>9, <2>1, <2>4, <2>6
  <2> QED
    BY <2>5, <2>6
<1> QED
  BY <1>11, <1>12

(* Turning comes to an end: a value that is above the least one moves      *)
(* towards the middle, and a pass that starts with it there does not turn. *)
Above(s, e) ==
  /\ e \in s.from .. s.to
  /\ \E i \in s.from .. s.to : Time(s.a, i) < Time(s.a, e)

Distance(s, e) == IF e >= Middle(s) THEN e - Middle(s)
                  ELSE e - Middle(s) + (s.to - s.from + 1)

LEMMA TurnedAt ==
  ASSUME NEW from \in Nat, NEW to \in Nat, from < to, NEW a, NEW b,
         Turned(a, b, from, to), NEW i \in from .. to
  PROVE  b[IF i = from THEN to ELSE i - 1] = a[i]
<1>1. CASE i = from
  BY <1>1 DEF Turned
<1>2. CASE i # from
  <2>1. i - 1 \in from .. to - 1 /\ (i - 1) + 1 = i
    BY <1>2
  <2> QED
    BY <1>2, <2>1 DEF Turned
<1> QED
  BY <1>1, <1>2

LEMMA TurnCloser ==
  ASSUME Timed, NEW n \in Nat, NEW s \in NarrowStates(n), NEW t,
         s.from < s.to, Turns(s, t), NEW e, Above(s, e)
  PROVE  /\ Distance(s, e) \in Nat
         /\ \E d : Above(t, d) /\ Distance(t, d) = Distance(s, e) - 1
<1>1. PICK from, to, c : from = s.from /\ to = s.to /\ c = Middle(s)
  OBVIOUS
<1>2. /\ from \in 1 .. n /\ to \in 1 .. n /\ from < to /\ s.a \in Arrays(n)
      /\ e \in from .. to
  BY <1>1 DEF NarrowStates, Arrays, Above
<1>3. c \in from .. to - 1
  BY <1>1, <1>2, MiddleIsBefore DEF Middle
<1>4. t.from = from /\ t.to = to /\ Middle(t) = c
  BY <1>1 DEF Turns, Middle
<1>5. \A i \in from .. to : Time(s.a, i) \in Nat
  BY <1>2, TimeIsNat
<1>6. e # c
  <2> SUFFICES ASSUME e = c PROVE FALSE
    OBVIOUS
  <2>1. PICK i \in from .. to : Time(s.a, i) < Time(s.a, e)
    BY <1>1 DEF Above
  <2>2. Time(s.a, c) <= Time(s.a, i)
    BY <1>1 DEF Turns
  <2> QED
    BY <1>2, <1>5, <2>1, <2>2
<1>7. PICK d : d = IF e = from THEN to ELSE e - 1
  OBVIOUS
<1>8. d \in from .. to
  BY <1>2, <1>7
<1>9. \A i \in from .. to : t.a[IF i = from THEN to ELSE i - 1] = s.a[i]
  <2>1. Turned(s.a, t.a, from, to)
    BY <1>1 DEF Turns
  <2> QED
    BY <1>2, <2>1, TurnedAt
<1>10. Above(t, d)
  <2>1. PICK i \in from .. to : Time(s.a, i) < Time(s.a, e)
    BY <1>1 DEF Above
  <2>2. PICK j : j = IF i = from THEN to ELSE i - 1
    OBVIOUS
  <2>3. j \in from .. to
    BY <1>2, <2>2
  <2>4. t.a[j] = s.a[i] /\ t.a[d] = s.a[e]
    BY <1>2, <1>7, <1>9, <2>2
  <2>5. Time(t.a, j) < Time(t.a, d)
    BY <2>1, <2>4 DEF Time
  <2> QED
    BY <1>4, <1>8, <2>3, <2>5 DEF Above
<1>11. Distance(s, e) = IF e >= c THEN e - c ELSE e - c + (to - from + 1)
  BY <1>1 DEF Distance
<1>12. Distance(t, d) = IF d >= c THEN d - c ELSE d - c + (to - from + 1)
  BY <1>4 DEF Distance
<1>13. PICK x, y : x = Distance(s, e) /\ y = Distance(t, d)
  OBVIOUS
<1>14. x \in Nat /\ y = x - 1
  BY <1>2, <1>3, <1>6, <1>7, <1>11, <1>12, <1>13
<1> QED
  BY <1>10, <1>13, <1>14

LEMMA TurnedHasAbove ==
  ASSUME NEW n \in Nat, NEW s \in NarrowStates(n), NEW t,
         s.from < s.to, Turns(s, t)
  PROVE  Above(t, t.from)
<1>1. PICK from, to, c : from = s.from /\ to = s.to /\ c = Middle(s)
  OBVIOUS
<1>2. from \in 1 .. n /\ to \in 1 .. n /\ from < to
  BY <1>1 DEF NarrowStates
<1>3. c \in from .. to - 1
  BY <1>1, <1>2, MiddleIsBefore DEF Middle
<1>4. t.from = from /\ t.to = to
  BY <1>1 DEF Turns
<1>5. PICK j : j = IF c = from THEN to ELSE c - 1
  OBVIOUS
<1>6. j \in from .. to
  BY <1>2, <1>3, <1>5
<1>7. t.a[j] = s.a[c]
  <2>1. Turned(s.a, t.a, from, to) /\ c \in from .. to
    BY <1>1, <1>2, <1>3 DEF Turns
  <2> QED
    BY <1>2, <1>5, <2>1, TurnedAt
<1>8. Time(t.a, from) > Time(s.a, c)
  BY <1>1 DEF Turns
<1>9. Time(t.a, j) < Time(t.a, from)
  BY <1>7, <1>8 DEF Time
<1> QED
  BY <1>2, <1>4, <1>6, <1>9 DEF Above

NarrowLoop(f, n, k) ==
  f = [s \in NarrowStates(n) |->
         IF s.from >= s.to THEN s.a[k] ELSE f[NarrowStep(s, k)]]

(* What quick_select is to find: with the array in some order, the value   *)
(* at k, none before it younger and none behind it older.                  *)
IsKth(a, n, k, v) ==
  \E b \in Arrays(n) :
    /\ Rearranged(a, b, n, 1, n)
    /\ v = b[k]
    /\ \A i \in 1 .. k : Time(b, i) <= Time(b, k)
    /\ \A i \in k .. n : Time(b, k) <= Time(b, i)

LEMMA NarrowLoopExists ==
  ASSUME Timed, NEW n \in Nat, NEW k \in 1 .. n
  PROVE  \E f : NarrowLoop(f, n, k)
<1>1. PICK D : D = NarrowStates(n)
  OBVIOUS
<1>2. PICK B : B = {s \in D : s.from >= s.to}
  OBVIOUS
<1>3. PICK V : V = [s \in D |-> s.a[k]]
  OBVIOUS
<1>4. PICK H : H = [s \in D |-> NarrowStep(s, k)]
  OBVIOUS
<1>5. ASSUME NEW s \in D, s \notin B PROVE H[s] \in D
  <2>1. PICK b, from, to : b = s.a /\ from = s.from /\ to = s.to
    OBVIOUS
  <2>2. /\ b \in Arrays(n) /\ from \in 1 .. n /\ to \in from .. n /\ from < to
        /\ to \in 1 .. n
    BY <1>1, <1>2, <1>5, <2>1 DEF NarrowStates, Arrays
  <2>3. PICK p : p = Partition(b, from, to)
    OBVIOUS
  <2>4. p.a \in Arrays(n) /\ p.r \in from - 1 .. to - 1
    BY <2>2, <2>3, PartitionFacts DEF Parted
  <2>5. NarrowStep(s, k) = IF k <= p.r
                             THEN [a |-> p.a, from |-> from, to |-> p.r]
                             ELSE [a |-> p.a, from |-> p.r + 1, to |-> to]
    BY <2>1, <2>3 DEF NarrowStep
  <2>6. CASE k <= p.r
    <3>1. p.r \in 1 .. n
      BY <2>2, <2>4, <2>6
    <3> QED
      BY <1>1, <1>4, <2>2, <2>4, <2>5, <2>6, <3>1 DEF NarrowStates, Arrays
  <2>7. CASE ~(k <= p.r)
    <3>1. p.r + 1 \in 1 .. n
      BY <2>2, <2>4
    <3> QED
      BY <1>1, <1>4, <2>2, <2>4, <2>5, <2>7, <3>1 DEF NarrowStates, Arrays
  <2> QED
    BY <2>6, <2>7
<1>6. PICK f : f = [s \in D |-> IF s \in B THEN V[s] ELSE f[H[s]]]
  <2>1. \A s \in D : s \notin B => H[s] \in D
    BY <1>5
  <2>2. \E f : Loops(f, D, B, V, H)
    BY <2>1, LoopExists
  <2> QED
    BY <2>2, Zenon DEF Loops
<1>7. \A s \in D : /\ s \in B <=> s.from >= s.to
                   /\ V[s] = s.a[k] /\ H[s] = NarrowStep(s, k)
  BY <1>2, <1>3, <1>4
<1>8. f = [s \in D |-> IF s.from >= s.to THEN s.a[k] ELSE f[NarrowStep(s, k)]]
  BY <1>6, <1>7
<1>9. NarrowLoop(f, n, k)
  BY <1>1, <1>8 DEF NarrowLoop
<1> QED
  BY <1>9

LEMMA NarrowEnds ==
  ASSUME Timed, NEW n \in Nat, NEW k \in 1 .. n, NEW a \in Arrays(n),
         NEW f, NarrowLoop(f, n, k), NEW s0, Narrowed(a, n, k, s0)
  PROVE  IsKth(a, n, k, f[s0])
<1> DEFINE Wrong(s) == Narrowed(a, n, k, s) /\ ~IsKth(a, n, k, f[s])
           Lengths == {d \in Nat : \E s : Wrong(s) /\ d = s.to - s.from}
<1>1. ASSUME NEW s, Narrowed(a, n, k, s)
      PROVE  /\ s \in NarrowStates(n)
             /\ s.from \in Nat /\ s.to \in Nat /\ s.from <= s.to
             /\ f[s] = IF s.from >= s.to THEN s.a[k] ELSE f[NarrowStep(s, k)]
  <2>1. s \in NarrowStates(n) /\ s.from <= k /\ k <= s.to
    BY <1>1 DEF Narrowed
  <2>2. f[s] = IF s.from >= s.to THEN s.a[k] ELSE f[NarrowStep(s, k)]
    BY <2>1, Zenon DEF NarrowLoop
  <2>3. s.from \in 1 .. n /\ s.to \in 1 .. n
    BY <2>1 DEF NarrowStates
  <2> QED
    BY <2>1, <2>2, <2>3
<1>2. ASSUME NEW s, Narrowed(a, n, k, s), s.from >= s.to
      PROVE  IsKth(a, n, k, f[s])
  <2>1. f[s] = s.a[k] /\ s.from = k /\ s.to = k
    BY <1>1, <1>2 DEF Narrowed
  <2>2. PICK b : b = s.a
    OBVIOUS
  <2>3. b \in Arrays(n) /\ Rearranged(a, b, n, 1, n)
    BY <1>1, <1>2, <2>2 DEF Narrowed, NarrowStates, Arrays
  <2>4. Split(b, n, k - 1) /\ Split(b, n, k)
    BY <1>2, <2>1, <2>2 DEF Narrowed
  <2>5. \A i \in 1 .. n : Time(b, i) \in Nat
    BY <2>3, TimeIsNat
  <2>6. ASSUME NEW i \in 1 .. k PROVE Time(b, i) <= Time(b, k)
    <3>1. CASE i = k
      BY <2>5, <3>1
    <3>2. CASE i # k
      <4>1. i \in 1 .. k - 1 /\ k \in k - 1 + 1 .. n
        BY <3>2
      <4> QED
        BY <2>4, <4>1 DEF Split
    <3> QED
      BY <3>1, <3>2
  <2>7. ASSUME NEW i \in k .. n PROVE Time(b, k) <= Time(b, i)
    <3>1. CASE i = k
      BY <2>5, <3>1
    <3>2. CASE i # k
      <4>1. i \in k + 1 .. n /\ k \in 1 .. k
        BY <3>2
      <4> QED
        BY <2>4, <4>1 DEF Split
    <3> QED
      BY <3>1, <3>2
  <2> QED
    BY <2>1, <2>2, <2>3, <2>6, <2>7 DEF IsKth
<1>3. ASSUME NEW s, Wrong(s)
      PROVE  /\ s.from < s.to /\ s \in NarrowStates(n) /\ s.to - s.from \in Nat
             /\ Wrong(NarrowStep(s, k))
             /\ \/ NarrowStep(s, k).to - NarrowStep(s, k).from < s.to - s.from
                \/ Turns(s, NarrowStep(s, k))
  <2>1. s.from < s.to
    BY <1>1, <1>2, <1>3
  <2>2. f[s] = f[NarrowStep(s, k)]
    BY <1>1, <1>3, <2>1
  <2>3. /\ Narrowed(a, n, k, NarrowStep(s, k))
        /\ \/ NarrowStep(s, k).to - NarrowStep(s, k).from < s.to - s.from
           \/ Turns(s, NarrowStep(s, k))
    BY <1>3, <2>1, NarrowStepKeeps
  <2> QED
    BY <1>1, <1>3, <2>1, <2>2, <2>3
<1> HIDE DEF Wrong
<1> SUFFICES ASSUME Wrong(s0) PROVE FALSE
  BY DEF Wrong
<1>4. PICK len \in Lengths : \A d \in Lengths : len <= d
  <2>1. Lengths \in SUBSET Nat /\ s0.to - s0.from \in Lengths
    BY <1>3
  <2> HIDE DEF Lengths
  <2> QED
    BY <2>1, LeastExists
(* From a state of the least length every pass turns.                      *)
<1>5. ASSUME NEW s, Wrong(s), s.to - s.from = len
      PROVE  \E t : Wrong(t) /\ Turns(s, t) /\ t.to - t.from = len
  <2>1. PICK t : t = NarrowStep(s, k)
    OBVIOUS
  <2>2. Wrong(t) /\ (t.to - t.from < s.to - s.from \/ Turns(s, t))
    BY <1>3, <1>5, <2>1
  <2>3. t.to - t.from \in Lengths
    BY <1>3, <2>2
  <2>4. len <= t.to - t.from /\ t.to - t.from \in Nat /\ len \in Nat
    BY <1>3, <1>4, <2>2, <2>3
  <2>5. Turns(s, t)
    BY <1>5, <2>2, <2>4
  <2>6. t.to - t.from = len
    BY <1>5, <2>5 DEF Turns
  <2> QED
    BY <2>2, <2>5, <2>6
<1> DEFINE Distances == {d \in Nat : \E s, e : /\ Wrong(s) /\ s.to - s.from = len
                                               /\ Above(s, e) /\ d = Distance(s, e)}
<1>6. ASSUME NEW s, NEW e, Wrong(s), s.to - s.from = len, Above(s, e)
      PROVE  /\ Distance(s, e) \in Nat
             /\ \E t, d : /\ Wrong(t) /\ t.to - t.from = len
                          /\ Above(t, d) /\ Distance(t, d) = Distance(s, e) - 1
  <2>1. PICK t : Wrong(t) /\ Turns(s, t) /\ t.to - t.from = len
    BY <1>5, <1>6
  <2>2. s.from < s.to /\ s \in NarrowStates(n)
    BY <1>3, <1>6
  <2> QED
    BY <1>6, <2>1, <2>2, TurnCloser
<1>7. \E s, e : Wrong(s) /\ s.to - s.from = len /\ Above(s, e)
  <2>1. PICK s : Wrong(s) /\ s.to - s.from = len
    BY <1>4
  <2>2. PICK t : Wrong(t) /\ Turns(s, t) /\ t.to - t.from = len
    BY <1>5, <2>1
  <2>3. s.from < s.to /\ s \in NarrowStates(n)
    BY <1>3, <2>1
  <2>4. Above(t, t.from)
    BY <2>2, <2>3, TurnedHasAbove
  <2> QED
    BY <2>2, <2>4
<1>8. PICK d \in Distances : \A x \in Distances : d <= x
  <2>1. Distances \in SUBSET Nat /\ Distances # {}
    BY <1>6, <1>7
  <2> HIDE DEF Distances
  <2> QED
    BY <2>1, LeastExists
<1>9. PICK s, e : /\ Wrong(s) /\ s.to - s.from = len
                  /\ Above(s, e) /\ d = Distance(s, e)
  BY <1>8
<1>10. PICK t, c : /\ Wrong(t) /\ t.to - t.from = len
                   /\ Above(t, c) /\ Distance(t, c) = d - 1
  BY <1>6, <1>9
<1>11. Distance(t, c) \in Distances
  BY <1>6, <1>10
<1>12. d <= d - 1 /\ d \in Nat
  BY <1>8, <1>10, <1>11
<1> QED
  BY <1>12

NarrowOf(a, k) ==
  CHOOSE f : f = [s \in [a : [DOMAIN a -> Tcbs], from : DOMAIN a, to : DOMAIN a] |->
                    IF s.from >= s.to THEN s.a[k] ELSE f[NarrowStep(s, k)]]

(* quick_select ends, and returns what it is to find.                      *)
LEMMA QuickSelectFinds ==
  ASSUME Timed, NEW a \in Seq(Tcbs), NEW k \in 1 .. Len(a)
  PROVE  IsKth(a, Len(a), k, quick_select(a, k))
<1>1. PICK n \in Nat : n = Len(a)
  BY LenProperties
<1>2. DOMAIN a = 1 .. n /\ a \in Arrays(n) /\ k \in 1 .. n /\ n \in 1 .. n /\ 1 \in 1 .. n
  BY <1>1, LenProperties, SeqDef, ElementOfSeq DEF Arrays
<1>3. PICK f : f = NarrowOf(a, k)
  OBVIOUS
<1>4. NarrowLoop(f, n, k)
  <2>1. NarrowStates(n)
          = [a : [DOMAIN a -> Tcbs], from : DOMAIN a, to : DOMAIN a]
    BY <1>2 DEF NarrowStates
  <2>2. f = CHOOSE g : g = [s \in NarrowStates(n) |->
                              IF s.from >= s.to THEN s.a[k]
                              ELSE g[NarrowStep(s, k)]]
    BY <1>3, <2>1, Zenon DEF NarrowOf
  <2>3. f = CHOOSE g : NarrowLoop(g, n, k)
    BY <2>2, Zenon DEF NarrowLoop
  <2>4. \E g : NarrowLoop(g, n, k)
    BY <1>2, NarrowLoopExists
  <2> QED
    BY <2>3, <2>4, Zenon
<1>5. PICK s : s = [a |-> a, from |-> 1, to |-> Len(a)]
  OBVIOUS
<1>6. quick_select(a, k) = f[s]
  BY <1>3, <1>5, Zenon DEF quick_select, NarrowOf
<1>7. Narrowed(a, n, k, s)
  <2>1. s.a = a /\ s.from = 1 /\ s.to = n /\ s \in NarrowStates(n)
    BY <1>1, <1>2, <1>5 DEF NarrowStates, Arrays
  <2>2. Rearranged(a, a, n, 1, n)
    <3>1. PICK lo \in 1 .. n : lo = 1
      BY <1>2
    <3>2. Rearranged(a, a, n, lo, n)
      BY <1>2, RearrangedSelf
    <3> QED
      BY <3>1, <3>2
  <2>3. Split(a, n, 1 - 1) /\ Split(a, n, n)
    BY DEF Split
  <2> QED
    BY <1>2, <2>1, <2>2, <2>3 DEF Narrowed
<1>8. IsKth(a, n, k, f[s])
  BY <1>2, <1>4, <1>7, NarrowEnds
<1> QED
  BY <1>1, <1>6, <1>8

-----------------------------------------------------------------------------
(* How many are older than, and how many not younger than, what is found.  *)
AreOlder(a, n, v) == {i \in 1 .. n : Time(a, i) < v}
NotYounger(a, n, v) == {i \in 1 .. n : Time(a, i) <= v}

LEMMA SameNumber ==
  ASSUME NEW n \in Nat, NEW a, NEW b, Rearranged(a, b, n, 1, n), NEW v
  PROVE  /\ Cardinality(AreOlder(a, n, v)) = Cardinality(AreOlder(b, n, v))
         /\ Cardinality(NotYounger(a, n, v)) = Cardinality(NotYounger(b, n, v))
<1>1. PICK f : Shuffles(f, n, 1, n) /\ \A i \in 1 .. n : b[i] = a[f[i]]
  BY DEF Rearranged
<1>2. /\ f \in [1 .. n -> 1 .. n]
      /\ \A i, j \in 1 .. n : f[i] = f[j] => i = j
      /\ \A j \in 1 .. n : \E i \in 1 .. n : f[i] = j
  BY <1>1 DEF Shuffles
<1>3. IsFiniteSet(1 .. n)
  BY FS_Interval
<1>4. ASSUME NEW S \in SUBSET (1 .. n), NEW T \in SUBSET (1 .. n),
             \A i \in 1 .. n : i \in T <=> f[i] \in S
      PROVE  Cardinality(S) = Cardinality(T)
  <2>1. PICK g : g = [i \in T |-> f[i]]
    OBVIOUS
  <2>2. g \in [T -> S] /\ \A i \in T : g[i] = f[i]
    BY <1>2, <1>4, <2>1
  <2>3. \A i, j \in T : g[i] = g[j] => i = j
    BY <1>2, <2>2
  <2>4. \A j \in S : \E i \in T : g[i] = j
    BY <1>2, <1>4, <2>2
  <2>5. g \in Bijection(T, S)
    BY <2>2, <2>3, <2>4 DEF Bijection, Injection, Surjection, IsInjective
  <2>6. ExistsBijection(T, S)
    BY <2>5 DEF ExistsBijection
  <2>7. IsFiniteSet(T)
    BY <1>3, FS_Subset
  <2> QED
    BY <2>6, <2>7, FS_Bijection
<1>5. \A i \in 1 .. n : Time(b, i) = Time(a, f[i])
  BY <1>1 DEF Time
<1>6. Cardinality(AreOlder(a, n, v)) = Cardinality(AreOlder(b, n, v))
  <2>1. \A i \in 1 .. n : i \in AreOlder(b, n, v) <=> f[i] \in AreOlder(a, n, v)
    BY <1>2, <1>5 DEF AreOlder
  <2>2. /\ AreOlder(a, n, v) \in SUBSET (1 .. n)
        /\ AreOlder(b, n, v) \in SUBSET (1 .. n)
    BY DEF AreOlder
  <2> QED
    BY <1>4, <2>1, <2>2
<1>7. Cardinality(NotYounger(a, n, v)) = Cardinality(NotYounger(b, n, v))
  <2>1. \A i \in 1 .. n : i \in NotYounger(b, n, v) <=> f[i] \in NotYounger(a, n, v)
    BY <1>2, <1>5 DEF NotYounger
  <2>2. /\ NotYounger(a, n, v) \in SUBSET (1 .. n)
        /\ NotYounger(b, n, v) \in SUBSET (1 .. n)
    BY DEF NotYounger
  <2> QED
    BY <1>4, <2>1, <2>2
<1> QED
  BY <1>6, <1>7

LEMMA KthCounts ==
  ASSUME Timed, NEW n \in Nat, NEW a, NEW k \in 1 .. n, NEW t, IsKth(a, n, k, t)
  PROVE  /\ t \in Tcbs
         /\ Cardinality(AreOlder(a, n, initial_start_time[t])) < k
         /\ Cardinality(NotYounger(a, n, initial_start_time[t])) >= k
<1>1. PICK b \in Arrays(n) :
         /\ Rearranged(a, b, n, 1, n) /\ t = b[k]
         /\ \A i \in 1 .. k : Time(b, i) <= Time(b, k)
         /\ \A i \in k .. n : Time(b, k) <= Time(b, i)
  BY DEF IsKth
<1>2. PICK v : v = initial_start_time[t]
  OBVIOUS
<1>3. v = Time(b, k) /\ t \in Tcbs
  BY <1>1, <1>2 DEF Time, Arrays
<1>4. \A i \in 1 .. n : Time(b, i) \in Nat
  BY TimeIsNat
<1>5. /\ IsFiniteSet(1 .. n) /\ IsFiniteSet(1 .. k - 1) /\ IsFiniteSet(1 .. k)
      /\ Cardinality(1 .. k - 1) = k - 1 /\ Cardinality(1 .. k) = k
  <2>1. IsFiniteSet(1 .. n)
    BY FS_Interval
  <2>2. PICK e \in Int : e = k - 1
    OBVIOUS
  <2>3. IsFiniteSet(1 .. e) /\ Cardinality(1 .. e) = IF 1 > e THEN 0 ELSE e - 1 + 1
    BY FS_Interval
  <2>4. IsFiniteSet(1 .. k) /\ Cardinality(1 .. k) = IF 1 > k THEN 0 ELSE k - 1 + 1
    BY FS_Interval
  <2>5. (IF 1 > e THEN 0 ELSE e - 1 + 1) = k - 1
    BY <2>2
  <2>6. (IF 1 > k THEN 0 ELSE k - 1 + 1) = k
    OBVIOUS
  <2> QED
    BY <2>1, <2>2, <2>3, <2>4, <2>5, <2>6
<1>6. Cardinality(AreOlder(b, n, v)) < k
  <2>1. AreOlder(b, n, v) \in SUBSET (1 .. k - 1)
    <3> SUFFICES ASSUME NEW i \in 1 .. n, Time(b, i) < v PROVE i \in 1 .. k - 1
      BY DEF AreOlder
    <3>1. ~(i \in k .. n)
      BY <1>1, <1>3, <1>4
    <3> QED
      BY <3>1
  <2>2. PICK S : S = AreOlder(b, n, v)
    OBVIOUS
  <2>3. Cardinality(S) <= Cardinality(1 .. k - 1) /\ IsFiniteSet(S)
    BY <1>5, <2>1, <2>2, FS_Subset
  <2>4. Cardinality(S) \in Nat
    BY <2>3, FS_CardinalityType
  <2> QED
    BY <1>5, <2>2, <2>3, <2>4
<1>7. Cardinality(NotYounger(b, n, v)) >= k
  <2>1. PICK S : S = NotYounger(b, n, v)
    OBVIOUS
  <2>2. S \in SUBSET (1 .. n) /\ (1 .. k) \in SUBSET S
    BY <1>1, <1>3, <2>1 DEF NotYounger
  <2>3. IsFiniteSet(S)
    BY <1>5, <2>2, FS_Subset
  <2>4. Cardinality(1 .. k) <= Cardinality(S)
    BY <2>2, <2>3, FS_Subset
  <2>5. Cardinality(S) \in Nat
    BY <2>3, FS_CardinalityType
  <2> QED
    BY <1>5, <2>1, <2>4, <2>5
<1> QED
  BY <1>1, <1>2, <1>3, <1>6, <1>7, SameNumber

LEMMA InitialTimes ==
  ASSUME NEW a \in Seq(Tcbs), NEW t
  PROVE  /\ {i \in DOMAIN a : Time(a, i) < initial_start_time[t]}
              = AreOlder(a, Len(a), initial_start_time[t])
         /\ {i \in DOMAIN a : Time(a, i) <= initial_start_time[t]}
              = NotYounger(a, Len(a), initial_start_time[t])
<1>1. DOMAIN a = 1 .. Len(a)
  BY LenProperties
<1> QED
  BY <1>1, Zenon DEF AreOlder, NotYounger

LEMMA QuickSelectCounts ==
  ASSUME Timed, NEW a \in Seq(Tcbs), NEW k \in 1 .. Len(a), NEW t,
         t = quick_select(a, k)
  PROVE  /\ t \in Tcbs
         /\ Cardinality(AreOlder(a, Len(a), initial_start_time[t])) < k
         /\ Cardinality(NotYounger(a, Len(a), initial_start_time[t])) >= k
<1>1. PICK n \in Nat : n = Len(a)
  BY LenProperties
<1>2. IsKth(a, n, k, t)
  BY <1>1, QuickSelectFinds
<1> QED
  BY <1>1, <1>2, KthCounts

-----------------------------------------------------------------------------
(* The array of those to promote.                                          *)
CollectStep(f, a, pivot, old, size, i) ==
  IF i = 1 THEN <<pivot>>
  ELSE IF Len(f[i - 1]) < size /\ a[i] \in old
    THEN Append(f[i - 1], a[i])
  ELSE f[i - 1]

CollectOf(a, pivot, old, size) ==
  CHOOSE f : f = [i \in DOMAIN a |-> CollectStep(f, a, pivot, old, size, i)]

Collects(f, a, n, pivot, old, size) ==
  /\ f \in [1 .. n -> Seq(Tcbs)]
  /\ \A i \in 1 .. n : f[i] = CollectStep(f, a, pivot, old, size, i)
  /\ Collected(a, pivot, old, size) = Filled(f[n], size)

LEMMA CollectedUnfolds ==
  ASSUME NEW a \in Seq(Tcbs), NEW n \in Nat \ {0}, n = Len(a),
         NEW pivot \in Tcbs, NEW old, NEW size
  PROVE  \E f : Collects(f, a, n, pivot, old, size)
<1>1. DOMAIN a = 1 .. n /\ \A i \in 1 .. n : a[i] \in Tcbs
  BY LenProperties, ElementOfSeq
<1>2. PICK X : X = Seq(Tcbs)
  OBVIOUS
<1>3. PICK base : base = <<pivot>>
  OBVIOUS
<1>4. base \in X
  BY <1>2, <1>3
<1>5. PICK G : G = [i \in 1 .. n |->
                      [s \in X |-> IF Len(s) < size /\ a[i] \in old
                                     THEN Append(s, a[i]) ELSE s]]
  OBVIOUS
<1>6. G \in [1 .. n -> [X -> X]]
  <2>1. ASSUME NEW i \in 1 .. n, NEW s \in X
        PROVE  (IF Len(s) < size /\ a[i] \in old THEN Append(s, a[i]) ELSE s)
                 \in X
    BY <1>1, <1>2, AppendProperties
  <2> QED
    BY <1>5, <2>1
<1>7. PICK lo \in Nat : lo = 1
  OBVIOUS
<1>8. PICK f : Upward(f, lo, n, X, base, G)
  <2>1. G \in [lo .. n -> [X -> X]]
    BY <1>6, <1>7
  <2> QED
    BY <1>4, <2>1, UpwardExists
<1>9. f \in [1 .. n -> X]
  BY <1>7, <1>8 DEF Upward
<1>10. ASSUME NEW i \in 1 .. n
       PROVE  f[i] = CollectStep(f, a, pivot, old, size, i)
  <2>1. f[i] = IF i = 1 THEN base ELSE G[i][f[i - 1]]
    BY <1>7, <1>8 DEF Upward
  <2>2. CASE i = 1
    BY <1>3, <2>1, <2>2 DEF CollectStep
  <2>3. CASE i # 1
    <3>1. PICK s : s = f[i - 1]
      OBVIOUS
    <3>2. s \in X
      <4>1. i - 1 \in 1 .. n
        BY <2>3
      <4> QED
        BY <1>9, <3>1, <4>1
    <3>3. G[i][s] = IF Len(s) < size /\ a[i] \in old
                      THEN Append(s, a[i]) ELSE s
      BY <1>5, <3>2
    <3> QED
      BY <2>1, <2>3, <3>1, <3>3 DEF CollectStep
  <2> QED
    BY <2>2, <2>3
<1>11. f = [i \in 1 .. n |-> CollectStep(f, a, pivot, old, size, i)]
  BY <1>9, <1>10
<1>12. PICK g : g = CollectOf(a, pivot, old, size)
  OBVIOUS
<1>13. g = [i \in 1 .. n |-> CollectStep(g, a, pivot, old, size, i)]
  <2>1. g = CHOOSE h : h = [i \in 1 .. n |->
                              CollectStep(h, a, pivot, old, size, i)]
    BY <1>1, <1>12, Zenon DEF CollectOf
  <2> QED
    BY <1>11, <2>1, Zenon
<1>14. Collected(a, pivot, old, size) = Filled(g[n], size)
  BY <1>12, Zenon DEF Collected, CollectOf, CollectStep
<1>15. g \in [1 .. n -> X]
  <2> DEFINE Wrong == {i \in 1 .. n : g[i] \notin X}
  <2> SUFFICES Wrong = {}
    <3>1. \A i \in 1 .. n : g[i] \in X
      OBVIOUS
    <3>2. g = [i \in 1 .. n |-> g[i]]
      BY <1>13
    <3> HIDE DEF Wrong
    <3> QED
      BY <3>1, <3>2
  <2> SUFFICES ASSUME Wrong # {} PROVE FALSE
    OBVIOUS
  <2>1. PICK i \in Wrong : \A j \in Wrong : i <= j
    <3>1. Wrong \in SUBSET Nat
      OBVIOUS
    <3> HIDE DEF Wrong
    <3> QED
      BY <3>1, LeastExists
  <2>2. i \in 1 .. n /\ g[i] = CollectStep(g, a, pivot, old, size, i)
    BY <1>13
  <2>3. i # 1
    BY <1>3, <1>4, <2>2 DEF CollectStep
  <2>4. i - 1 \in 1 .. n /\ i - 1 \notin Wrong
    BY <2>1, <2>2, <2>3
  <2>5. g[i - 1] \in X /\ a[i] \in Tcbs
    BY <1>1, <2>2, <2>4
  <2>6. g[i] \in X
    <3>1. PICK s, m : s = g[i - 1] /\ m = a[i]
      OBVIOUS
    <3>2. s \in X /\ Append(s, m) \in X
      BY <1>2, <2>5, <3>1, AppendProperties
    <3> QED
      BY <2>2, <2>3, <3>1, <3>2 DEF CollectStep
  <2> QED
    BY <2>6
<1>16. \A i \in 1 .. n : g[i] = CollectStep(g, a, pivot, old, size, i)
  BY <1>13
<1> QED
  BY <1>2, <1>14, <1>15, <1>16 DEF Collects

(* The array is full once the tcbs that are old enough suffice to fill it: *)
(* the loop passes over the first scheduled one only, and the one selected *)
(* stands in the array already.                                            *)
Taken(a, old, m) == \E x \in 1 .. Len(a) : m = a[x] /\ a[x] \in old

Filling(a, size, old, v, s, i) ==
  /\ s \in Seq(Tcbs) /\ Len(s) \in 1 .. size
  /\ \A j \in 1 .. Len(s) : Taken(a, old, s[j])
  /\ Len(s) # size => Cardinality(NotYounger(a, i, v)) <= Len(s)

LEMMA NotYoungerGrows ==
  ASSUME NEW a, NEW v, NEW i \in Nat
  PROVE  /\ IsFiniteSet(NotYounger(a, i, v))
         /\ Cardinality(NotYounger(a, i, v)) \in Nat
         /\ Cardinality(NotYounger(a, i + 1, v))
              = IF Time(a, i + 1) <= v
                  THEN Cardinality(NotYounger(a, i, v)) + 1
                  ELSE Cardinality(NotYounger(a, i, v))
<1>1. PICK S, T, x : /\ S = NotYounger(a, i, v) /\ T = NotYounger(a, i + 1, v)
                     /\ x = i + 1
  OBVIOUS
<1>2. IsFiniteSet(1 .. i)
  BY FS_Interval
<1>3. S \in SUBSET (1 .. i)
  BY <1>1 DEF NotYounger
<1>4. IsFiniteSet(S) /\ Cardinality(S) \in Nat
  BY <1>2, <1>3, FS_Subset, FS_CardinalityType
<1>5. x \notin S
  BY <1>1, <1>3
<1>6. \A j : j \in 1 .. i + 1 <=> j \in 1 .. i \/ j = x
  BY <1>1
<1>7. CASE Time(a, i + 1) <= v
  <2>1. T = S \cup {x}
    BY <1>1, <1>6, <1>7 DEF NotYounger
  <2>2. Cardinality(S \cup {x}) = Cardinality(S) + 1
    BY <1>4, <1>5, FS_AddElement
  <2> QED
    BY <1>1, <1>4, <1>7, <2>1, <2>2
<1>8. CASE ~(Time(a, i + 1) <= v)
  <2>1. T = S
    BY <1>1, <1>6, <1>8 DEF NotYounger
  <2> QED
    BY <1>1, <1>4, <1>8, <2>1
<1> QED
  BY <1>7, <1>8

LEMMA FillingStep ==
  ASSUME Timed, NEW a \in Seq(Tcbs), NEW size \in Nat, NEW v \in Nat,
         NEW old, old = {m \in Tcbs : initial_start_time[m] <= v},
         NEW i \in 1 .. Len(a) - 1, NEW s, Filling(a, size, old, v, s, i),
         NEW t, t = IF Len(s) < size /\ a[i + 1] \in old
                      THEN Append(s, a[i + 1]) ELSE s
  PROVE  Filling(a, size, old, v, t, i + 1)
<1>1. /\ s \in Seq(Tcbs) /\ Len(s) \in 1 .. size
      /\ \A j \in 1 .. Len(s) : Taken(a, old, s[j])
      /\ Len(s) # size => Cardinality(NotYounger(a, i, v)) <= Len(s)
  BY DEF Filling
<1>2. PICK x \in 1 .. Len(a) : x = i + 1
  BY LenProperties
<1>3. PICK m \in Tcbs : m = a[x]
  BY ElementOfSeq
<1>4. (m \in old) <=> (Time(a, i + 1) <= v)
  BY <1>2, <1>3 DEF Time
<1>5. PICK c, d : /\ c = Cardinality(NotYounger(a, i, v))
                  /\ d = Cardinality(NotYounger(a, i + 1, v))
  OBVIOUS
<1>6. c \in Nat /\ d = IF m \in old THEN c + 1 ELSE c
  <2>1. i \in Nat
    OBVIOUS
  <2> QED
    BY <1>4, <1>5, <2>1, NotYoungerGrows
<1>7. PICK len \in Nat : len = Len(s)
  BY <1>1
<1>8. CASE len < size /\ m \in old
  <2>1. t = Append(s, m)
    BY <1>2, <1>3, <1>7, <1>8
  <2>2. /\ t \in Seq(Tcbs) /\ Len(t) = len + 1
        /\ \A j \in 1 .. len : t[j] = s[j]
        /\ t[len + 1] = m
    BY <1>1, <1>7, <2>1, AppendProperties
  <2>3. ASSUME NEW j \in 1 .. Len(t) PROVE Taken(a, old, t[j])
    <3>1. CASE j \in 1 .. len
      BY <1>1, <1>7, <2>2, <3>1
    <3>2. CASE j = len + 1
      <4>1. t[j] = m /\ m = a[x] /\ a[x] \in old
        BY <1>3, <1>8, <2>2, <3>2
      <4> QED
        BY <4>1 DEF Taken
    <3> QED
      BY <2>2, <3>1, <3>2
  <2>4. d <= Len(t)
    BY <1>1, <1>5, <1>6, <1>7, <1>8, <2>2
  <2>5. Len(t) \in 1 .. size
    BY <1>7, <1>8, <2>2
  <2> QED
    BY <1>5, <2>2, <2>3, <2>4, <2>5 DEF Filling
<1>9. CASE ~(len < size /\ m \in old)
  <2>1. t = s
    BY <1>2, <1>3, <1>7, <1>9
  <2>2. len # size => d = c
    BY <1>1, <1>6, <1>7, <1>9
  <2> QED
    BY <1>1, <1>5, <1>7, <2>1, <2>2 DEF Filling
<1> QED
  BY <1>8, <1>9

Full(b, a, old, size) ==
  /\ b \in Seq(Tcbs) /\ Len(b) = size
  /\ \A j \in 1 .. size : Taken(a, old, b[j])

LEMMA CollectedFills ==
  ASSUME Timed, NEW a \in Seq(Tcbs), NEW size \in 1 .. Len(a), NEW v \in Nat,
         NEW old, old = {m \in Tcbs : initial_start_time[m] <= v},
         NEW pivot, Taken(a, old, pivot),
         Cardinality(NotYounger(a, Len(a), v)) >= size
  PROVE  Full(Collected(a, pivot, old, size), a, old, size)
<1>1. PICK n \in Nat \ {0} : n = Len(a)
  <2>1. Len(a) \in Nat
    BY LenProperties
  <2> QED
    BY <2>1
<1>2. pivot \in Tcbs
  BY DEF Taken
<1>3. PICK f :
         /\ \A i \in 1 .. n : f[i] = CollectStep(f, a, pivot, old, size, i)
         /\ Collected(a, pivot, old, size) = Filled(f[n], size)
  <2>1. PICK f : Collects(f, a, n, pivot, old, size)
    BY <1>1, <1>2, CollectedUnfolds
  <2> QED
    BY <2>1 DEF Collects
<1> DEFINE Right(i) == Filling(a, size, old, v, f[i], i)
           Wrong == {i \in 1 .. n : ~Right(i)}
<1>4. Right(1)
  <2>1. PICK s : s = <<pivot>>
    OBVIOUS
  <2>2. f[1] = s
    <3>1. 1 \in 1 .. n
      OBVIOUS
    <3> QED
      BY <1>3, <2>1, <3>1 DEF CollectStep
  <2>3. s \in Seq(Tcbs) /\ Len(s) = 1 /\ s[1] = pivot
    BY <1>2, <2>1
  <2>4. \A j \in 1 .. Len(s) : Taken(a, old, s[j])
    BY <2>3
  <2>5. Cardinality(NotYounger(a, 1, v)) <= 1
    <3>1. PICK zero \in Nat : zero = 0
      OBVIOUS
    <3>2. NotYounger(a, zero, v) = {}
      BY <3>1 DEF NotYounger
    <3>3. Cardinality(NotYounger(a, zero, v)) = 0
      BY <3>2, FS_EmptySet
    <3>4. PICK one : one = zero + 1
      OBVIOUS
    <3>5. Cardinality(NotYounger(a, one, v)) \in {0, 1}
      BY <3>3, <3>4, NotYoungerGrows
    <3>6. one = 1
      BY <3>1, <3>4
    <3> QED
      BY <3>5, <3>6
  <2> QED
    BY <1>1, <2>2, <2>3, <2>4, <2>5 DEF Filling
<1>5. ASSUME NEW i \in 1 .. n, i # n, Right(i) PROVE Right(i + 1)
  <2>1. PICK x \in 1 .. n : x = i + 1
    BY <1>5
  <2>2. f[x] = CollectStep(f, a, pivot, old, size, x)
    BY <1>3
  <2>3. PICK s : s = f[i]
    OBVIOUS
  <2>4. x - 1 = i /\ x # 1
    BY <2>1
  <2>5. f[x] = IF Len(s) < size /\ a[i + 1] \in old
                 THEN Append(s, a[i + 1]) ELSE s
    BY <2>1, <2>2, <2>3, <2>4 DEF CollectStep
  <2>6. PICK t : t = f[x]
    OBVIOUS
  <2>7. i \in 1 .. Len(a) - 1 /\ size \in Nat
    BY <1>1, <1>5
  <2>8. Filling(a, size, old, v, t, i + 1)
    BY <1>5, <2>3, <2>5, <2>6, <2>7, FillingStep
  <2> QED
    BY <2>1, <2>6, <2>8
<1>6. Wrong = {}
  <2> HIDE DEF Right
  <2> SUFFICES ASSUME Wrong # {} PROVE FALSE
    OBVIOUS
  <2>1. PICK i \in Wrong : \A j \in Wrong : i <= j
    <3>1. Wrong \in SUBSET Nat
      OBVIOUS
    <3> HIDE DEF Wrong
    <3> QED
      BY <3>1, LeastExists
  <2>2. i \in 1 .. n /\ ~Right(i) /\ i # 1
    BY <1>4
  <2>3. PICK j \in 1 .. n : j = i - 1 /\ j # n
    BY <2>2
  <2>4. Right(j)
    BY <2>1, <2>2, <2>3
  <2>5. Right(j + 1) /\ j + 1 = i
    BY <1>5, <2>2, <2>3, <2>4
  <2> QED
    BY <2>2, <2>5
<1>7. PICK s : s = f[n]
  OBVIOUS
<1>8. Filling(a, size, old, v, s, n)
  <2>1. n \in 1 .. n
    OBVIOUS
  <2> QED
    BY <1>6, <1>7, <2>1
<1>9. Len(s) = size /\ s \in Seq(Tcbs) /\ \A j \in 1 .. size : Taken(a, old, s[j])
  <2>1. PICK c : c = Cardinality(NotYounger(a, n, v))
    OBVIOUS
  <2>2. c \in Nat /\ c >= size
    BY <1>1, <2>1, NotYoungerGrows
  <2>3. /\ s \in Seq(Tcbs) /\ Len(s) \in 1 .. size
        /\ \A j \in 1 .. Len(s) : Taken(a, old, s[j])
        /\ Len(s) # size => c <= Len(s)
    BY <1>8, <2>1 DEF Filling
  <2>4. Len(s) = size
    BY <2>2, <2>3
  <2> QED
    BY <2>3, <2>4
<1>10. Filled(s, size) = s
  <2>1. s = [j \in 1 .. size |-> s[j]]
    BY <1>9, SeqDef, LenProperties
  <2>2. Filled(s, size) = [j \in 1 .. size |-> s[j]]
    BY <1>9 DEF Filled
  <2> QED
    BY <2>1, <2>2
<1> QED
  BY <1>3, <1>7, <1>9, <1>10 DEF Full

LEMMA SizeInRange ==
  ASSUME NEW n \in Nat \ {0}
  PROVE  oldest_tcb_array_size(n) \in 1 .. n
<1>1. PICK product : product = OLDEST_PERCENT * n
  OBVIOUS
<1>2. product \in 1 .. 100 * n
  <2>1. OLDEST_PERCENT \in 1 .. 100
    BY MaintenanceAssumption
  <2> QED
    BY <1>1, <2>1, SMTT(30)
<1>3. (product + 99) \div 100 \in 1 .. n
  BY <1>2, SMTT(30)
<1> QED
  BY <1>1, <1>3 DEF oldest_tcb_array_size

(* Those to promote are in the array, and fewer tcbs than are promoted are *)
(* older than any of them.                                                 *)
Promoted(a, b) ==
  /\ b \in Seq(Tcbs) /\ Len(b) \in 1 .. Len(a)
  /\ \A j \in 1 .. Len(b) :
       /\ \E x \in 1 .. Len(a) : b[j] = a[x]
       /\ Cardinality(AreOlder(a, Len(a), initial_start_time[b[j]])) < Len(b)

LEMMA OldestIsPromoted ==
  ASSUME Timed, NEW a \in Seq(Tcbs), a # <<>>
  PROVE  Promoted(a, Oldest(a))
<1>1. PICK n \in Nat \ {0} : n = Len(a)
  <2>1. Len(a) \in Nat /\ Len(a) # 0
    BY LenProperties, EmptySeq
  <2> QED
    BY <2>1
<1>2. PICK size \in 1 .. n : size = oldest_tcb_array_size(n)
  BY SizeInRange
<1>3. PICK pivot : pivot = quick_select(a, size)
  OBVIOUS
<1>4. PICK v : v = initial_start_time[pivot]
  OBVIOUS
<1>5. /\ pivot \in Tcbs
      /\ Cardinality(AreOlder(a, n, v)) < size
      /\ Cardinality(NotYounger(a, n, v)) >= size
  BY <1>1, <1>3, <1>4, QuickSelectCounts
<1>6. v \in Nat /\ \A m \in Tcbs : initial_start_time[m] \in Nat
  BY <1>4, <1>5, MaintenanceAssumption DEF Timed
<1>7. PICK old : old = {m \in Tcbs : initial_start_time[m] <= v}
  OBVIOUS
<1>8. PICK b : b = Collected(a, pivot, old, size)
  OBVIOUS
<1>9. Oldest(a) = b
  BY <1>1, <1>2, <1>3, <1>4, <1>7, <1>8, Zenon DEF Oldest
<1>10. Taken(a, old, pivot)
  <2>1. IsKth(a, n, size, pivot)
    BY <1>1, <1>3, QuickSelectFinds
  <2>2. PICK c \in Arrays(n) : Rearranged(a, c, n, 1, n) /\ pivot = c[size]
    BY <2>1 DEF IsKth
  <2>3. PICK x \in 1 .. n : c[size] = a[x]
    BY <2>2 DEF Rearranged, Shuffles
  <2>4. pivot \in old
    BY <1>4, <1>5, <1>6, <1>7
  <2> QED
    BY <1>1, <2>2, <2>3, <2>4 DEF Taken
<1>11. /\ b \in Seq(Tcbs) /\ Len(b) = size
       /\ \A j \in 1 .. size : Taken(a, old, b[j])
  <2>1. /\ size \in 1 .. Len(a)
        /\ Cardinality(NotYounger(a, Len(a), v)) >= size
    BY <1>1, <1>5
  <2>2. Full(b, a, old, size)
    BY <1>6, <1>7, <1>8, <1>10, <2>1, CollectedFills
  <2> QED
    BY <2>2 DEF Full
<1>12. ASSUME NEW j \in 1 .. size
       PROVE  /\ \E x \in 1 .. n : b[j] = a[x]
              /\ Cardinality(AreOlder(a, n, initial_start_time[b[j]])) < size
  <2>1. PICK x \in 1 .. n : b[j] = a[x] /\ b[j] \in old
    BY <1>1, <1>11 DEF Taken
  <2>2. PICK u : u = initial_start_time[b[j]]
    OBVIOUS
  <2>3. u \in Nat /\ u <= v
    BY <1>6, <1>7, <2>1, <2>2
  <2>4. \A i \in 1 .. n : Time(a, i) \in Nat
    BY <1>1, <1>6, ElementOfSeq DEF Time
  <2>5. PICK S, T : S = AreOlder(a, n, u) /\ T = AreOlder(a, n, v)
    OBVIOUS
  <2>6. S \in SUBSET T /\ T \in SUBSET (1 .. n)
    BY <1>6, <2>3, <2>4, <2>5 DEF AreOlder
  <2>7. IsFiniteSet(1 .. n)
    BY FS_Interval
  <2>8. IsFiniteSet(T)
    BY <2>6, <2>7, FS_Subset
  <2>9. IsFiniteSet(S) /\ Cardinality(S) <= Cardinality(T)
    BY <2>6, <2>8, FS_Subset
  <2>10. Cardinality(S) \in Nat /\ Cardinality(T) \in Nat
    BY <2>8, <2>9, FS_CardinalityType
  <2>11. Cardinality(S) < size
    BY <1>5, <2>5, <2>9, <2>10
  <2> QED
    BY <2>1, <2>2, <2>5, <2>11
<1> QED
  BY <1>1, <1>9, <1>11, <1>12 DEF Promoted

-----------------------------------------------------------------------------
(* Theorems about the selection.                                           *)
RestOK ==
  /\ Timed
  /\ oldest_tcb_array \in Seq(Tcbs)
  /\ calls \in 0 .. MaxCalls
  /\ process \in {"alive", "crashed"}

LEMMA RestOKHolds == Spec => []RestOK
<1>1. Init => RestOK
  BY MaintenanceAssumption DEF Init, RestOK, Timed
<1>2. ListInvariant /\ RestOK /\ [Next]_vars => RestOK'
  <2> SUFFICES ASSUME ListInvariant, RestOK, [Next]_vars PROVE RestOK'
    OBVIOUS
  <2>1. CASE scheduler_maintenance
    <3>1. PICK s : Holds(queues, s)
      BY DEF ListInvariant, Listed
    <3>2. fold_mlpq_to_array(queues) = s /\ s \in Seq(Tcbs)
      BY <3>1, ArrayOfHeld DEF Holds
    <3>3. s # <<>> /\ oldest_tcb_array' = Oldest(s)
      BY <2>1, <3>2, Zenon DEF scheduler_maintenance
    <3>4. Promoted(s, Oldest(s))
      BY <3>2, <3>3, OldestIsPromoted DEF RestOK
    <3>5. oldest_tcb_array' \in Seq(Tcbs)
      BY <3>3, <3>4 DEF Promoted
    <3>6. calls' \in 0 .. MaxCalls
      BY <2>1, MaintenanceAssumption DEF scheduler_maintenance, RestOK
    <3> QED
      BY <2>1, <3>5, <3>6 DEF scheduler_maintenance, RestOK, Timed
  <2>2. CASE ChangePriorityRemoves
    <3>1. \/ UNCHANGED <<initial_start_time, oldest_tcb_array, calls>>
             /\ process' = "crashed"
          \/ oldest_tcb_array' = Tail(oldest_tcb_array)
             /\ UNCHANGED <<initial_start_time, calls, process>>
      BY <2>2, Zenon DEF ChangePriorityRemoves, Crash
    <3>2. oldest_tcb_array # <<>>
      BY <2>2 DEF ChangePriorityRemoves
    <3>3. oldest_tcb_array \in Seq(Tcbs)
      BY DEF RestOK
    <3>4. Tail(oldest_tcb_array) \in Seq(Tcbs)
      BY <3>2, <3>3, HeadTailProperties
    <3> QED
      BY <3>1, <3>4 DEF RestOK, Timed
  <2>3. CASE ChangePrioritySchedules
    BY <2>3 DEF ChangePrioritySchedules, RestOK, Timed
  <2>4. CASE \E n \in Tcbs : delete_tcb(n)
    <3>1. PICK n \in Tcbs : delete_tcb(n)
      BY <2>4
    <3>2. CASE Scheduled(queues, n)
      BY <3>1, <3>2, MaintenanceAssumption DEF delete_tcb, RestOK, Timed
    <3>3. CASE ~Scheduled(queues, n)
      BY <3>1, <3>3 DEF delete_tcb, Crash, RestOK, Timed
    <3> QED
      BY <3>2, <3>3
  <2>5. CASE Tick
    BY <2>5 DEF Tick, Crash, RestOK, Timed
  <2>6. CASE UNCHANGED vars
    BY <2>6 DEF vars, RestOK, Timed
  <2> QED
    BY <2>1, <2>2, <2>3, <2>4, <2>5, <2>6 DEF Next
<1> QED
  BY <1>1, <1>2, ListInvariantHolds, PTL DEF Spec

(* Every value that scheduler_maintenance reads from the array it filled   *)
(* (my_pthread.c:494-512) is a tcb, and no link leads elsewhere.           *)
THEOREM TypeCorrect == Spec => []TypeOK
<1>1. ListInvariant /\ RestOK => TypeOK
  <2> SUFFICES ASSUME ListInvariant, RestOK PROVE TypeOK
    OBVIOUS
  <2>1. queues \in Queues /\ tcb_node \in Pointers
    BY DEF ListInvariant, Listed, Holds
  <2> QED
    BY <2>1 DEF TypeOK, RestOK, Timed, Queues
<1> QED
  BY <1>1, ListInvariantHolds, RestOKHolds, PTL

(* quick_select (my_pthread.c:220-263) ends on every array and selects the *)
(* value it is asked for.                                                  *)
THEOREM SelectsKthHolds == Spec => []SelectsKth
<1>1. ListInvariant /\ RestOK => SelectsKth
  <2> SUFFICES ASSUME ListInvariant, RestOK PROVE SelectsKth
    OBVIOUS
  <2>1. PICK s : Holds(queues, s)
    BY DEF ListInvariant, Listed
  <2>2. fold_mlpq_to_array(queues) = s /\ s \in Seq(Tcbs)
    BY <2>1, ArrayOfHeld DEF Holds
  <2>3. DOMAIN s = 1 .. Len(s) /\ Timed
    BY <2>2, LenProperties DEF RestOK
  <2>4. ASSUME NEW k \in DOMAIN s
        PROVE  LET picked == initial_start_time[quick_select(s, k)] IN
                 /\ Cardinality({i \in DOMAIN s : Time(s, i) < picked}) < k
                 /\ Cardinality({i \in DOMAIN s : Time(s, i) <= picked}) >= k
    <3>1. PICK t : t = quick_select(s, k)
      OBVIOUS
    <3>2. k \in 1 .. Len(s)
      BY <2>3
    <3>3. /\ Cardinality(AreOlder(s, Len(s), initial_start_time[t])) < k
          /\ Cardinality(NotYounger(s, Len(s), initial_start_time[t])) >= k
      BY <2>2, <2>3, <3>1, <3>2, QuickSelectCounts
    <3>4. /\ Cardinality({i \in DOMAIN s : Time(s, i) < initial_start_time[t]}) < k
          /\ Cardinality({i \in DOMAIN s : Time(s, i) <= initial_start_time[t]}) >= k
      BY <2>2, <3>3, InitialTimes
    <3> QED
      BY <3>1, <3>4
  <2> QED
    BY <2>2, <2>4, Zenon DEF SelectsKth
<1> QED
  BY <1>1, ListInvariantHolds, RestOKHolds, PTL

OldestStep ==
  (calls' # calls /\ UNCHANGED queues) =>
    LET a == fold_mlpq_to_array(queues)
        Older(n) == {i \in DOMAIN a : Time(a, i) < initial_start_time[n]}
    IN \A i \in DOMAIN oldest_tcb_array' :
         LET n == oldest_tcb_array'[i]
         IN /\ Scheduled(queues, n)
            /\ Cardinality(Older(n)) < Len(oldest_tcb_array')

(* Whoever is to be promoted is scheduled and has fewer tcbs before him    *)
(* than are promoted (scheduler_maintenance, my_pthread.c:488-501).        *)
THEOREM OldestAreOldestHolds == Spec => OldestAreOldest
<1>1. ListInvariant /\ RestOK /\ [Next]_vars => OldestStep
  <2> SUFFICES ASSUME ListInvariant, RestOK, [Next]_vars,
                      calls' # calls, queues' = queues
               PROVE  \A i \in DOMAIN oldest_tcb_array' :
                        /\ Scheduled(queues, oldest_tcb_array'[i])
                        /\ Cardinality({j \in DOMAIN fold_mlpq_to_array(queues) :
                                          Time(fold_mlpq_to_array(queues), j)
                                            < initial_start_time[oldest_tcb_array'[i]]})
                             < Len(oldest_tcb_array')
    BY Zenon DEF OldestStep
  <2>1. PICK s : Listed(s)
    BY DEF ListInvariant
  <2>2. Holds(queues, s) /\ fold_mlpq_to_array(queues) = s /\ s \in Seq(Tcbs)
    BY <2>1, ArrayOfHeld DEF Listed, Holds
  <2>3. scheduler_maintenance
    <3>1. \/ scheduler_maintenance
          \/ \E n \in Tcbs : delete_tcb(n)
      BY Zenon DEF Next, vars, ChangePriorityRemoves, ChangePrioritySchedules,
                   Tick, Crash
    <3>2. ASSUME NEW n \in Tcbs, delete_tcb(n) PROVE FALSE
      <4>1. Scheduled(queues, n) /\ queues' = get_and_remove_tcb(queues, n)
        BY <3>2, Zenon DEF delete_tcb, Crash
      <4>2. PICK i \in 1 .. Len(s) : s[i] = n
        <5>1. In(n, s)
          BY <2>2, <4>1, ScheduledIsIn
        <5> QED
          BY <5>1 DEF In
      <4>3. Holds(get_and_remove_tcb(queues, s[i]), RemoveAt(s, i))
        <5>1. queues.size[0] # 0
          BY <2>1 DEF Listed
        <5> QED
          BY <2>2, <5>1, RemoveHeld
      <4>4. PICK r : r = RemoveAt(s, i)
        OBVIOUS
      <4>5. Len(r) = Len(s) - 1 /\ Len(s) \in Nat
        BY <2>2, <4>4, RemoveAtProperties, LenProperties
      <4>6. Holds(queues, r)
        BY <4>1, <4>2, <4>4, <4>3
      <4>7. r = s
        BY <2>2, <4>6, ArrayOfHeld
      <4> QED
        BY <4>5, <4>7
    <3> QED
      BY <3>1, <3>2
  <2>4. s # <<>> /\ oldest_tcb_array' = Oldest(s)
    BY <2>2, <2>3, Zenon DEF scheduler_maintenance
  <2>5. PICK b : b = oldest_tcb_array'
    OBVIOUS
  <2>6. Promoted(s, b)
    BY <2>2, <2>4, <2>5, OldestIsPromoted DEF RestOK
  <2>7. DOMAIN b = 1 .. Len(b)
    BY <2>6, LenProperties DEF Promoted
  <2>8. ASSUME NEW i \in 1 .. Len(b)
        PROVE  /\ Scheduled(queues, b[i])
               /\ Cardinality({j \in DOMAIN s :
                                 Time(s, j) < initial_start_time[b[i]]}) < Len(b)
    <3>1. PICK t : t = b[i]
      OBVIOUS
    <3>2. /\ \E x \in 1 .. Len(s) : t = s[x]
          /\ Cardinality(AreOlder(s, Len(s), initial_start_time[t])) < Len(b)
      BY <2>6, <3>1 DEF Promoted
    <3>3. In(t, s)
      BY <3>2 DEF In
    <3>4. Scheduled(queues, t)
      BY <2>2, <3>3, ScheduledIsIn
    <3>5. Cardinality({j \in DOMAIN s : Time(s, j) < initial_start_time[t]})
            < Len(b)
      BY <2>2, <3>2, InitialTimes
    <3> QED
      BY <3>1, <3>4, <3>5
  <2> QED
    BY <2>2, <2>5, <2>7, <2>8
<1>2. Spec => [][OldestStep]_vars
  <2> HIDE DEF OldestStep
  <2> QED
    BY <1>1, ListInvariantHolds, RestOKHolds, PTL DEF Spec
<1> QED
  BY <1>2, PTL DEF OldestAreOldest, OldestStep
=============================================================================
