----------------------- MODULE SchedulerPlacesProofs -----------------------
(***************************************************************************)
(* Where the tcbs are.  However lock, unlock, create and the handler       *)
(* interleave, each scheduled tcb is in exactly one place, and so the      *)
(* queues never hold more tcbs than there are.                             *)
(* With a full time slice between ticks more is known of the places, and   *)
(* from it: whom lock and the handler dequeue, who waits, what becomes of  *)
(* the result of a thread, and when a null pointer is followed.            *)
(***************************************************************************)
EXTENDS SchedulerRefinementProofs, FiniteSetTheorems

-----------------------------------------------------------------------------
(* Lemmas about queues: membership, and the absence of repetitions.        *)

Member(n, q) == \E i \in 1 .. Len(q) : q[i] = n
NoRepeats(q) == \A i, j \in 1 .. Len(q) : q[i] = q[j] => i = j

LEMMA EmptyMembers == (\A n : ~Member(n, <<>>)) /\ NoRepeats(<<>>)
BY DEF Member, NoRepeats

LEMMA AppendMembers ==
  ASSUME NEW q \in Seq(Tcbs), NEW n \in Tcbs
  PROVE  /\ \A k : Member(k, Append(q, n)) <=> Member(k, q) \/ k = n
         /\ NoRepeats(q) /\ ~Member(n, q) => NoRepeats(Append(q, n))
<1>1. /\ Append(q, n) \in Seq(Tcbs) /\ Len(Append(q, n)) = Len(q) + 1
      /\ \A i \in 1 .. Len(q) : Append(q, n)[i] = q[i]
      /\ Append(q, n)[Len(q) + 1] = n /\ Len(q) \in Nat
  BY AppendProperties
<1> DEFINE r == Append(q, n)
<1> HIDE DEF r
<1>2. /\ Len(r) = Len(q) + 1 /\ r[Len(q) + 1] = n /\ Len(q) \in Nat
      /\ \A i \in 1 .. Len(q) : r[i] = q[i]
  BY <1>1 DEF r
<1>3. \A k : Member(k, r) <=> Member(k, q) \/ k = n
  BY <1>2 DEF Member
<1>4. NoRepeats(q) /\ ~Member(n, q) => NoRepeats(r)
  BY <1>2 DEF Member, NoRepeats
<1> QED
  BY <1>3, <1>4 DEF r

LEMMA TailMembers ==
  ASSUME NEW q \in Seq(Tcbs), q # <<>>
  PROVE  /\ \A k : Member(k, q) <=> Member(k, Tail(q)) \/ k = Head(q)
         /\ NoRepeats(q) => NoRepeats(Tail(q)) /\ ~Member(Head(q), Tail(q))
<1>1. /\ Len(q) \in Nat /\ Len(q) > 0 /\ Len(Tail(q)) = Len(q) - 1
      /\ \A i \in 1 .. Len(q) - 1 : Tail(q)[i] = q[i + 1]
      /\ Head(q) = q[1]
  BY HeadTailProperties
<1> DEFINE r == Tail(q)
           h == Head(q)
<1> HIDE DEF r, h
<1>2. /\ Len(q) \in Nat /\ Len(q) > 0 /\ Len(r) = Len(q) - 1
      /\ \A i \in 1 .. Len(q) - 1 : r[i] = q[i + 1]
      /\ h = q[1]
  BY <1>1 DEF r, h
<1>3. \A k : Member(k, q) <=> Member(k, r) \/ k = h
  <2>1. ASSUME NEW k, Member(k, q) PROVE Member(k, r) \/ k = h
    <3>1. PICK i \in 1 .. Len(q) : q[i] = k
      BY <2>1 DEF Member
    <3>2. CASE i = 1
      BY <1>2, <3>1, <3>2
    <3>3. CASE i # 1
      <4>1. i - 1 \in 1 .. Len(r) /\ r[i - 1] = k
        BY <1>2, <3>1, <3>3
      <4> QED
        BY <4>1 DEF Member
    <3> QED
      BY <3>2, <3>3
  <2>2. ASSUME NEW k, Member(k, r) PROVE Member(k, q)
    <3>1. PICK i \in 1 .. Len(r) : r[i] = k
      BY <2>2 DEF Member
    <3>2. i + 1 \in 1 .. Len(q) /\ q[i + 1] = k
      BY <1>2, <3>1
    <3> QED
      BY <3>2 DEF Member
  <2>3. Member(h, q)
    BY <1>2 DEF Member
  <2> QED
    BY <2>1, <2>2, <2>3
<1>4. ASSUME NoRepeats(q) PROVE NoRepeats(r) /\ ~Member(h, r)
  <2>1. ASSUME NEW i \in 1 .. Len(r), NEW j \in 1 .. Len(r), r[i] = r[j]
        PROVE  i = j
    BY <1>2, <1>4, <2>1 DEF NoRepeats
  <2>2. ASSUME NEW i \in 1 .. Len(r) PROVE r[i] # h
    BY <1>2, <1>4, <2>2 DEF NoRepeats
  <2> QED
    BY <2>1, <2>2 DEF NoRepeats, Member
<1> QED
  BY <1>3, <1>4 DEF r, h

(* A rotation keeps the members.                                           *)
LEMMA RotatedMembers ==
  ASSUME NEW q \in Seq(Tcbs), q # <<>>
  PROVE  LET r == Append(Tail(q), Head(q))
         IN  /\ \A k : Member(k, r) <=> Member(k, q)
             /\ NoRepeats(q) => NoRepeats(r)
             /\ Len(r) = Len(q)
<1>1. /\ Head(q) \in Tcbs /\ Tail(q) \in Seq(Tcbs)
      /\ Len(Tail(q)) = Len(q) - 1 /\ Len(q) \in Nat
  BY HeadTailProperties
<1>2. Len(Append(Tail(q), Head(q))) = Len(q)
  BY <1>1, AppendProperties
<1> QED
  BY <1>1, <1>2, AppendMembers, TailMembers

(* A queue without repetitions is not longer than there are tcbs.          *)
LEMMA NoRepeatsIsShort ==
  ASSUME NEW q \in Seq(Tcbs), NoRepeats(q)
  PROVE  Len(q) <= MaxThreads + 1
<1>1. /\ MaxThreads \in Nat /\ Len(q) \in Nat
      /\ q \in [1 .. Len(q) -> Tcbs]
  BY ConstantTypes
<1>2. /\ IsFiniteSet(Tcbs) /\ Cardinality(Tcbs) = MaxThreads + 1
      /\ IsFiniteSet(1 .. Len(q)) /\ Cardinality(1 .. Len(q)) = Len(q)
  <2>1. /\ IsFiniteSet(0 .. MaxThreads)
        /\ Cardinality(0 .. MaxThreads) = MaxThreads - 0 + 1
    BY <1>1, FS_Interval
  <2>2. /\ IsFiniteSet(1 .. Len(q))
        /\ Cardinality(1 .. Len(q)) = Len(q)
    BY <1>1, FS_Interval
  <2> QED
    BY <1>1, <2>1, <2>2 DEF Tcbs
<1>3. ASSUME Len(q) > MaxThreads + 1 PROVE FALSE
  <2> DEFINE S == 1 .. Len(q)
  <2>1. /\ IsFiniteSet(Tcbs) /\ IsFiniteSet(S)
        /\ Cardinality(Tcbs) < Cardinality(S) /\ q \in [S -> Tcbs]
    BY <1>1, <1>2, <1>3
  <2> HIDE DEF S
  <2>2. \E i, j \in S : i # j /\ q[i] = q[j]
    BY <2>1, FS_PigeonHole
  <2> QED
    BY <2>2 DEF NoRepeats, S
<1> QED
  BY <1>1, <1>3

-----------------------------------------------------------------------------
(* The places of a tcb.  A thread in the middle of lock or unlock carries  *)
(* the tcb it has taken off one queue and not put on the other yet.        *)

CarryPoints == {"lock_enq", "unlock_sched"}
Queued(n) == Member(n, mlpq[0])
Waits(n, m) == Member(n, lock_wait_queue[m])
Carries(t, n) == pc[t] \in CarryPoints /\ tcb_node[t] = n

Straight ==
  NoRepeats(mlpq[0]) /\ \A m \in Mutexes : NoRepeats(lock_wait_queue[m])

QueuedOrWaits ==
  \A n \in Tcbs, m \in Mutexes : ~(Queued(n) /\ Waits(n, m))
QueuedOrCarried ==
  \A n, t \in Tcbs : ~(Queued(n) /\ Carries(t, n))
WaitsOrCarried ==
  \A n, t \in Tcbs, m \in Mutexes : ~(Waits(n, m) /\ Carries(t, n))
WaitsOnce ==
  \A n \in Tcbs, m, k \in Mutexes : Waits(n, m) /\ Waits(n, k) => m = k
CarriedOnce ==
  \A n, s, t \in Tcbs : Carries(s, n) /\ Carries(t, n) => s = t

Apart ==
  /\ QueuedOrWaits /\ QueuedOrCarried /\ WaitsOrCarried
  /\ WaitsOnce /\ CarriedOnce

Placed(n) ==
  \/ Queued(n)
  \/ \E m \in Mutexes : Waits(n, m)
  \/ \E t \in Tcbs : Carries(t, n)

(* Just the tcbs that create has scheduled are somewhere.                  *)
AllPlaced == \A n \in Tcbs : n \in Scheduler_tcbs <=> Placed(n)

(* mutex_init empties the wait queue (762): nobody may be in it.           *)
NobodyAwaitsUnused ==
  \A m \in Mutexes \ usable : \A n \in Tcbs : ~Waits(n, m)

PlacesInvariant == Straight /\ Apart /\ AllPlaced /\ NobodyAwaitsUnused

(* What the proof takes from the invariants proved before.                 *)
PlacesContext ==
  TypeInvariant /\ SingleLevel /\ FreshInvariant /\ LockInvariant

SameCarrier(s) ==
  \A n \in Tcbs : Carries(s, n)' <=> Carries(s, n)
SameQueue == UNCHANGED mlpq[0]
SameWaits == UNCHANGED lock_wait_queue

LEMMA SameMembers ==
  /\ SameQueue => /\ \A n \in Tcbs : Queued(n)' <=> Queued(n)
                  /\ NoRepeats(mlpq[0])' <=> NoRepeats(mlpq[0])
  /\ SameWaits =>
       \A m \in Mutexes :
         /\ \A n \in Tcbs : Waits(n, m)' <=> Waits(n, m)
         /\ NoRepeats(lock_wait_queue[m])' <=> NoRepeats(lock_wait_queue[m])
BY DEF SameQueue, SameWaits, Queued, Waits

LEMMA WaitQueueTypes ==
  ASSUME TypeInvariant
  PROVE  lock_wait_queue \in [Mutexes -> Seq(Tcbs)]
BY DEF TypeInvariant, TypeOK

(* A step that moves no tcb.                                               *)
PlacesKept ==
  /\ \A n \in Tcbs : Queued(n)' <=> Queued(n)
  /\ NoRepeats(mlpq[0]) => NoRepeats(mlpq[0])'
  /\ SameWaits /\ usable \subseteq usable'
  /\ \A s \in Tcbs : SameCarrier(s)
  /\ Scheduler_tcbs' = Scheduler_tcbs

LEMMA KeptPlaces ==
  ASSUME PlacesInvariant, PlacesKept
  PROVE  PlacesInvariant'
<1>1. /\ \A n \in Tcbs : Queued(n)' <=> Queued(n)
      /\ \A m \in Mutexes, n \in Tcbs : Waits(n, m)' <=> Waits(n, m)
      /\ \A s, n \in Tcbs : Carries(s, n)' <=> Carries(s, n)
      /\ usable \subseteq usable'
      /\ Scheduler_tcbs' = Scheduler_tcbs
  BY SameMembers DEF PlacesKept, SameCarrier
<1>2. Straight'
  BY SameMembers DEF PlacesInvariant, PlacesKept, Straight
<1>3. Apart'
  BY <1>1 DEF PlacesInvariant, Apart, QueuedOrWaits, QueuedOrCarried,
              WaitsOrCarried, WaitsOnce, CarriedOnce
<1>4. AllPlaced'
  BY <1>1 DEF PlacesInvariant, AllPlaced, Placed
<1>5. NobodyAwaitsUnused'
  BY <1>1 DEF PlacesInvariant, NobodyAwaitsUnused
<1> QED
  BY <1>2, <1>3, <1>4, <1>5 DEF PlacesInvariant

LEMMA ScheduledKept ==
  ASSUME PointsKept
  PROVE  Scheduler_tcbs' = Scheduler_tcbs
BY DEF PointsKept, Scheduler_tcbs

(* The threads other than the one that steps carry what they carried.      *)
LEMMA OthersCarry ==
  ASSUME NEW t \in Tcbs,
         \A s \in Tcbs \ {t} : pc'[s] = pc[s] /\ tcb_node'[s] = tcb_node[s]
  PROVE  \A s \in Tcbs \ {t}, n \in Tcbs : Carries(s, n)' <=> Carries(s, n)
BY DEF Carries

(* The caller of lock is taken off the run queue: its head is carried.     *)
LEMMA LockDequeuePlaces ==
  ASSUME PlacesContext, PlacesInvariant, NEW t \in Tcbs, LockDequeue(t)
  PROVE  PlacesInvariant'
<1> USE DEF PlacesContext
<1>1. /\ pc[t] = "lock_deq" /\ priority[t] = 0
      /\ tcb_node' = [tcb_node EXCEPT ![t] = peek(mlpq[0])]
      /\ mlpq' = [mlpq EXCEPT ![0] = dequeue(@)]
      /\ pc' = [pc EXCEPT ![t] = "lock_enq"]
      /\ SameWaits /\ usable' = usable
  BY DEF LockDequeue, At, Goto, SingleLevel, SameWaits, client
<1>2. mlpq[0] \in Seq(Tcbs) /\ mlpq'[0] = dequeue(mlpq[0])
  BY <1>1, FirstLevelType
<1>3. Scheduler_tcbs' = Scheduler_tcbs
  <2>1. ThreadStep(t) /\ ~CreateSchedule(t)
    BY <1>1 DEF ThreadStep, CreateSchedule, At
  <2> QED
    BY <2>1, ThreadStepFresh, ScheduledKept
<1>4. /\ \A s \in Tcbs \ {t}, n \in Tcbs : Carries(s, n)' <=> Carries(s, n)
      /\ \A n \in Tcbs : Carries(t, n)' <=> peek(mlpq[0]) = n
      /\ \A n \in Tcbs : ~Carries(t, n)
  <2>1. /\ \A s \in Tcbs \ {t} :
             pc'[s] = pc[s] /\ tcb_node'[s] = tcb_node[s]
        /\ pc'[t] = "lock_enq" /\ tcb_node'[t] = peek(mlpq[0])
    BY <1>1, LocalTypes
  <2> QED
    BY <1>1, <2>1, OthersCarry DEF Carries, CarryPoints
<1>5. CASE mlpq[0] = <<>>
  <2>1. peek(mlpq[0]) \notin Tcbs /\ mlpq'[0] = mlpq[0]
    BY <1>2, <1>5, ConstantTypes DEF peek, dequeue
  <2>2. PlacesKept
    BY <1>1, <1>3, <1>4, <2>1, SameMembers
       DEF PlacesKept, SameCarrier, SameQueue
  <2> QED
    BY <2>2, KeptPlaces
<1>6. CASE mlpq[0] # <<>>
  <2>1. /\ Head(mlpq[0]) \in Tcbs /\ peek(mlpq[0]) = Head(mlpq[0])
        /\ mlpq'[0] = Tail(mlpq[0])
    BY <1>2, <1>6, HeadIsTcb DEF dequeue
  <2>h. PICK h \in Tcbs : h = Head(mlpq[0])
    BY <2>1
  <2>2. /\ \A n \in Tcbs : Queued(n) <=> Queued(n)' \/ n = h
        /\ ~Queued(h)'
        /\ NoRepeats(mlpq[0])'
    <3>1. /\ \A n : Member(n, mlpq[0]) <=> Member(n, mlpq'[0]) \/ n = h
          /\ NoRepeats(mlpq'[0]) /\ ~Member(h, mlpq'[0])
      BY <1>2, <1>6, <2>1, <2>h, TailMembers DEF PlacesInvariant, Straight
    <3> QED
      BY <3>1 DEF Queued
  <2>3. /\ \A m \in Mutexes, n \in Tcbs : Waits(n, m)' <=> Waits(n, m)
        /\ \A s \in Tcbs \ {t}, n \in Tcbs : Carries(s, n)' <=> Carries(s, n)
        /\ \A n \in Tcbs : Carries(t, n)' <=> n = h
        /\ \A n \in Tcbs : ~Carries(t, n)
    BY <1>1, <1>4, <2>1, <2>h, SameMembers
  <2>4. Straight'
    BY <1>1, <2>2, SameMembers DEF PlacesInvariant, Straight
  <2>5. Apart'
    <3>1. QueuedOrWaits'
      BY <2>2, <2>3 DEF PlacesInvariant, Apart, QueuedOrWaits
    <3>2. QueuedOrCarried'
      BY <2>1, <2>2, <2>3 DEF PlacesInvariant, Apart, QueuedOrCarried
    <3>3. WaitsOrCarried'
      BY <2>1, <2>2, <2>3
         DEF PlacesInvariant, Apart, QueuedOrWaits, WaitsOrCarried
    <3>4. WaitsOnce'
      BY <2>3 DEF PlacesInvariant, Apart, WaitsOnce
    <3>5. CarriedOnce'
      BY <2>1, <2>2, <2>3
         DEF PlacesInvariant, Apart, QueuedOrCarried, CarriedOnce
    <3> QED
      BY <3>1, <3>2, <3>3, <3>4, <3>5 DEF Apart
  <2>6. AllPlaced'
    BY <1>3, <2>1, <2>2, <2>3 DEF PlacesInvariant, AllPlaced, Placed
  <2>7. NobodyAwaitsUnused'
    BY <1>1, <2>3 DEF PlacesInvariant, NobodyAwaitsUnused
  <2> QED
    BY <2>4, <2>5, <2>6, <2>7 DEF PlacesInvariant
<1> QED
  BY <1>5, <1>6

(* What lock carries joins the wait queue of the caller's mutex.           *)
LEMMA LockEnqueuePlaces ==
  ASSUME PlacesContext, PlacesInvariant, NEW t \in Tcbs, LockEnqueue(t)
  PROVE  PlacesInvariant'
<1> USE DEF PlacesContext
<1>1. pc[t] = "lock_enq" /\ usable' = usable /\ mlpq' = mlpq
  BY DEF LockEnqueue, At, Crash, client, queues
<1>2. Scheduler_tcbs' = Scheduler_tcbs
  <2>1. ThreadStep(t) /\ ~CreateSchedule(t)
    BY <1>1 DEF ThreadStep, CreateSchedule, At
  <2> QED
    BY <2>1, ThreadStepFresh, ScheduledKept
<1>3. CASE tcb_node[t] = NoTcb
  <2>1. UNCHANGED <<queues, pc, tcb_node, usable>>
    BY <1>3 DEF LockEnqueue, Crash, client
  <2>2. PlacesKept
    BY <1>2, <2>1, SameMembers
       DEF PlacesKept, queues, SameQueue, SameWaits, SameCarrier, Carries
  <2> QED
    BY <2>2, KeptPlaces
<1>4. CASE tcb_node[t] # NoTcb
  <2>0. PICK c \in Tcbs, k \in Mutexes :
          c = tcb_node[t] /\ k = mutex[t] /\ k \in usable
    BY <1>1, <1>4, LocalTypes, LockTypes
       DEF LockInvariant, MutexesAreUsable, LocalsOK, PointsWithMutex
  <2>1. /\ lock_wait_queue' = [lock_wait_queue EXCEPT ![k] = enqueue(@, c)]
        /\ tcb_node' = [tcb_node EXCEPT ![t] = NoTcb]
        /\ pc' = [pc EXCEPT ![t] = "lock_pause"]
    BY <1>4, <2>0 DEF LockEnqueue, Goto
  <2>3. /\ \A s \in Tcbs \ {t}, n \in Tcbs : Carries(s, n)' <=> Carries(s, n)
        /\ \A n \in Tcbs : ~Carries(t, n)'
        /\ \A n \in Tcbs : Carries(t, n) <=> n = c
    <3>1. /\ \A s \in Tcbs \ {t} :
               pc'[s] = pc[s] /\ tcb_node'[s] = tcb_node[s]
          /\ pc'[t] = "lock_pause"
      BY <2>1, LocalTypes
    <3> QED
      BY <1>1, <2>0, <3>1, OthersCarry DEF Carries, CarryPoints
  <2>4. /\ lock_wait_queue[k] \in Seq(Tcbs)
        /\ lock_wait_queue'[k] = Append(lock_wait_queue[k], c)
        /\ \A m \in Mutexes \ {k} : lock_wait_queue'[m] = lock_wait_queue[m]
    BY <2>1, WaitQueueTypes DEF enqueue
  <2>5. Carries(t, c) /\ \A m \in Mutexes : ~Waits(c, m)
    BY <2>3 DEF PlacesInvariant, Apart, WaitsOrCarried
  <2>6. /\ \A n \in Tcbs : Waits(n, k)' <=> Waits(n, k) \/ n = c
        /\ NoRepeats(lock_wait_queue[k])'
    <3>1. /\ \A n : Member(n, lock_wait_queue'[k])
                      <=> Member(n, lock_wait_queue[k]) \/ n = c
          /\ NoRepeats(lock_wait_queue'[k])
      BY <2>4, <2>5, AppendMembers
         DEF Waits, PlacesInvariant, Straight
    <3> QED
      BY <3>1 DEF Waits
  <2>7. \A m \in Mutexes \ {k} :
          /\ \A n \in Tcbs : Waits(n, m)' <=> Waits(n, m)
          /\ NoRepeats(lock_wait_queue[m])'
    BY <2>4 DEF Waits, PlacesInvariant, Straight
  <2>8. /\ \A n \in Tcbs : Queued(n)' <=> Queued(n)
        /\ NoRepeats(mlpq[0])'
    BY <1>1, SameMembers DEF SameQueue, PlacesInvariant, Straight
  <2>9. Straight'
    BY <2>6, <2>7, <2>8 DEF Straight
  <2>10. Apart'
    <3>1. QueuedOrWaits'
      BY <2>5, <2>6, <2>7, <2>8
         DEF PlacesInvariant, Apart, QueuedOrWaits, QueuedOrCarried
    <3>2. QueuedOrCarried'
      BY <2>3, <2>8 DEF PlacesInvariant, Apart, QueuedOrCarried
    <3>3. WaitsOrCarried'
      BY <2>3, <2>5, <2>6, <2>7
         DEF PlacesInvariant, Apart, WaitsOrCarried, CarriedOnce
    <3>4. WaitsOnce'
      BY <2>5, <2>6, <2>7 DEF PlacesInvariant, Apart, WaitsOnce
    <3>5. CarriedOnce'
      BY <2>3 DEF PlacesInvariant, Apart, CarriedOnce
    <3> QED
      BY <3>1, <3>2, <3>3, <3>4, <3>5 DEF Apart
  <2>11. AllPlaced'
    BY <1>2, <2>3, <2>5, <2>6, <2>7, <2>8
       DEF PlacesInvariant, AllPlaced, Placed
  <2>12. NobodyAwaitsUnused'
    BY <1>1, <2>0, <2>7 DEF PlacesInvariant, NobodyAwaitsUnused
  <2> QED
    BY <2>9, <2>10, <2>11, <2>12 DEF PlacesInvariant
<1> QED
  BY <1>3, <1>4

(* Unlock carries the head of its mutex's wait queue, if there is one.     *)
LEMMA UnlockDequeuePlaces ==
  ASSUME PlacesContext, PlacesInvariant, NEW t \in Tcbs, UnlockDequeue(t)
  PROVE  PlacesInvariant'
<1> USE DEF PlacesContext
<1>1. PICK k \in Mutexes : k = mutex[t] /\ pc[t] = "unlock_deq"
  BY LocalTypes DEF UnlockDequeue, At, LocalsOK, PointsWithMutex
<1>2. /\ tcb_node' = [tcb_node EXCEPT ![t] = peek(lock_wait_queue[k])]
      /\ lock_wait_queue' = [lock_wait_queue EXCEPT ![k] = dequeue(@)]
      /\ pc' = [pc EXCEPT ![t] = IF lock_wait_queue[k] = <<>>
                                 THEN "unlock_mark" ELSE "unlock_sched"]
      /\ SameQueue /\ usable' = usable
  BY <1>1 DEF UnlockDequeue, Goto, SameQueue, client
<1>3. /\ lock_wait_queue[k] \in Seq(Tcbs)
      /\ lock_wait_queue'[k] = dequeue(lock_wait_queue[k])
      /\ \A m \in Mutexes \ {k} : lock_wait_queue'[m] = lock_wait_queue[m]
  BY <1>2, WaitQueueTypes
<1>4. Scheduler_tcbs' = Scheduler_tcbs
  <2>1. ThreadStep(t) /\ ~CreateSchedule(t)
    BY <1>1 DEF ThreadStep, CreateSchedule, At
  <2> QED
    BY <2>1, ThreadStepFresh, ScheduledKept
<1>5. /\ \A s \in Tcbs \ {t} : pc'[s] = pc[s] /\ tcb_node'[s] = tcb_node[s]
      /\ tcb_node'[t] = peek(lock_wait_queue[k])
      /\ pc'[t] = IF lock_wait_queue[k] = <<>>
                  THEN "unlock_mark" ELSE "unlock_sched"
  BY <1>2, LocalTypes
<1>6. /\ \A s \in Tcbs \ {t}, n \in Tcbs : Carries(s, n)' <=> Carries(s, n)
      /\ \A n \in Tcbs : ~Carries(t, n)
  BY <1>1, <1>5, OthersCarry DEF Carries, CarryPoints
<1>7. /\ \A n \in Tcbs : Queued(n)' <=> Queued(n)
      /\ NoRepeats(mlpq[0])'
  BY <1>2, SameMembers DEF PlacesInvariant, Straight
<1>8. CASE lock_wait_queue[k] = <<>>
  <2>1. \A n \in Tcbs : ~Carries(t, n)'
    BY <1>5, <1>8 DEF Carries, CarryPoints
  <2>2. lock_wait_queue' = lock_wait_queue
    BY <1>2, <1>8, WaitQueueTypes DEF dequeue
  <2>3. PlacesKept
    BY <1>2, <1>4, <1>6, <1>7, <2>1, <2>2
       DEF PlacesKept, SameCarrier, SameWaits
  <2> QED
    BY <2>3, KeptPlaces
<1>9. CASE lock_wait_queue[k] # <<>>
  <2>1. /\ Head(lock_wait_queue[k]) \in Tcbs
        /\ peek(lock_wait_queue[k]) = Head(lock_wait_queue[k])
        /\ lock_wait_queue'[k] = Tail(lock_wait_queue[k])
    BY <1>3, <1>9, HeadIsTcb DEF dequeue
  <2>2. PICK h \in Tcbs : h = Head(lock_wait_queue[k])
    BY <2>1
  <2>3. \A n \in Tcbs : Carries(t, n)' <=> n = h
    BY <1>5, <1>9, <2>1, <2>2 DEF Carries, CarryPoints
  <2>4. /\ \A n \in Tcbs : Waits(n, k) <=> Waits(n, k)' \/ n = h
        /\ ~Waits(h, k)'
        /\ NoRepeats(lock_wait_queue[k])'
    <3>1. /\ \A n : Member(n, lock_wait_queue[k])
                      <=> Member(n, lock_wait_queue'[k]) \/ n = h
          /\ NoRepeats(lock_wait_queue'[k])
          /\ ~Member(h, lock_wait_queue'[k])
      BY <1>3, <1>9, <2>1, <2>2, TailMembers DEF PlacesInvariant, Straight
    <3> QED
      BY <3>1 DEF Waits
  <2>5. \A m \in Mutexes \ {k} :
          /\ \A n \in Tcbs : Waits(n, m)' <=> Waits(n, m)
          /\ NoRepeats(lock_wait_queue[m])'
    BY <1>3 DEF Waits, PlacesInvariant, Straight
  <2>6. Straight'
    BY <1>7, <2>4, <2>5 DEF Straight
  <2>7. Apart'
    <3>1. QueuedOrWaits'
      BY <1>7, <2>4, <2>5 DEF PlacesInvariant, Apart, QueuedOrWaits
    <3>2. QueuedOrCarried'
      BY <1>6, <1>7, <2>3, <2>4
         DEF PlacesInvariant, Apart, QueuedOrWaits, QueuedOrCarried
    <3>3. WaitsOrCarried'
      BY <1>6, <2>3, <2>4, <2>5
         DEF PlacesInvariant, Apart, WaitsOrCarried, WaitsOnce
    <3>4. WaitsOnce'
      BY <2>4, <2>5 DEF PlacesInvariant, Apart, WaitsOnce
    <3>5. CarriedOnce'
      BY <1>6, <2>3, <2>4
         DEF PlacesInvariant, Apart, WaitsOrCarried, CarriedOnce
    <3> QED
      BY <3>1, <3>2, <3>3, <3>4, <3>5 DEF Apart
  <2>8. AllPlaced'
    BY <1>4, <1>6, <1>7, <2>3, <2>4, <2>5
       DEF PlacesInvariant, AllPlaced, Placed
  <2>9. NobodyAwaitsUnused'
    BY <1>2, <2>4, <2>5 DEF PlacesInvariant, NobodyAwaitsUnused
  <2> QED
    BY <2>6, <2>7, <2>8, <2>9 DEF PlacesInvariant
<1> QED
  BY <1>8, <1>9

(* A tcb that was in no queue joins the run queue: the one that unlock     *)
(* carried, a new thread's, or main's at the first create.                 *)
LEMMA JoinsRunQueue ==
  ASSUME PlacesContext, PlacesInvariant, NEW c \in Tcbs,
         mlpq' = Scheduled(mlpq, c, 0), SameWaits, usable' = usable,
         ~Queued(c), \A m \in Mutexes : ~Waits(c, m),
         \A s \in Tcbs : ~Carries(s, c)',
         \A n \in Tcbs \ {c}, s \in Tcbs : Carries(s, n)' <=> Carries(s, n),
         Scheduler_tcbs' = Scheduler_tcbs \cup {c}
  PROVE  PlacesInvariant'
<1> USE DEF PlacesContext
<1>1. mlpq[0] \in Seq(Tcbs) /\ mlpq'[0] = Append(mlpq[0], c)
  BY FirstLevelType DEF Scheduled, enqueue
<1>2. /\ \A n \in Tcbs : Queued(n)' <=> Queued(n) \/ n = c
      /\ NoRepeats(mlpq[0])'
  <2>1. /\ \A n : Member(n, mlpq'[0]) <=> Member(n, mlpq[0]) \/ n = c
        /\ NoRepeats(mlpq'[0])
    <3>1. ~Member(c, mlpq[0]) /\ NoRepeats(mlpq[0])
      BY DEF PlacesInvariant, Straight, Queued
    <3>2. /\ \A n : Member(n, Append(mlpq[0], c))
                      <=> Member(n, mlpq[0]) \/ n = c
          /\ NoRepeats(Append(mlpq[0], c))
      BY <1>1, <3>1, AppendMembers, Zenon
    <3> QED
      BY <1>1, <3>2, Zenon
  <2> QED
    BY <2>1 DEF Queued
<1>3. \A m \in Mutexes :
        /\ \A n \in Tcbs : Waits(n, m)' <=> Waits(n, m)
        /\ NoRepeats(lock_wait_queue[m])'
  BY SameMembers DEF PlacesInvariant, Straight
<1>4. Straight'
  BY <1>2, <1>3 DEF Straight
<1>5. Apart'
  <2>1. QueuedOrWaits'
    BY <1>2, <1>3 DEF PlacesInvariant, Apart, QueuedOrWaits
  <2>2. QueuedOrCarried'
    BY <1>2 DEF PlacesInvariant, Apart, QueuedOrCarried
  <2>3. WaitsOrCarried'
    BY <1>3 DEF PlacesInvariant, Apart, WaitsOrCarried
  <2>4. WaitsOnce'
    BY <1>3 DEF PlacesInvariant, Apart, WaitsOnce
  <2>5. CarriedOnce'
    BY DEF PlacesInvariant, Apart, CarriedOnce
  <2> QED
    BY <2>1, <2>2, <2>3, <2>4, <2>5 DEF Apart
<1>6. AllPlaced'
  BY <1>2, <1>3 DEF PlacesInvariant, AllPlaced, Placed
<1>7. NobodyAwaitsUnused'
  BY <1>3 DEF PlacesInvariant, NobodyAwaitsUnused
<1> QED
  BY <1>4, <1>5, <1>6, <1>7 DEF PlacesInvariant

LEMMA UnlockSchedulePlaces ==
  ASSUME PlacesContext, PlacesInvariant, NEW t \in Tcbs, UnlockSchedule(t)
  PROVE  PlacesInvariant'
<1> USE DEF PlacesContext
<1>1. PICK c \in Tcbs : c = tcb_node[t] /\ pc[t] = "unlock_sched"
  BY LocalTypes DEF UnlockSchedule, At, LocalsOK, PointsWithTcb
<1>2. /\ mlpq' = Scheduled(mlpq, c, 0) /\ SameWaits /\ usable' = usable
      /\ pc' = [pc EXCEPT ![t] = "unlock_mark"]
      /\ tcb_node' = [tcb_node EXCEPT ![t] = NoTcb]
  BY <1>1 DEF UnlockSchedule, Goto, SameWaits, client
<1>3. Carries(t, c) /\ \A n \in Tcbs \ {c} : ~Carries(t, n)
  BY <1>1 DEF Carries, CarryPoints
<1>4. /\ ~Queued(c) /\ \A m \in Mutexes : ~Waits(c, m)
      /\ \A s \in Tcbs \ {t} : ~Carries(s, c)
      /\ c \in Scheduler_tcbs
  BY <1>3 DEF PlacesInvariant, Apart, QueuedOrCarried, WaitsOrCarried,
              CarriedOnce, AllPlaced, Placed
<1>5. /\ \A s \in Tcbs \ {t}, n \in Tcbs : Carries(s, n)' <=> Carries(s, n)
      /\ \A n \in Tcbs : ~Carries(t, n)'
  <2>1. /\ \A s \in Tcbs \ {t} :
             pc'[s] = pc[s] /\ tcb_node'[s] = tcb_node[s]
        /\ pc'[t] = "unlock_mark"
    BY <1>2, LocalTypes
  <2> QED
    BY <2>1, OthersCarry DEF Carries, CarryPoints
<1>6. Scheduler_tcbs' = Scheduler_tcbs
  <2>1. ThreadStep(t) /\ ~CreateSchedule(t)
    BY <1>1 DEF ThreadStep, CreateSchedule, At
  <2> QED
    BY <2>1, ThreadStepFresh, ScheduledKept
<1>7. Scheduler_tcbs' = Scheduler_tcbs \cup {c}
  BY <1>4, <1>6
<1> QED
  BY <1>2, <1>3, <1>4, <1>5, <1>7, JoinsRunQueue

LEMMA CreateSchedulePlaces ==
  ASSUME PlacesContext, PlacesInvariant, NEW t \in Tcbs, CreateSchedule(t)
  PROVE  PlacesInvariant'
<1> USE DEF PlacesContext
<1>1. PICK c \in Tcbs :
        /\ c = tcb_node[t] /\ pc[t] = "create_sched" /\ pc[c] = "none"
        /\ c # Main /\ c # t
  BY LocalTypes
     DEF CreateSchedule, At, LocalsOK, PointsWithTcb, CreatePoints,
         FreshInvariant, FreshTcbs, Main
<1>2. /\ mlpq' = Scheduled(mlpq, c, 0) /\ SameWaits /\ usable' = usable
      /\ pc' = [pc EXCEPT ![t] = "create_timer", ![c] = "entry"]
      /\ tcb_node' = [tcb_node EXCEPT ![t] = NoTcb] /\ TID' = TID
  BY <1>1 DEF CreateSchedule, SameWaits, client, globals
<1>3. /\ pc'[t] = "create_timer" /\ pc'[c] = "entry"
      /\ \A s \in Tcbs \ {t, c} : pc'[s] = pc[s]
      /\ \A s \in Tcbs \ {t} : tcb_node'[s] = tcb_node[s]
  BY <1>1, <1>2, LocalTypes
<1>4. \A s, n \in Tcbs : Carries(s, n)' <=> Carries(s, n)
  BY <1>1, <1>3 DEF Carries, CarryPoints
<1>5. c \notin Scheduler_tcbs /\ Scheduler_tcbs' = Scheduler_tcbs \cup {c}
  BY <1>1, <1>2, <1>3 DEF Scheduler_tcbs
<1>6. /\ ~Queued(c) /\ \A m \in Mutexes : ~Waits(c, m)
      /\ \A s \in Tcbs : ~Carries(s, c)
  BY <1>5 DEF PlacesInvariant, AllPlaced, Placed
<1> QED
  BY <1>2, <1>4, <1>5, <1>6, JoinsRunQueue

(* The first create schedules main, which is running, as well.             *)
LEMMA CreatePlaces ==
  ASSUME PlacesContext, PlacesInvariant, NEW t \in Tcbs, Create(t)
  PROVE  PlacesInvariant'
<1> USE DEF PlacesContext
<1>1. /\ pc[t] = "user" /\ TID \in Nat /\ TID' = TID + 1
      /\ SameWaits /\ usable' = usable
      /\ pc' = [pc EXCEPT ![t] = "create_tid"]
      /\ tcb_node' = [tcb_node EXCEPT ![t] = TID + 1]
  BY StateTypes, ConstantTypes DEF Create, At, Goto, SameWaits, client
<1>2. /\ pc'[t] = "create_tid"
      /\ \A s \in Tcbs \ {t} : pc'[s] = pc[s] /\ tcb_node'[s] = tcb_node[s]
  BY <1>1, LocalTypes
<1>3. \A s, n \in Tcbs : Carries(s, n)' <=> Carries(s, n)
  BY <1>1, <1>2 DEF Carries, CarryPoints
<1>4. \A n \in Tcbs : pc'[n] # "none" <=> pc[n] # "none"
  BY <1>1, <1>2
<1>5. CASE TID = 0
  <2>1. pc[Main] # "none"
    BY <1>1, <1>5, ConstantTypes
       DEF FreshInvariant, NotTerminatedYet, TypeInvariant, BeforeFirstCreate
  <2>2. Main \notin Scheduler_tcbs /\ Scheduler_tcbs' = Scheduler_tcbs \cup {Main}
    BY <1>1, <1>4, <1>5, <2>1, ConstantTypes DEF Scheduler_tcbs
  <2>3. /\ ~Queued(Main) /\ \A m \in Mutexes : ~Waits(Main, m)
        /\ \A s \in Tcbs : ~Carries(s, Main)
    BY <2>2, ConstantTypes DEF PlacesInvariant, AllPlaced, Placed
  <2>4. mlpq' = Scheduled(mlpq, Main, 0)
    BY <1>5 DEF Create
  <2> QED
    BY <1>1, <1>3, <2>2, <2>3, <2>4, ConstantTypes, JoinsRunQueue
<1>6. CASE TID # 0
  <2>1. SameQueue
    BY <1>6 DEF Create, SameQueue
  <2>2. Scheduler_tcbs' = Scheduler_tcbs
    BY <1>1, <1>4, <1>6 DEF Scheduler_tcbs
  <2> QED
    BY <1>1, <1>3, <2>1, <2>2, SameMembers, KeptPlaces
       DEF PlacesKept, SameCarrier
<1> QED
  BY <1>5, <1>6

(* mutex_init: the wait queue it makes empty was empty already.            *)
LEMMA MutexInitPlaces ==
  ASSUME PlacesContext, PlacesInvariant, NEW t \in Tcbs, MutexInit(t)
  PROVE  PlacesInvariant'
<1> USE DEF PlacesContext
<1>1. PICK k \in Mutexes \ usable :
        /\ usable' = usable \cup {k}
        /\ lock_wait_queue' = [lock_wait_queue EXCEPT ![k] = <<>>]
  BY DEF MutexInit
<1>2. /\ lock_wait_queue'[k] = <<>>
      /\ \A m \in Mutexes \ {k} : lock_wait_queue'[m] = lock_wait_queue[m]
  BY <1>1, WaitQueueTypes
<1>3. /\ \A n \in Tcbs : ~Waits(n, k) /\ ~Waits(n, k)'
      /\ NoRepeats(lock_wait_queue[k])'
  BY <1>2, EmptyMembers DEF Waits, PlacesInvariant, NobodyAwaitsUnused
<1>4. \A m \in Mutexes \ {k} :
        /\ \A n \in Tcbs : Waits(n, m)' <=> Waits(n, m)
        /\ NoRepeats(lock_wait_queue[m])'
  BY <1>2 DEF Waits, PlacesInvariant, Straight
<1>5. /\ \A m \in Mutexes, n \in Tcbs : Waits(n, m)' <=> Waits(n, m)
      /\ \A m \in Mutexes : NoRepeats(lock_wait_queue[m])'
  BY <1>3, <1>4
<1>6. /\ \A n \in Tcbs : Queued(n)' <=> Queued(n)
      /\ NoRepeats(mlpq[0])'
  BY SameMembers DEF MutexInit, SameQueue, PlacesInvariant, Straight
<1>7. /\ \A s, n \in Tcbs : Carries(s, n)' <=> Carries(s, n)
      /\ Scheduler_tcbs' = Scheduler_tcbs
  BY DEF MutexInit, globals, Carries, Scheduler_tcbs
<1>8. Straight'
  BY <1>5, <1>6 DEF Straight
<1>9. Apart'
  BY <1>5, <1>6, <1>7
     DEF PlacesInvariant, Apart, QueuedOrWaits, QueuedOrCarried,
         WaitsOrCarried, WaitsOnce, CarriedOnce
<1>10. AllPlaced'
  BY <1>5, <1>6, <1>7 DEF PlacesInvariant, AllPlaced, Placed
<1>11. NobodyAwaitsUnused'
  BY <1>1, <1>5 DEF PlacesInvariant, NobodyAwaitsUnused
<1> QED
  BY <1>8, <1>9, <1>10, <1>11 DEF PlacesInvariant

(* The other steps move no tcb: the thread that takes one is not carrying  *)
(* and does not begin to.                                                  *)
QueuesKept == SameQueue /\ SameWaits /\ usable \subseteq usable'
CarriersKept ==
  \A s \in Tcbs : /\ pc'[s] \in CarryPoints <=> pc[s] \in CarryPoints
                  /\ pc'[s] \in CarryPoints => tcb_node'[s] = tcb_node[s]

LEMMA QuietPlaces ==
  ASSUME PlacesInvariant, QueuesKept, CarriersKept, PointsKept
  PROVE  PlacesInvariant'
<1>1. \A s \in Tcbs : SameCarrier(s)
  BY DEF CarriersKept, SameCarrier, Carries
<1> QED
  BY <1>1, SameMembers, ScheduledKept, KeptPlaces DEF PlacesKept, QueuesKept

LEMMA ThreadStepQuiet ==
  ASSUME TypeInvariant, NEW t \in Tcbs, ThreadStep(t)
  PROVE  \/ CreateSchedule(t) \/ LockDequeue(t) \/ LockEnqueue(t)
         \/ UnlockDequeue(t) \/ UnlockSchedule(t)
         \/ QueuesKept /\ CarriersKept
<1> USE LocalTypes
    DEF Goto, At, Crash, queues, client, QueuesKept, SameQueue, SameWaits,
        CarriersKept, CarryPoints
<1>1. CASE CreateTid(t)
  BY <1>1 DEF CreateTid
<1>2. CASE CreateHandle(t)
  BY <1>2 DEF CreateHandle
<1>3. CASE CreateTimer(t)
  BY <1>3 DEF CreateTimer
<1>4. CASE WrapperEntry(t)
  BY <1>4 DEF WrapperEntry
<1>5. CASE WrapperCheck(t)
  BY <1>5 DEF WrapperCheck
<1>6. CASE WrapperStoresResult(t)
  BY <1>6 DEF WrapperStoresResult
<1>7. CASE WrapperTerminates(t)
  BY <1>7 DEF WrapperTerminates
<1>8. CASE WrapperReturns(t)
  BY <1>8 DEF WrapperReturns
<1>9. CASE JoinSpin(t)
  BY <1>9 DEF JoinSpin
<1>10. CASE JoinRead(t)
  BY <1>10 DEF JoinRead
<1>11. CASE TestAndSet(t)
  BY <1>11 DEF TestAndSet
<1>12. CASE UnlockMark(t)
  BY <1>12 DEF UnlockMark
<1> QED
  BY <1>1, <1>2, <1>3, <1>4, <1>5, <1>6, <1>7, <1>8, <1>9, <1>10, <1>11, <1>12 DEF ThreadStep

LEMMA ClientCallQuiet ==
  ASSUME TypeInvariant, NEW t \in Tcbs, ClientCall(t)
  PROVE  Create(t) \/ MutexInit(t) \/ (QueuesKept /\ CarriersKept)
<1> USE LocalTypes
    DEF Goto, At, Crash, queues, client, QueuesKept, SameQueue, SameWaits,
        CarriersKept, CarryPoints
<1>1. CASE Join(t)
  BY <1>1 DEF Join, JoinThread
<1>2. CASE Exit(t)
  BY <1>2 DEF Exit
<1>3. CASE FunctionReturns(t)
  BY <1>3 DEF FunctionReturns
<1>4. CASE Yield(t)
  BY <1>4 DEF Yield, SignalHandler, AfterPause
<1>5. CASE MutexLock(t)
  BY <1>5 DEF MutexLock
<1>6. CASE MutexUnlock(t)
  BY <1>6 DEF MutexUnlock
<1>7. CASE MainReturns(t)
  BY <1>7 DEF MainReturns
<1> QED
  BY <1>1, <1>2, <1>3, <1>4, <1>5, <1>6, <1>7 DEF ClientCall

(* The helpers rotate the run queue or leave it as it is.                  *)
LEMMA HandlerPlaces ==
  ASSUME ServingInvariant, PlacesInvariant, HandlerStep
  PROVE  PlacesInvariant'
<1> USE DEF ServingInvariant
<1>1. /\ SameWaits /\ usable' = usable
      /\ \A s \in Tcbs : SameCarrier(s)
      /\ Scheduler_tcbs' = Scheduler_tcbs
  BY HandlerFrame
     DEF HandlerStep, YieldHelper, YieldAfterUnlockHelper, Crash, queues,
         client, SameWaits, SameCarrier, Carries, Scheduler_tcbs
<1>2. CASE YieldHelper /\ ~NobodyLeft
  <2>1. mlpq[0] # <<>> /\ mlpq'[0] = Append(Tail(mlpq[0]), Head(mlpq[0]))
    BY <1>2, YieldHelperRotates DEF OneQueue!Rotate, OneQueue!Run
  <2>2. /\ \A n \in Tcbs : Queued(n)' <=> Queued(n)
        /\ NoRepeats(mlpq[0]) => NoRepeats(mlpq[0])'
    <3>1. /\ \A n : Member(n, Append(Tail(mlpq[0]), Head(mlpq[0])))
                      <=> Member(n, mlpq[0])
          /\ NoRepeats(mlpq[0]) =>
               NoRepeats(Append(Tail(mlpq[0]), Head(mlpq[0])))
      BY <2>1, FirstLevelType, RotatedMembers
    <3> QED
      BY <2>1, <3>1 DEF Queued
  <2> QED
    BY <1>1, <2>2, KeptPlaces DEF PlacesKept
<1>3. CASE ~(YieldHelper /\ ~NobodyLeft)
  <2>1. SameQueue
    <3>1. CASE YieldHelper
      BY <1>3, <3>1, YieldHelperLevel DEF Crash, queues, SameQueue
    <3>2. CASE YieldAfterUnlockHelper
      BY <3>2 DEF YieldAfterUnlockHelper, queues, SameQueue
    <3> QED
      BY <3>1, <3>2 DEF HandlerStep
  <2> QED
    BY <1>1, <2>1, SameMembers, KeptPlaces DEF PlacesKept
<1> QED
  BY <1>2, <1>3

LEMMA NextPlaces ==
  ServingInvariant /\ LockInvariant /\ PlacesInvariant /\ [Next]_vars
    => PlacesInvariant'
<1> SUFFICES ASSUME ServingInvariant, LockInvariant, PlacesInvariant,
                    [Next]_vars
             PROVE  PlacesInvariant'
  OBVIOUS
<1>1. PlacesContext
  BY DEF ServingInvariant, PlacesContext
<1>2. TypeInvariant /\ FreshInvariant
  BY DEF ServingInvariant
<1>3. ASSUME NEW t \in Tcbs, ThreadStep(t) PROVE PlacesInvariant'
  <2>1. CASE CreateSchedule(t) \/ LockDequeue(t) \/ LockEnqueue(t)
               \/ UnlockDequeue(t) \/ UnlockSchedule(t)
    BY <1>1, <2>1, CreateSchedulePlaces, LockDequeuePlaces,
       LockEnqueuePlaces, UnlockDequeuePlaces, UnlockSchedulePlaces
  <2>2. CASE ~CreateSchedule(t) /\ QueuesKept /\ CarriersKept
    BY <1>2, <1>3, <2>2, ThreadStepFresh, QuietPlaces
  <2> QED
    BY <1>2, <1>3, <2>1, <2>2, ThreadStepQuiet
<1>4. ASSUME NEW t \in Tcbs, ClientCall(t) PROVE PlacesInvariant'
  <2>1. CASE Create(t) \/ MutexInit(t)
    BY <1>1, <2>1, CreatePlaces, MutexInitPlaces
  <2>2. CASE ~Create(t) /\ QueuesKept /\ CarriersKept
    BY <1>2, <1>4, <2>2, ClientCallFresh, QuietPlaces
  <2> QED
    BY <1>2, <1>4, <2>1, <2>2, ClientCallQuiet
<1>5. ASSUME NEW expired \in BOOLEAN, Tick(expired) PROVE PlacesInvariant'
  <2>1. QueuesKept /\ CarriersKept
    BY <1>2, <1>5, LocalTypes
       DEF Tick, SignalHandler, Crash, AfterPause, queues, client,
           QueuesKept, SameQueue, SameWaits, CarriersKept, CarryPoints
  <2> QED
    BY <1>2, <1>5, <2>1, HandlerFresh, QuietPlaces
<1>6. CASE HandlerStep
  BY <1>6, HandlerPlaces
<1>7. CASE UNCHANGED vars
  BY <1>7, QuietPlaces
     DEF vars, queues, client, globals, QueuesKept, SameQueue, SameWaits,
         CarriersKept, PointsKept
<1> QED
  BY <1>3, <1>4, <1>5, <1>6, <1>7 DEF Next

LEMMA InitPlaces == Init => PlacesInvariant
<1> SUFFICES ASSUME Init PROVE PlacesInvariant
  OBVIOUS
<1>1. mlpq[0] = <<>> /\ \A m \in Mutexes : lock_wait_queue[m] = <<>>
  BY ConstantTypes DEF Init
<1>2. Straight
  BY <1>1, EmptyMembers DEF Straight
<1>3. /\ \A n \in Tcbs : ~Queued(n)
      /\ \A n \in Tcbs, m \in Mutexes : ~Waits(n, m)
  BY <1>1, EmptyMembers DEF Queued, Waits
<1>4. \A t, n \in Tcbs : ~Carries(t, n)
  BY DEF Init, Carries, CarryPoints
<1>5. Scheduler_tcbs = {}
  BY DEF Init, Scheduler_tcbs
<1> QED
  BY <1>2, <1>3, <1>4, <1>5
     DEF PlacesInvariant, Apart, QueuedOrWaits, QueuedOrCarried,
         WaitsOrCarried, WaitsOnce, CarriedOnce, AllPlaced, Placed,
         NobodyAwaitsUnused

LEMMA PlacesInvariantHolds == Spec => []PlacesInvariant
<1>1. Init => LockInvariant
  BY InitLocks
<1>2. Spec => []LockInvariant
  BY <1>1, NextLocks, TypeInvariantHolds, PTL DEF Spec
<1> QED
  BY <1>2, InitPlaces, NextPlaces, ServingInvariantHolds, PTL DEF Spec

-----------------------------------------------------------------------------
(* The properties that follow from the places.                             *)

LEMMA QueueSlotsOf ==
  ASSUME TypeInvariant, SingleLevel, Straight, NEW n \in Tcbs
  PROVE  Cardinality(QueueSlots(n)) = IF Queued(n) THEN 1 ELSE 0
<1>1. /\ mlpq[0] \in Seq(Tcbs) /\ 0 \in Levels /\ MaxThreads \in Nat
      /\ Len(mlpq[0]) \in Nat
      /\ \A l \in Levels \ {0} : Len(mlpq[l]) = 0
  BY FirstLevelType, ConstantTypes DEF SingleLevel
<1>2. Len(mlpq[0]) <= MaxThreads + 1
  BY <1>1, NoRepeatsIsShort DEF Straight
<1>3. CASE Queued(n)
  <2>1. PICK i \in 1 .. Len(mlpq[0]) : mlpq[0][i] = n
    BY <1>3 DEF Queued, Member
  <2>2. \A j \in 1 .. Len(mlpq[0]) : mlpq[0][j] = n => j = i
    BY <2>1 DEF Straight, NoRepeats
  <2>3. QueueSlots(n) \subseteq {<<0, i>>}
    <3>1. SUFFICES ASSUME NEW l \in Levels, NEW j \in 1 .. MaxThreads + 1,
                          j <= Len(mlpq[l]), mlpq[l][j] = n
                   PROVE  l = 0 /\ j = i
      BY DEF QueueSlots
    <3>2. l = 0
      BY <1>1, <3>1
    <3> QED
      BY <1>1, <2>2, <3>1, <3>2
  <2>4. <<0, i>> \in QueueSlots(n)
    BY <1>1, <1>2, <2>1 DEF QueueSlots
  <2>5. QueueSlots(n) = {<<0, i>>}
    BY <2>3, <2>4
  <2> QED
    BY <1>3, <2>5, FS_Singleton
<1>4. CASE ~Queued(n)
  <2>1. QueueSlots(n) = {}
    <3>1. SUFFICES ASSUME NEW l \in Levels, NEW j \in 1 .. MaxThreads + 1,
                          j <= Len(mlpq[l]), mlpq[l][j] = n
                   PROVE  FALSE
      BY DEF QueueSlots
    <3>2. l = 0
      BY <1>1, <3>1
    <3> QED
      BY <1>1, <1>4, <3>1, <3>2 DEF Queued, Member
  <2> QED
    BY <1>4, <2>1, FS_EmptySet
<1> QED
  BY <1>3, <1>4

LEMMA WaitSlotsOf ==
  ASSUME TypeInvariant, Straight, NEW n \in Tcbs
  PROVE  /\ (\A m \in Mutexes : ~Waits(n, m)) => WaitSlots(n) = {}
         /\ \A m \in Mutexes :
              Waits(n, m) /\ (\A k \in Mutexes : Waits(n, k) => k = m)
                => Cardinality(WaitSlots(n)) = 1
<1>1. \A m \in Mutexes : /\ lock_wait_queue[m] \in Seq(Tcbs)
                         /\ Len(lock_wait_queue[m]) \in Nat
                         /\ Len(lock_wait_queue[m]) <= MaxThreads + 1
  BY WaitQueueTypes, NoRepeatsIsShort DEF Straight
<1>2. \A p \in WaitSlots(n) :
        /\ p \in Mutexes \X (1 .. MaxThreads + 1)
        /\ p[2] \in 1 .. Len(lock_wait_queue[p[1]])
        /\ lock_wait_queue[p[1]][p[2]] = n /\ Waits(n, p[1])
  BY <1>1, ConstantTypes DEF WaitSlots, Waits, Member
<1>3. ASSUME NEW m \in Mutexes, Waits(n, m),
             \A k \in Mutexes : Waits(n, k) => k = m
      PROVE  Cardinality(WaitSlots(n)) = 1
  <2>1. PICK i \in 1 .. Len(lock_wait_queue[m]) : lock_wait_queue[m][i] = n
    BY <1>3 DEF Waits, Member
  <2>2. \A j \in 1 .. Len(lock_wait_queue[m]) :
          lock_wait_queue[m][j] = n => j = i
    BY <2>1 DEF Straight, NoRepeats
  <2>3. WaitSlots(n) \subseteq {<<m, i>>}
    BY <1>2, <1>3, <2>2
  <2>4. <<m, i>> \in WaitSlots(n)
    BY <1>1, <2>1, ConstantTypes DEF WaitSlots
  <2>5. WaitSlots(n) = {<<m, i>>}
    BY <2>3, <2>4
  <2> QED
    BY <2>5, FS_Singleton
<1>4. (\A m \in Mutexes : ~Waits(n, m)) => WaitSlots(n) = {}
  BY <1>2
<1> QED
  BY <1>3, <1>4

(* However lock, unlock, create and the handler interleave, each scheduled *)
(* tcb is in exactly one place: the run queue, one mutex's wait queue, or  *)
(* the local variable of a call that moves it (my_pthread.c:540, 562, 793, *)
(* 794, 806-808).                                                          *)
THEOREM TcbConservationHolds == Spec => []TcbConservation
<1>1. TypeInvariant /\ SingleLevel /\ PlacesInvariant => TcbConservation
  <2> SUFFICES ASSUME TypeInvariant, SingleLevel, PlacesInvariant,
                      NEW n \in Scheduler_tcbs
               PROVE  Cardinality(QueueSlots(n)) + Cardinality(WaitSlots(n))
                        + Cardinality(Carriers(n)) = 1
    BY DEF TcbConservation
  <2>1. n \in Tcbs /\ Placed(n) /\ Straight
    BY DEF Scheduler_tcbs, PlacesInvariant, AllPlaced
  <2>2. Carriers(n) = {t \in Tcbs : Carries(t, n)}
    BY DEF Carriers, Carries, CarryPoints
  <2>3. Cardinality({}) = 0
    BY FS_EmptySet
  <2>4. CASE Queued(n)
    <3>1. /\ \A m \in Mutexes : ~Waits(n, m)
          /\ \A t \in Tcbs : ~Carries(t, n)
      BY <2>1, <2>4
         DEF PlacesInvariant, Apart, QueuedOrWaits, QueuedOrCarried
    <3>2. WaitSlots(n) = {} /\ Carriers(n) = {}
      BY <2>1, <2>2, <3>1, WaitSlotsOf
    <3>3. Cardinality(QueueSlots(n)) = 1
      BY <2>1, <2>4, QueueSlotsOf
    <3> QED
      BY <2>3, <3>2, <3>3
  <2>5. ASSUME NEW m \in Mutexes, Waits(n, m)
        PROVE  Cardinality(QueueSlots(n)) + Cardinality(WaitSlots(n))
                 + Cardinality(Carriers(n)) = 1
    <3>1. /\ ~Queued(n) /\ \A t \in Tcbs : ~Carries(t, n)
          /\ \A k \in Mutexes : Waits(n, k) => k = m
      BY <2>1, <2>5
         DEF PlacesInvariant, Apart, QueuedOrWaits, WaitsOrCarried, WaitsOnce
    <3>2. Cardinality(WaitSlots(n)) = 1 /\ Carriers(n) = {}
      BY <2>1, <2>2, <2>5, <3>1, WaitSlotsOf
    <3>3. Cardinality(QueueSlots(n)) = 0
      BY <2>1, <3>1, QueueSlotsOf
    <3> QED
      BY <2>3, <3>2, <3>3
  <2>6. ASSUME NEW t \in Tcbs, Carries(t, n)
        PROVE  Cardinality(QueueSlots(n)) + Cardinality(WaitSlots(n))
                 + Cardinality(Carriers(n)) = 1
    <3>1. /\ ~Queued(n) /\ \A m \in Mutexes : ~Waits(n, m)
          /\ \A s \in Tcbs : Carries(s, n) => s = t
      BY <2>1, <2>6
         DEF PlacesInvariant, Apart, QueuedOrCarried, WaitsOrCarried,
             CarriedOnce
    <3>2. WaitSlots(n) = {} /\ Carriers(n) = {t}
      BY <2>1, <2>2, <2>6, <3>1, WaitSlotsOf
    <3>3. Cardinality(QueueSlots(n)) = 0 /\ Cardinality({t}) = 1
      BY <2>1, <3>1, QueueSlotsOf, FS_Singleton
    <3> QED
      BY <2>3, <3>2, <3>3
  <2> QED
    BY <2>1, <2>4, <2>5, <2>6 DEF Placed
<1> QED
  BY <1>1, TypeInvariantHolds, SingleLevelHolds, PlacesInvariantHolds, PTL

(* One dispatch takes HAS_RUN at most to the length of the level.          *)
LEMMA DispatchCounts ==
  ASSUME HAS_RUN \in Nat, NEW q \in RunQueues, NEW cp \in Levels, NEW st,
         Dispatch(cp, q, st)
  PROVE  \/ HAS_RUN' <= HAS_RUN \/ HAS_RUN' <= Len(q[cp]) \/ HAS_RUN' = 1
<1> DEFINE hr == IF StartsOver(q[cp]) THEN 0 ELSE HAS_RUN
<1>1. HAS_RUN' \in {HAS_RUN, hr, hr + 1}
  BY DEF Dispatch
<1>2. q[cp] \in Seq(Tcbs) /\ Len(q[cp]) \in Nat
  BY DEF RunQueues
<1>3. hr = 0 \/ (hr = HAS_RUN /\ HAS_RUN < Len(q[cp]))
  BY <1>2 DEF StartsOver
<1> HIDE DEF hr
<1> QED
  BY <1>1, <1>2, <1>3

LEMMA HandlerCounts ==
  ASSUME ServingInvariant, HandlerStep, HasRunBounded,
         NoRepeats(mlpq[0]), NoRepeats(mlpq[0])', TypeInvariant'
  PROVE  HasRunBounded'
<1> USE DEF ServingInvariant
<1>1. /\ HAS_RUN \in Nat /\ HAS_RUN <= MaxThreads + 1 /\ MaxThreads \in Nat
      /\ mlpq \in RunQueues /\ mlpq' \in RunQueues /\ 0 \in Levels
  BY ConstantTypes DEF TypeInvariant, TypeOK, RunQueues, HasRunBounded
<1>2. /\ Len(mlpq[0]) \in Nat /\ Len(mlpq[0]) <= MaxThreads + 1
      /\ Len(mlpq'[0]) \in Nat /\ Len(mlpq'[0]) <= MaxThreads + 1
  <2>1. mlpq[0] \in Seq(Tcbs) /\ mlpq'[0] \in Seq(Tcbs)
    BY <1>1 DEF RunQueues
  <2> QED
    BY <2>1, NoRepeatsIsShort
<1>3. \/ HAS_RUN' = HAS_RUN
      \/ \E q \in {mlpq, mlpq'} : \E st : Dispatch(0, q, st)
  <2>1. CASE YieldHelper /\ NobodyLeft
    BY <2>1, YieldHelperLevel DEF Crash, globals
  <2>2. CASE YieldHelper /\ ~NobodyLeft
    BY <2>2, YieldHelperLevel DEF YieldHelper, NobodyLeft
  <2>3. CASE YieldAfterUnlockHelper
    BY <2>3, ConstantTypes
       DEF YieldAfterUnlockHelper, TypeInvariant, HandlerOK, SingleLevel
  <2> QED
    BY <2>1, <2>2, <2>3 DEF HandlerStep
<1>4. CASE HAS_RUN' = HAS_RUN
  BY <1>4 DEF HasRunBounded
<1>5. ASSUME NEW q \in {mlpq, mlpq'}, NEW st, Dispatch(0, q, st)
      PROVE  HasRunBounded'
  <2>1. \/ HAS_RUN' <= HAS_RUN \/ HAS_RUN' <= Len(q[0]) \/ HAS_RUN' = 1
    BY <1>1, <1>5, DispatchCounts
  <2>2. HAS_RUN' \in Nat
    BY DEF TypeInvariant, TypeOK
  <2> QED
    BY <1>1, <1>2, <2>1, <2>2 DEF HasRunBounded
<1> QED
  BY <1>3, <1>4, <1>5

(* HAS_RUN never passes the number of tcbs, although it counts dispatches  *)
(* and only a comparison with a queue's length resets it (579-616).        *)
THEOREM HasRunBoundedHolds == Spec => []HasRunBounded
<1>1. Init => HasRunBounded
  BY ConstantTypes DEF Init, HasRunBounded
<1>2. /\ ServingInvariant /\ ServingInvariant'
      /\ PlacesInvariant /\ PlacesInvariant'
      /\ HasRunBounded /\ [Next]_vars
      => HasRunBounded'
  <2> SUFFICES ASSUME ServingInvariant, ServingInvariant', PlacesInvariant,
                      PlacesInvariant', HasRunBounded, [Next]_vars
               PROVE  HasRunBounded'
    OBVIOUS
  <2>1. ASSUME HAS_RUN' = HAS_RUN PROVE HasRunBounded'
    BY <2>1 DEF HasRunBounded
  <2>2. ASSUME NEW t \in Tcbs, ThreadStep(t) PROVE HasRunBounded'
    BY <2>1, <2>2, ThreadStepFrame DEF ServingInvariant
  <2>3. ASSUME NEW t \in Tcbs, ClientCall(t) PROVE HasRunBounded'
    BY <2>1, <2>3
       DEF ClientCall, Create, Join, JoinThread, Exit, FunctionReturns,
           MainReturns, Yield, SignalHandler, MutexInit, MutexLock,
           MutexUnlock, Crash, globals
  <2>4. ASSUME NEW expired \in BOOLEAN, Tick(expired) PROVE HasRunBounded'
    BY <2>1, <2>4 DEF Tick, SignalHandler, Crash, globals
  <2>5. CASE HandlerStep
    BY <2>5, HandlerCounts DEF PlacesInvariant, Straight, ServingInvariant
  <2>6. CASE UNCHANGED vars
    BY <2>1, <2>6 DEF vars, globals
  <2> QED
    BY <2>2, <2>3, <2>4, <2>5, <2>6 DEF Next
<1> QED
  BY <1>1, <1>2, ServingInvariantHolds, PlacesInvariantHolds, PTL DEF Spec

-----------------------------------------------------------------------------
(* When no tick finds the time slice unexpired, every tick switches, and   *)
(* more is true: what the helpers and mutex_lock take for the caller is    *)
(* the caller, and nobody returns from pause but to give up the processor. *)

(* A step of t is about t: of another thread it changes only what is done  *)
(* to one that create has just made.                                       *)
OthersAlone(t) ==
  \A s \in Tcbs \ {t} :
    /\ \/ pc'[s] = pc[s] /\ state'[s] = state[s]
       \/ pc[s] = "none" /\ pc'[s] = "entry" /\ state'[s] = "READY"
    /\ tcb_node'[s] = tcb_node[s] /\ mutex'[s] = mutex[s]
    /\ held'[s] = held[s] /\ return_value'[s] = return_value[s]

LEMMA ClientTypes ==
  ASSUME TypeInvariant
  PROVE  held \in [Tcbs -> SUBSET Mutexes] /\ usable \subseteq Mutexes
BY DEF TypeInvariant, TypeOK

LEMMA ThreadStepAlone ==
  ASSUME TypeInvariant, FreshInvariant, NEW t \in Tcbs, ThreadStep(t)
  PROVE  OthersAlone(t)
<1> USE LocalTypes, StateTypes, ClientTypes
    DEF Goto, At, Crash, queues, fields, client, OthersAlone
<1>1. CASE CreateTid(t)
  BY <1>1 DEF CreateTid
<1>2. CASE CreateHandle(t)
  BY <1>2 DEF CreateHandle
<1>3. CASE CreateSchedule(t)
  <2>1. tcb_node[t] \in Tcbs /\ pc[tcb_node[t]] = "none"
    BY <1>3 DEF CreateSchedule, LocalsOK, PointsWithTcb, CreatePoints,
                FreshInvariant, FreshTcbs
  <2> QED
    BY <1>3, <2>1 DEF CreateSchedule
<1>4. CASE CreateTimer(t)
  BY <1>4 DEF CreateTimer
<1>5. CASE WrapperEntry(t)
  BY <1>5 DEF WrapperEntry
<1>6. CASE WrapperCheck(t)
  BY <1>6 DEF WrapperCheck
<1>7. CASE WrapperStoresResult(t)
  BY <1>7 DEF WrapperStoresResult
<1>8. CASE WrapperTerminates(t)
  BY <1>8 DEF WrapperTerminates
<1>9. CASE WrapperReturns(t)
  BY <1>9 DEF WrapperReturns
<1>10. CASE JoinSpin(t)
  BY <1>10 DEF JoinSpin
<1>11. CASE JoinRead(t)
  BY <1>11 DEF JoinRead
<1>12. CASE TestAndSet(t)
  BY <1>12 DEF TestAndSet
<1>13. CASE LockDequeue(t)
  BY <1>13 DEF LockDequeue
<1>14. CASE LockEnqueue(t)
  BY <1>14 DEF LockEnqueue
<1>15. CASE UnlockDequeue(t)
  BY <1>15 DEF UnlockDequeue
<1>16. CASE UnlockSchedule(t)
  BY <1>16 DEF UnlockSchedule
<1>17. CASE UnlockMark(t)
  BY <1>17 DEF UnlockMark
<1> QED
  BY <1>1, <1>2, <1>3, <1>4, <1>5, <1>6, <1>7, <1>8, <1>9, <1>10, <1>11, <1>12, <1>13, <1>14, <1>15, <1>16, <1>17 DEF ThreadStep

LEMMA ClientCallAlone ==
  ASSUME TypeInvariant, FreshInvariant, NEW t \in Tcbs, ClientCall(t)
  PROVE  OthersAlone(t)
<1> USE LocalTypes, StateTypes, ClientTypes
    DEF Goto, At, Crash, queues, fields, client, OthersAlone
<1>1. CASE Create(t)
  <2>1. TID = 0 => t = Main
    BY <1>1 DEF Create, Running, TypeInvariant, BeforeFirstCreate
  <2> QED
    BY <1>1, <2>1 DEF Create
<1>2. CASE Join(t)
  BY <1>2 DEF Join, JoinThread
<1>3. CASE Exit(t)
  BY <1>3 DEF Exit
<1>4. CASE FunctionReturns(t)
  BY <1>4 DEF FunctionReturns
<1>5. CASE Yield(t)
  <2>1. current_tcb # NoTcb => current_tcb = t /\ pc[t] = "user"
    BY <1>5 DEF Yield, Running
  <2> QED
    BY <1>5, <2>1 DEF Yield, SignalHandler, AfterPause
<1>6. CASE MutexInit(t)
  BY <1>6 DEF MutexInit
<1>7. CASE MutexLock(t)
  BY <1>7 DEF MutexLock
<1>8. CASE MutexUnlock(t)
  BY <1>8 DEF MutexUnlock
<1>9. CASE MainReturns(t)
  BY <1>9 DEF MainReturns
<1> QED
  BY <1>1, <1>2, <1>3, <1>4, <1>5, <1>6, <1>7, <1>8, <1>9 DEF ClientCall

LockPause == {"lock_enq", "lock_pause"}

(* The head of the run queue is the running thread, unless it is on its    *)
(* way to a wait queue; until the tick that ends its pause it is in one.   *)
RunningPlace ==
  process = "alive" /\ handler = "idle" /\ current_tcb # NoTcb =>
    IF pc[current_tcb] \in LockPause
    THEN ~Queued(current_tcb)
    ELSE mlpq[0] # <<>> /\ Head(mlpq[0]) = current_tcb

(* A thread that runs on with current_tcb NULL has nobody in line with it, *)
(* and is inside lock of a mutex that is not free: it cannot leave lock,   *)
(* nor unlock or create, before a null pointer is followed.                *)
LockPoints == {"lock_tas", "lock_deq", "lock_enq", "lock_pause"}
Stranded == current_tcb = NoTcb /\ TID # 0
StrandedPlace ==
  Stranded =>
    /\ mlpq[0] = <<>> /\ pc[interrupted] \in LockPoints
    /\ pc[interrupted] = "lock_tas" =>
         lock_state[mutex[interrupted]] = "LOCKED"

Itself(t) ==
  \/ tcb_node[t] = t
  \/ tcb_node[t] = NoTcb /\ Stranded /\ interrupted = t
CarriesItself == \A t \in Tcbs : pc[t] = "lock_enq" => Itself(t)
PausedWaits ==
  \A t \in Tcbs : pc[t] = "lock_pause" =>
    Running = t /\ handler = "idle" /\ Waits(t, mutex[t])

(* A waiter is inside lock of the mutex it waits for, and nobody locks a   *)
(* mutex that it has.                                                      *)
WaitersInLock ==
  \A n \in Tcbs, m \in Mutexes : Waits(n, m) =>
    mutex[n] = m /\ pc[n] \in LockPoints
NotHeldYet == \A t \in Tcbs : pc[t] \in LockPoints => mutex[t] \notin held[t]

(* The mark of an unlock is cleared by the next tick.  While it stands, no *)
(* other thread has run since the running one failed to get a mutex, and   *)
(* that mutex is still not free.                                           *)
FailedLock == {"lock_deq", "lock_enq", "lock_pause"}
LockedOut ==
  /\ process = "alive" /\ handler = "idle" /\ current_tcb # NoTcb
       /\ AFTER_UNLOCK_PRIORITY # -1 /\ pc[current_tcb] \in FailedLock
     => lock_state[mutex[current_tcb]] = "LOCKED"
  /\ process = "alive" /\ handler = "after_unlock" /\ mlpq[0] = <<>>
     => /\ pc[current_tcb] \in {"lock_tas", "lock_enq"}
        /\ lock_state[mutex[current_tcb]] = "LOCKED"

LateInvariant ==
  /\ RunningPlace /\ StrandedPlace /\ CarriesItself /\ PausedWaits
  /\ WaitersInLock /\ NotHeldYet /\ LockedOut

(* A step of t outside the two in which lock moves it: tcbs join the run   *)
(* queue at its end only, and nobody joins a wait queue.                   *)
OffLock(t) ==
  /\ pc[t] \notin LockPause /\ pc'[t] \notin LockPause
  /\ \/ mlpq'[0] = mlpq[0]
     \/ \E c \in Tcbs : mlpq'[0] = Append(mlpq[0], c)
  /\ \A n \in Tcbs, m \in Mutexes : Waits(n, m)' => Waits(n, m)
  /\ pc'[t] \in LockPoints => mutex'[t] \notin held'[t]
  /\ pc'[t] = "lock_deq" => lock_state'[mutex'[t]] = "LOCKED"

LEMMA AddedOffLock ==
  ASSUME TypeInvariant, NEW c \in Tcbs, mlpq' = Scheduled(mlpq, c, 0)
  PROVE  mlpq'[0] = Append(mlpq[0], c)
BY FirstLevelType DEF Scheduled, enqueue

LEMMA UnlockDequeueWaits ==
  ASSUME TypeInvariant, NEW t \in Tcbs, UnlockDequeue(t)
  PROVE  \A n \in Tcbs, m \in Mutexes : Waits(n, m)' => Waits(n, m)
<1>1. PICK k \in Mutexes : k = mutex[t]
  BY LocalTypes DEF UnlockDequeue, At, LocalsOK, PointsWithMutex
<1>2. /\ lock_wait_queue[k] \in Seq(Tcbs)
      /\ lock_wait_queue'[k] = dequeue(lock_wait_queue[k])
      /\ \A m \in Mutexes \ {k} : lock_wait_queue'[m] = lock_wait_queue[m]
  BY <1>1, WaitQueueTypes DEF UnlockDequeue
<1>3. \A n : Member(n, lock_wait_queue'[k]) => Member(n, lock_wait_queue[k])
  BY <1>2, TailMembers DEF dequeue
<1> QED
  BY <1>2, <1>3 DEF Waits

LEMMA ThreadStepOffLock ==
  ASSUME TypeInvariant, NotHeldYet, NEW t \in Tcbs, ThreadStep(t),
         ~LockDequeue(t), ~LockEnqueue(t)
  PROVE  OffLock(t)
<1> USE LocalTypes, ClientTypes, SameMembers
    DEF Goto, At, queues, fields, client, OffLock, LockPause, LockPoints,
        SameWaits
<1>1. CASE CreateTid(t)
  BY <1>1 DEF CreateTid
<1>2. CASE CreateHandle(t)
  BY <1>2 DEF CreateHandle
<1>3. CASE CreateSchedule(t)
  <2>1. tcb_node[t] \in Tcbs /\ mlpq' = Scheduled(mlpq, tcb_node[t], 0)
    BY <1>3 DEF CreateSchedule, LocalsOK, PointsWithTcb
  <2>2. mlpq'[0] = Append(mlpq[0], tcb_node[t])
    BY <2>1, AddedOffLock
  <2> QED
    BY <1>3, <2>1, <2>2 DEF CreateSchedule
<1>4. CASE CreateTimer(t)
  BY <1>4 DEF CreateTimer
<1>5. CASE WrapperEntry(t)
  BY <1>5 DEF WrapperEntry
<1>6. CASE WrapperCheck(t)
  BY <1>6 DEF WrapperCheck
<1>7. CASE WrapperStoresResult(t)
  BY <1>7 DEF WrapperStoresResult
<1>8. CASE WrapperTerminates(t)
  BY <1>8 DEF WrapperTerminates
<1>9. CASE WrapperReturns(t)
  BY <1>9 DEF WrapperReturns
<1>10. CASE JoinSpin(t)
  BY <1>10 DEF JoinSpin
<1>11. CASE JoinRead(t)
  BY <1>11 DEF JoinRead
<1>12. CASE TestAndSet(t)
  <2>1. PICK m \in Mutexes : m = mutex[t]
    BY <1>12, LocalTypes DEF TestAndSet, LocalsOK, PointsWithMutex
  <2> QED
    BY <1>12, <2>1, LockTypes DEF TestAndSet, NotHeldYet
<1>13. CASE UnlockDequeue(t)
  <2>1. \A n \in Tcbs, m \in Mutexes : Waits(n, m)' => Waits(n, m)
    BY <1>13, UnlockDequeueWaits
  <2> QED
    BY <1>13, <2>1 DEF UnlockDequeue
<1>14. CASE UnlockSchedule(t)
  <2>1. tcb_node[t] \in Tcbs /\ mlpq' = Scheduled(mlpq, tcb_node[t], 0)
    BY <1>14 DEF UnlockSchedule, LocalsOK, PointsWithTcb
  <2>2. mlpq'[0] = Append(mlpq[0], tcb_node[t])
    BY <2>1, AddedOffLock
  <2> QED
    BY <1>14, <2>1, <2>2 DEF UnlockSchedule
<1>15. CASE UnlockMark(t)
  BY <1>15 DEF UnlockMark, Crash
<1> QED
  BY <1>1, <1>2, <1>3, <1>4, <1>5, <1>6, <1>7, <1>8, <1>9, <1>10, <1>11, <1>12, <1>13, <1>14, <1>15 DEF ThreadStep

LEMMA ClientCallOffLock ==
  ASSUME TypeInvariant, NotHeldYet, NEW t \in Tcbs, ClientCall(t)
  PROVE  OffLock(t)
<1> USE LocalTypes, ClientTypes, SameMembers
    DEF Goto, At, Crash, queues, fields, client, OffLock, LockPause,
        LockPoints, SameWaits
<1>1. CASE Create(t)
  <2>1. TID = 0 => mlpq'[0] = Append(mlpq[0], Main)
    BY <1>1, ConstantTypes, AddedOffLock DEF Create
  <2> QED
    BY <1>1, <2>1, ConstantTypes DEF Create
<1>2. CASE Join(t)
  BY <1>2 DEF Join, JoinThread
<1>3. CASE Exit(t)
  BY <1>3 DEF Exit
<1>4. CASE FunctionReturns(t)
  BY <1>4 DEF FunctionReturns
<1>5. CASE Yield(t)
  BY <1>5 DEF Yield, SignalHandler, AfterPause
<1>6. CASE MutexInit(t)
  <2>1. PICK k \in Mutexes \ usable :
          lock_wait_queue' = [lock_wait_queue EXCEPT ![k] = <<>>]
    BY <1>6 DEF MutexInit
  <2>2. /\ lock_wait_queue'[k] = <<>>
        /\ \A m \in Mutexes \ {k} : lock_wait_queue'[m] = lock_wait_queue[m]
    BY <2>1, WaitQueueTypes
  <2>3. \A n \in Tcbs, m \in Mutexes : Waits(n, m)' => Waits(n, m)
    BY <2>2, EmptyMembers DEF Waits
  <2> QED
    BY <1>6, <2>3 DEF MutexInit
<1>7. CASE MutexLock(t)
  BY <1>7 DEF MutexLock
<1>8. CASE MutexUnlock(t)
  BY <1>8 DEF MutexUnlock
<1>9. CASE MainReturns(t)
  BY <1>9 DEF MainReturns
<1> QED
  BY <1>1, <1>2, <1>3, <1>4, <1>5, <1>6, <1>7, <1>8, <1>9 DEF ClientCall

LateContext ==
  ServingInvariant /\ LockInvariant /\ PlacesInvariant /\ LateInvariant

(* A running thread not on its way to a wait queue is the head of the run  *)
(* queue, and so in no wait queue.                                         *)
LEMMA RunningIsQueued ==
  ASSUME LateContext, process = "alive", handler = "idle",
         NEW t \in Tcbs, current_tcb = t, pc[t] \notin LockPause
  PROVE  /\ mlpq[0] # <<>> /\ Head(mlpq[0]) = t /\ Queued(t)
         /\ \A m \in Mutexes : ~Waits(t, m)
<1>1. mlpq[0] # <<>> /\ Head(mlpq[0]) = t
  BY ConstantTypes DEF LateContext, LateInvariant, RunningPlace
<1>2. Queued(t)
  <2>1. mlpq[0] \in Seq(Tcbs)
    BY FirstLevelType DEF LateContext, ServingInvariant
  <2> QED
    BY <1>1, <2>1, TailMembers DEF Queued
<1> QED
  BY <1>1, <1>2
     DEF LateContext, PlacesInvariant, Apart, QueuedOrWaits

(* The threads that do not step are not in a pause, and what one of them   *)
(* carries is itself.                                                      *)
LEMMA OthersLate ==
  ASSUME LateContext, NEW t \in Tcbs, Running = t, OthersAlone(t)
  PROVE  \A s \in Tcbs \ {t} :
           /\ pc'[s] # "lock_pause"
           /\ pc'[s] = "lock_enq" => tcb_node'[s] = s
BY DEF LateContext, LateInvariant, OthersAlone, PausedWaits, CarriesItself,
       Itself, Running, Stranded

LEMMA OffLockKeeps ==
  ASSUME LateContext, NEW t \in Tcbs, Running = t,
         OffLock(t), OthersAlone(t), \A m \in Mutexes : ~Waits(t, m)
  PROVE  CarriesItself' /\ PausedWaits' /\ WaitersInLock' /\ NotHeldYet'
<1>1. \A s \in Tcbs : /\ pc'[s] # "lock_pause"
                      /\ pc'[s] = "lock_enq" => tcb_node'[s] = s
  BY OthersLate DEF OffLock, LockPause
<1>2. WaitersInLock'
  <2>1. ASSUME NEW n \in Tcbs, NEW m \in Mutexes, Waits(n, m)'
        PROVE  mutex'[n] = m /\ pc'[n] \in LockPoints
    <3>1. n # t /\ mutex[n] = m /\ pc[n] \in LockPoints
      BY <2>1 DEF OffLock, LateContext, LateInvariant, WaitersInLock
    <3> QED
      BY <3>1 DEF OthersAlone, LockPoints
  <2> QED
    BY <2>1 DEF WaitersInLock
<1>3. NotHeldYet'
  BY DEF LateContext, LateInvariant, OffLock, OthersAlone, NotHeldYet,
         LockPoints
<1> QED
  BY <1>1, <1>2, <1>3 DEF CarriesItself, Itself, PausedWaits

(* What joins at the end leaves the head alone.                            *)
LEMMA HeadStays ==
  ASSUME TypeInvariant, NEW t \in Tcbs, OffLock(t), mlpq[0] # <<>>
  PROVE  mlpq'[0] # <<>> /\ Head(mlpq'[0]) = Head(mlpq[0])
<1>1. mlpq[0] \in Seq(Tcbs)
  BY FirstLevelType
<1>2. ASSUME NEW c \in Tcbs
      PROVE  /\ Append(mlpq[0], c) # <<>>
             /\ Head(Append(mlpq[0], c)) = Head(mlpq[0])
  BY <1>1
<1> QED
  BY <1>2 DEF OffLock

LEMMA OffLockLate ==
  ASSUME LateContext, NEW t \in Tcbs, current_tcb = t, current_tcb' = t,
         process = "alive", handler = "idle", OffLock(t), OthersAlone(t)
  PROVE  LateInvariant'
<1>1. /\ mlpq[0] # <<>> /\ Head(mlpq[0]) = t
      /\ \A m \in Mutexes : ~Waits(t, m)
  BY RunningIsQueued DEF OffLock
<1>2. CarriesItself' /\ PausedWaits' /\ WaitersInLock' /\ NotHeldYet'
  BY <1>1, ConstantTypes, OffLockKeeps DEF Running
<1>3. mlpq'[0] # <<>> /\ Head(mlpq'[0]) = t
  BY <1>1, HeadStays DEF LateContext, ServingInvariant
<1>4. RunningPlace'
  BY <1>3 DEF RunningPlace, OffLock
<1>5. StrandedPlace'
  BY ConstantTypes DEF StrandedPlace, Stranded
<1>6. LockedOut'
  BY <1>3 DEF LockedOut, FailedLock, OffLock, LockPause
<1> QED
  BY <1>2, <1>4, <1>5, <1>6 DEF LateInvariant

(* A step that changes nothing but, perhaps, ends the process.             *)
LEMMA SameLate ==
  ASSUME LateInvariant, process' # process => process' # "alive",
         UNCHANGED <<queues, globals, lock_state, pc, tcb_node, mutex,
                     handler, held>>
  PROVE  LateInvariant'
<1>1. /\ \A n \in Tcbs, m \in Mutexes : Waits(n, m)' <=> Waits(n, m)
      /\ \A n \in Tcbs : Queued(n)' <=> Queued(n)
      /\ UNCHANGED <<mlpq, current_tcb, interrupted, TID,
                     AFTER_UNLOCK_PRIORITY, Running, Stranded>>
  BY SameMembers DEF queues, globals, SameQueue, SameWaits, Running, Stranded
<1>2. RunningPlace'
  BY <1>1 DEF LateInvariant, RunningPlace, Queued
<1>3. StrandedPlace' /\ CarriesItself'
  BY <1>1 DEF LateInvariant, StrandedPlace, CarriesItself, Itself
<1>4. WaitersInLock' /\ NotHeldYet'
  BY <1>1 DEF LateInvariant, WaitersInLock, NotHeldYet
<1>5. PausedWaits'
  BY <1>1 DEF LateInvariant, PausedWaits, Waits, queues
<1>6. LockedOut'
  BY <1>1 DEF LateInvariant, LockedOut
<1> QED
  BY <1>2, <1>3, <1>4, <1>5, <1>6 DEF LateInvariant

LEMMA CrashLate == ASSUME LateInvariant, Crash PROVE LateInvariant'
BY SameLate DEF Crash, client

(* A step within lock keeps what was known of the failed attempt.          *)
LEMMA StillLockedOut ==
  ASSUME LateContext, NEW t \in Tcbs, Running = t, handler = "idle",
         process = "alive", pc[t] \in FailedLock,
         UNCHANGED <<current_tcb, handler, AFTER_UNLOCK_PRIORITY, lock_state,
                     mutex>>
  PROVE  LockedOut'
BY DEF LateContext, LateInvariant, LockedOut, Running

(* The thread that runs on with current_tcb NULL fails to get the mutex.   *)
LEMMA StrandedTestLate ==
  ASSUME LateContext, NEW t \in Tcbs, TestAndSet(t), Stranded
  PROVE  LateInvariant'
<1> USE DEF LateContext, ServingInvariant
<1>1. /\ Running = t /\ interrupted = t /\ OthersAlone(t)
      /\ UNCHANGED <<current_tcb, interrupted, TID, handler>>
      /\ handler = "idle"
  BY ThreadStepFrame, ThreadStepAlone DEF ThreadStep, Running, Stranded
<1>2. PICK k \in Mutexes : k = mutex[t] /\ lock_state[k] = "LOCKED"
  BY <1>1, LocalTypes
     DEF TestAndSet, At, LocalsOK, PointsWithMutex, LateInvariant,
         StrandedPlace
<1>3. /\ pc'[t] = "lock_deq" /\ pc[t] = "lock_tas"
      /\ UNCHANGED <<queues, mutex, held>>
  BY <1>2, LocalTypes DEF TestAndSet, At, Goto
<1>4. RunningPlace' /\ LockedOut' /\ StrandedPlace'
  BY <1>1, <1>3
     DEF Stranded, RunningPlace, LockedOut, StrandedPlace, LateInvariant,
         LockPoints, queues
<1>5. CarriesItself' /\ PausedWaits'
  BY <1>1, <1>3, OthersLate DEF CarriesItself, Itself, PausedWaits
<1>6. WaitersInLock'
  <2>1. \A n \in Tcbs, m \in Mutexes : Waits(n, m)' <=> Waits(n, m)
    BY <1>3, SameMembers DEF SameWaits, queues
  <2> QED
    BY <1>1, <1>3, <2>1
       DEF OthersAlone, LateInvariant, WaitersInLock, LockPoints
<1>7. NotHeldYet'
  BY <1>1, <1>3 DEF OthersAlone, LateInvariant, NotHeldYet, LockPoints
<1> QED
  BY <1>4, <1>5, <1>6, <1>7 DEF LateInvariant

LEMMA LockDequeueLate ==
  ASSUME LateContext, NEW t \in Tcbs, LockDequeue(t)
  PROVE  LateInvariant'
<1> USE DEF LateContext, ServingInvariant
<1>1. /\ Running = t /\ TID # 0 /\ handler = "idle" /\ process = "alive"
      /\ UNCHANGED <<current_tcb, interrupted, TID, handler>>
      /\ OthersAlone(t)
  BY ThreadStepFrame, ThreadStepAlone DEF ThreadStep
<1>2. /\ pc[t] = "lock_deq" /\ pc'[t] = "lock_enq"
      /\ tcb_node'[t] = peek(mlpq[0]) /\ mlpq'[0] = dequeue(mlpq[0])
      /\ UNCHANGED <<lock_wait_queue, mutex, held, lock_state,
                     AFTER_UNLOCK_PRIORITY>>
  BY LocalTypes, FirstLevelType
     DEF LockDequeue, At, Goto, SingleLevel, client, globals
<1>3. ASSUME current_tcb = NoTcb
      PROVE  RunningPlace' /\ StrandedPlace' /\ Itself(t)'
  <2>1. Stranded /\ Stranded' /\ interrupted' = t /\ mlpq[0] = <<>>
    BY <1>1, <1>3 DEF Running, Stranded, LateInvariant, StrandedPlace
  <2>2. tcb_node'[t] = NoTcb /\ mlpq'[0] = <<>>
    BY <1>2, <2>1 DEF peek, dequeue
  <2> QED
    BY <1>1, <1>2, <1>3, <2>1, <2>2
       DEF RunningPlace, StrandedPlace, LockPoints, Itself
<1>4. ASSUME current_tcb = t
      PROVE  RunningPlace' /\ StrandedPlace' /\ Itself(t)'
  <2>1. mlpq[0] # <<>> /\ Head(mlpq[0]) = t
    BY <1>1, <1>2, <1>4, RunningIsQueued DEF LockPause
  <2>2. mlpq[0] \in Seq(Tcbs) /\ mlpq'[0] = Tail(mlpq[0])
    BY <1>2, <2>1, FirstLevelType DEF dequeue
  <2>3. ~Member(t, mlpq'[0])
    BY <2>1, <2>2, TailMembers DEF PlacesInvariant, Straight
  <2>4. tcb_node'[t] = t /\ ~Queued(t)'
    BY <1>2, <2>1, <2>3 DEF peek, Queued
  <2> QED
    BY <1>1, <1>2, <1>4, <2>4, ConstantTypes
       DEF RunningPlace, LockPause, StrandedPlace, Stranded, Itself
<1>5. RunningPlace' /\ StrandedPlace' /\ Itself(t)'
  BY <1>1, <1>3, <1>4 DEF Running
<1>6. CarriesItself' /\ PausedWaits'
  BY <1>1, <1>2, <1>5, OthersLate DEF CarriesItself, Itself, PausedWaits
<1>7. WaitersInLock'
  <2>1. \A n \in Tcbs, m \in Mutexes : Waits(n, m)' <=> Waits(n, m)
    BY <1>2, SameMembers DEF SameWaits
  <2> QED
    BY <1>1, <1>2, <2>1
       DEF OthersAlone, LateInvariant, WaitersInLock, LockPoints
<1>8. NotHeldYet'
  BY <1>1, <1>2 DEF OthersAlone, LateInvariant, NotHeldYet, LockPoints
<1>9. LockedOut'
  BY <1>1, <1>2, StillLockedOut DEF FailedLock
<1> QED
  BY <1>5, <1>6, <1>7, <1>8, <1>9 DEF LateInvariant

LEMMA LockEnqueueLate ==
  ASSUME LateContext, NEW t \in Tcbs, LockEnqueue(t)
  PROVE  LateInvariant'
<1> USE DEF LateContext, ServingInvariant
<1>1. /\ Running = t /\ TID # 0 /\ handler = "idle" /\ process = "alive"
      /\ UNCHANGED <<current_tcb, interrupted, TID, handler>>
      /\ OthersAlone(t)
  BY ThreadStepFrame, ThreadStepAlone DEF ThreadStep
<1>2. pc[t] = "lock_enq" /\ Itself(t)
  BY DEF LockEnqueue, At, LateInvariant, CarriesItself
<1>3. CASE tcb_node[t] = NoTcb
  BY <1>3, CrashLate DEF LockEnqueue
<1>4. CASE tcb_node[t] = t
  <2>1. PICK k \in Mutexes : k = mutex[t]
    BY <1>2, LocalTypes DEF LocalsOK, PointsWithMutex
  <2>2. /\ pc'[t] = "lock_pause"
        /\ UNCHANGED <<mlpq, mutex, held, lock_state,
                       AFTER_UNLOCK_PRIORITY>>
        /\ lock_wait_queue' = [lock_wait_queue EXCEPT ![k] = enqueue(@, t)]
    BY <1>2, <1>4, <2>1, LocalTypes, ConstantTypes
       DEF LockEnqueue, Goto, client, globals
  <2>3. \A n \in Tcbs, m \in Mutexes :
          Waits(n, m)' <=> Waits(n, m) \/ (n = t /\ m = k)
    <3>1. /\ lock_wait_queue[k] \in Seq(Tcbs)
          /\ lock_wait_queue'[k] = Append(lock_wait_queue[k], t)
          /\ \A m \in Mutexes \ {k} :
               lock_wait_queue'[m] = lock_wait_queue[m]
      BY <2>2, WaitQueueTypes DEF enqueue
    <3>2. \A n : Member(n, lock_wait_queue'[k])
                   <=> Member(n, lock_wait_queue[k]) \/ n = t
      BY <3>1, AppendMembers
    <3> QED
      BY <3>1, <3>2 DEF Waits
  <2>4. ~Queued(t) /\ ~Queued(t)'
    <3>1. Carries(t, t)
      BY <1>2, <1>4 DEF Carries, CarryPoints
    <3> QED
      BY <2>2, <3>1, SameMembers
         DEF PlacesInvariant, Apart, QueuedOrCarried, SameQueue
  <2>5. RunningPlace'
    BY <1>1, <2>2, <2>4 DEF Running, RunningPlace, LockPause
  <2>6. StrandedPlace'
    BY <1>1, <2>2
       DEF Running, Stranded, LateInvariant, StrandedPlace, LockPoints
  <2>7. CarriesItself'
    BY <1>1, <2>2, OthersLate DEF CarriesItself, Itself
  <2>8. PausedWaits'
    <3>1. Waits(t, k)' /\ mutex'[t] = k
      BY <2>1, <2>2, <2>3
    <3>2. Waits(t, mutex[t])' /\ Running' = t
      BY <1>1, <3>1 DEF Waits, Running
    <3> QED
      BY <1>1, <3>2, OthersLate DEF PausedWaits
  <2>9. WaitersInLock'
    <3>1. ASSUME NEW n \in Tcbs, NEW m \in Mutexes, Waits(n, m)'
          PROVE  mutex'[n] = m /\ pc'[n] \in LockPoints
      <4>1. CASE n = t
        BY <1>2, <2>1, <2>2, <2>3, <3>1, <4>1
           DEF LateInvariant, WaitersInLock, LockPoints
      <4>2. CASE n # t
        BY <1>1, <2>3, <3>1, <4>2
           DEF OthersAlone, LateInvariant, WaitersInLock, LockPoints
      <4> QED
        BY <4>1, <4>2
    <3> QED
      BY <3>1 DEF WaitersInLock
  <2>10. NotHeldYet'
    BY <1>1, <1>2, <2>2
       DEF OthersAlone, LateInvariant, NotHeldYet, LockPoints
  <2>11. LockedOut'
    BY <1>1, <1>2, <2>2, StillLockedOut DEF FailedLock
  <2> QED
    BY <2>5, <2>6, <2>7, <2>8, <2>9, <2>10, <2>11 DEF LateInvariant
<1> QED
  BY <1>2, <1>3, <1>4 DEF Itself

LEMMA ThreadStepLate ==
  ASSUME LateContext, NEW t \in Tcbs, ThreadStep(t)
  PROVE  LateInvariant'
<1>1. /\ OthersAlone(t) /\ TypeInvariant /\ NotHeldYet
      /\ Running = t /\ TID # 0 /\ current_tcb' = current_tcb
      /\ process = "alive" /\ handler = "idle"
  BY ThreadStepFrame, ThreadStepAlone
     DEF LateContext, ServingInvariant, LateInvariant
<1>2. CASE LockDequeue(t) \/ LockEnqueue(t)
  BY <1>2, LockDequeueLate, LockEnqueueLate
<1>3. CASE ~LockDequeue(t) /\ ~LockEnqueue(t) /\ current_tcb = t
  BY <1>1, <1>3, ThreadStepOffLock, OffLockLate
<1>4. CASE ~LockDequeue(t) /\ ~LockEnqueue(t) /\ current_tcb = NoTcb
  <2>1. Stranded /\ pc[t] \in LockPoints
    BY <1>1, <1>4
       DEF Running, Stranded, LateContext, LateInvariant, StrandedPlace
  <2>2. TestAndSet(t)
    BY <1>4, <2>1
       DEF LockPoints, ThreadStep, At, CreateTid, CreateHandle,
           CreateSchedule, CreateTimer, WrapperEntry, WrapperCheck,
           WrapperStoresResult, WrapperTerminates, WrapperReturns, JoinSpin,
           JoinRead, UnlockDequeue, UnlockSchedule, UnlockMark
  <2> QED
    BY <2>1, <2>2, StrandedTestLate
<1> QED
  BY <1>1, <1>2, <1>3, <1>4 DEF Running

(* Before the first create no tcb is in any place.                         *)
LEMMA NobodyPlacedYet ==
  ASSUME TypeInvariant, FreshInvariant, PlacesInvariant, TID = 0
  PROVE  \A n \in Tcbs : ~Placed(n)
<1>1. Scheduler_tcbs = {}
  <2>1. ASSUME NEW n \in Tcbs, n # Main PROVE pc[n] = "none"
    <3>1. n \in Nat /\ n > TID
      BY <2>1, ConstantTypes DEF Main
    <3> QED
      BY <3>1 DEF FreshInvariant, FreshTcbs
  <2> QED
    BY <2>1 DEF Scheduler_tcbs
<1> QED
  BY <1>1 DEF PlacesInvariant, AllPlaced

LEMMA ClientCallLate ==
  ASSUME LateContext, NEW t \in Tcbs, ClientCall(t)
  PROVE  LateInvariant'
<1> USE DEF LateContext, ServingInvariant
<1>1. OthersAlone(t) /\ OffLock(t)
  BY ClientCallAlone, ClientCallOffLock DEF LateInvariant
<1>2. /\ process = "alive" /\ handler = "idle" /\ Running = t
      /\ pc[t] = "user"
      /\ Create(t) \/ UNCHANGED <<current_tcb, TID>>
      /\ current_tcb = NoTcb => handler' = "idle"
  BY DEF ClientCall, Create, Join, JoinThread, Exit, FunctionReturns,
         MainReturns, Yield, MutexInit, MutexLock, MutexUnlock, At, Crash,
         SignalHandler, globals
<1>3. CASE current_tcb = NoTcb
  <2>1. TID = 0 /\ \A n \in Tcbs : ~Placed(n)
    <3>1. ~Stranded
      BY <1>2, <1>3
         DEF Stranded, Running, LateInvariant, StrandedPlace, LockPoints
    <3> QED
      BY <1>3, <3>1, NobodyPlacedYet DEF Stranded
  <2>2. CarriesItself' /\ PausedWaits' /\ WaitersInLock' /\ NotHeldYet'
    BY <1>1, <1>2, <2>1, OffLockKeeps DEF Placed
  <2>3. CASE UNCHANGED <<current_tcb, TID>>
    BY <1>2, <1>3, <2>1, <2>2, <2>3
       DEF LateInvariant, RunningPlace, StrandedPlace, Stranded, LockedOut
  <2>4. CASE Create(t)
    <3>1. /\ current_tcb' = Main /\ pc'[Main] = "create_tid"
          /\ mlpq'[0] = Append(mlpq[0], Main)
      <4>1. /\ current_tcb' = Main /\ Goto(t, "create_tid")
            /\ mlpq' = Scheduled(mlpq, Main, 0)
        BY <2>1, <2>4 DEF Create
      <4>2. t = Main
        BY <1>2, <2>1 DEF Running, TypeInvariant, BeforeFirstCreate
      <4> QED
        BY <4>1, <4>2, LocalTypes, ConstantTypes, AddedOffLock DEF Goto
    <3>2. mlpq[0] = <<>>
      <4>1. mlpq[0] \in Seq(Tcbs)
        BY FirstLevelType
      <4>2. ASSUME mlpq[0] # <<>> PROVE FALSE
        <5>1. Head(mlpq[0]) \in Tcbs
          BY <4>1, <4>2, HeadIsTcb
        <5>2. Queued(Head(mlpq[0]))
          BY <4>1, <4>2, TailMembers DEF Queued
        <5> QED
          BY <2>1, <5>1, <5>2 DEF Placed
      <4> QED
        BY <4>2
    <3>3. mlpq'[0] # <<>> /\ Head(mlpq'[0]) = Main
      BY <3>1, <3>2
    <3>4. RunningPlace' /\ StrandedPlace' /\ LockedOut'
      BY <3>1, <3>3, ConstantTypes
         DEF RunningPlace, LockPause, StrandedPlace, Stranded, LockedOut,
             FailedLock
    <3> QED
      BY <2>2, <3>4 DEF LateInvariant
  <2> QED
    BY <1>2, <2>3, <2>4
<1>4. CASE current_tcb = t
  <2>1. current_tcb' = t
    BY <1>2, <1>4, ConstantTypes DEF Create, TypeInvariant, BeforeFirstCreate
  <2> QED
    BY <1>1, <1>2, <1>4, <2>1, OffLockLate
<1> QED
  BY <1>2, <1>3, <1>4 DEF Running

LEMMA AfterPauseCases ==
  ASSUME NEW p
  PROVE  /\ \/ AfterPause(p) = p
            \/ p = "lock_pause" /\ AfterPause(p) = "lock_tas"
            \/ p \in {"wrap_pause_exit", "wrap_pause_end"}
                 /\ AfterPause(p) \in {"wrap_ret", "wrap_end"}
         /\ AfterPause(p) # "lock_pause"
<1>1. CASE p = "lock_pause"
  BY <1>1 DEF AfterPause
<1>2. CASE p = "wrap_pause_exit"
  BY <1>2 DEF AfterPause
<1>3. CASE p = "wrap_pause_end"
  BY <1>3 DEF AfterPause
<1>4. CASE p \notin {"lock_pause", "wrap_pause_exit", "wrap_pause_end"}
  BY <1>4 DEF AfterPause
<1> QED
  BY <1>1, <1>2, <1>3, <1>4

(* A tick switches, and it ends the pause of the thread it interrupts.     *)
LEMMA TickLate ==
  ASSUME LateContext, ~EarlyTicks, NEW expired \in BOOLEAN, Tick(expired)
  PROVE  LateInvariant'
<1> USE DEF LateContext, ServingInvariant
<1>1. CASE current_tcb = NoTcb
  BY <1>1, CrashLate DEF Tick, SignalHandler
<1>2. CASE current_tcb # NoTcb
  <2>1. PICK r \in Tcbs : r = current_tcb /\ r # NoTcb
    BY <1>2 DEF TypeInvariant, TypeOK
  <2>2. /\ process = "alive" /\ handler = "idle" /\ handler' # "idle"
        /\ pc' = [pc EXCEPT ![r] = AfterPause(@)]
        /\ handler' = "after_unlock" => AFTER_UNLOCK_PRIORITY # -1
        /\ UNCHANGED <<queues, globals, tcb_node, mutex, held, lock_state>>
    BY <1>2, <2>1 DEF Tick, SignalHandler, client
  <2>3. /\ pc'[r] = AfterPause(pc[r])
        /\ \A s \in Tcbs \ {r} : pc'[s] = pc[s]
    BY <2>2, LocalTypes
  <2>4. \A s \in Tcbs \ {r} : pc[s] # "lock_pause"
    BY <2>1 DEF Running, LateInvariant, PausedWaits
  <2>5. \A s \in Tcbs :
          /\ \/ pc'[s] = pc[s]
             \/ pc[s] = "lock_pause" /\ pc'[s] = "lock_tas"
             \/ pc[s] \in {"wrap_pause_exit", "wrap_pause_end"}
                  /\ pc'[s] \in {"wrap_ret", "wrap_end"}
          /\ pc'[s] # "lock_pause"
    BY <2>3, <2>4, AfterPauseCases
  <2>6. /\ \A n \in Tcbs, m \in Mutexes : Waits(n, m)' <=> Waits(n, m)
        /\ current_tcb' = r /\ ~Stranded /\ ~Stranded'
    BY <2>1, <2>2, SameMembers DEF SameWaits, queues, globals, Stranded
  <2>7. RunningPlace' /\ StrandedPlace'
    BY <2>2, <2>6 DEF RunningPlace, StrandedPlace
  <2>8. CarriesItself' /\ PausedWaits'
    BY <2>2, <2>5, <2>6 DEF LateInvariant, CarriesItself, Itself, PausedWaits
  <2>9. WaitersInLock'
    BY <2>2, <2>5, <2>6 DEF LateInvariant, WaitersInLock, LockPoints
  <2>10. NotHeldYet'
    BY <2>2, <2>5 DEF LateInvariant, NotHeldYet, LockPoints
  <2>11. LockedOut'
    <3> SUFFICES ASSUME handler' = "after_unlock", mlpq'[0] = <<>>
                 PROVE  /\ pc'[r] \in {"lock_tas", "lock_enq"}
                        /\ lock_state'[mutex'[r]] = "LOCKED"
      BY <2>2, <2>6 DEF LockedOut
    <3>1. pc[r] \in LockPause
      BY <2>1, <2>2 DEF LateInvariant, RunningPlace, queues
    <3>2. lock_state[mutex[r]] = "LOCKED"
      BY <2>1, <2>2, <3>1
         DEF LateInvariant, LockedOut, FailedLock, LockPause
    <3> QED
      BY <2>2, <2>5, <3>1, <3>2 DEF LockPause
  <2> QED
    BY <2>7, <2>8, <2>9, <2>10, <2>11 DEF LateInvariant
<1> QED
  BY <1>1, <1>2

(* The thread that the helpers resume is the head of the run queue, and so *)
(* neither carried nor waiting; if there is none, the interrupted thread   *)
(* goes on, in the middle of lock.                                         *)
LEMMA HandlerLate ==
  ASSUME LateContext, ServingInvariant', PlacesInvariant', HandlerStep
  PROVE  LateInvariant'
<1> USE DEF LateContext
<1>1. /\ UNCHANGED <<pc, tcb_node, mutex, held, lock_wait_queue, lock_state,
                     TID>>
      /\ handler # "idle" /\ process = "alive" /\ ~Stranded
  BY HandlerFrame
     DEF HandlerStep, YieldHelper, YieldAfterUnlockHelper, Crash, client,
         queues, ServingInvariant, Stranded
<1>2. \A n \in Tcbs, m \in Mutexes : Waits(n, m)' <=> Waits(n, m)
  BY <1>1, SameMembers DEF SameWaits
<1>3. \A s \in Tcbs : /\ pc[s] # "lock_pause"
                      /\ pc[s] = "lock_enq" => tcb_node[s] = s
  BY <1>1 DEF LateInvariant, PausedWaits, CarriesItself, Itself
<1>4. RunningPlace'
  <2> SUFFICES ASSUME process' = "alive", handler' = "idle",
                      current_tcb' # NoTcb
               PROVE  /\ pc'[current_tcb'] \notin LockPause
                      /\ mlpq'[0] # <<>> /\ Head(mlpq'[0]) = current_tcb'
    BY DEF RunningPlace
  <2>1. PICK n \in Tcbs : n = current_tcb'
    BY DEF ServingInvariant, TypeInvariant, TypeOK
  <2>2. Resumed
    BY ServingResumesLiveHead DEF Next
  <2>3. mlpq'[0] # <<>> /\ Head(mlpq'[0]) = n
    BY <1>1, <2>1, <2>2 DEF Resumed, ServingInvariant, SingleLevel
  <2>4. Queued(n)'
    <3>1. mlpq'[0] \in Seq(Tcbs)
      BY ConstantTypes DEF ServingInvariant, TypeInvariant, TypeOK
    <3> QED
      BY <2>3, <3>1, TailMembers DEF Queued
  <2>5. ~Carries(n, n)'
    BY <2>4 DEF PlacesInvariant, Apart, QueuedOrCarried
  <2>6. pc[n] # "lock_enq"
    BY <1>1, <1>3, <2>5 DEF Carries, CarryPoints
  <2> QED
    BY <1>1, <1>3, <2>1, <2>3, <2>6 DEF LockPause
<1>5. CarriesItself' /\ PausedWaits'
  BY <1>1, <1>3 DEF CarriesItself, Itself, PausedWaits
<1>6. WaitersInLock' /\ NotHeldYet'
  BY <1>1, <1>2 DEF LateInvariant, WaitersInLock, NotHeldYet
<1>7. StrandedPlace' /\ LockedOut'
  <2>1. CASE YieldHelper /\ NobodyLeft
    BY <1>1, <2>1, CrashLate, YieldHelperLevel DEF LateInvariant
  <2>2. CASE YieldHelper /\ ~NobodyLeft
    <3>1. /\ AFTER_UNLOCK_PRIORITY' = -1 /\ ~Stranded'
          /\ handler' # "after_unlock"
      BY <2>2, YieldHelperRotates, YieldHelperLevel, ConstantTypes
         DEF Stranded, YieldHelper, NobodyLeft, Dispatch
    <3> QED
      BY <3>1 DEF StrandedPlace, LockedOut
  <2>3. CASE YieldAfterUnlockHelper
    <3>1. /\ AFTER_UNLOCK_PRIORITY' = -1 /\ handler' # "after_unlock"
          /\ handler = "after_unlock" /\ mlpq' = mlpq
      BY <2>3, YieldAfterUnlockChoice
         DEF YieldAfterUnlockHelper, queues, Dispatch
    <3>2. LockedOut'
      BY <3>1 DEF LockedOut
    <3>3. CASE mlpq[0] # <<>>
      BY <2>3, <3>2, <3>3, YieldAfterUnlockChoice, ConstantTypes
         DEF StrandedPlace, Stranded
    <3>4. CASE mlpq[0] = <<>>
      <4>1. interrupted' = current_tcb
        BY <2>3, <3>4, YieldAfterUnlockChoice
      <4>2. /\ pc[current_tcb] \in {"lock_tas", "lock_enq"}
            /\ lock_state[mutex[current_tcb]] = "LOCKED"
        BY <1>1, <3>1, <3>4 DEF LateInvariant, LockedOut
      <4> QED
        BY <1>1, <3>1, <3>2, <3>4, <4>1, <4>2
           DEF StrandedPlace, LockPoints
    <3> QED
      BY <3>3, <3>4
  <2> QED
    BY <2>1, <2>2, <2>3 DEF HandlerStep
<1> QED
  BY <1>4, <1>5, <1>6, <1>7 DEF LateInvariant

LEMMA NextLate ==
  ASSUME ~EarlyTicks
  PROVE  LateContext /\ ServingInvariant' /\ PlacesInvariant' /\ [Next]_vars
           => LateInvariant'
<1> SUFFICES ASSUME LateContext, ServingInvariant', PlacesInvariant',
                    [Next]_vars
             PROVE  LateInvariant'
  OBVIOUS
<1>1. ASSUME NEW t \in Tcbs, ThreadStep(t) \/ ClientCall(t)
      PROVE  LateInvariant'
  BY <1>1, ThreadStepLate, ClientCallLate
<1>2. ASSUME NEW expired \in BOOLEAN, Tick(expired) PROVE LateInvariant'
  BY <1>2, TickLate
<1>3. CASE HandlerStep
  BY <1>3, HandlerLate
<1>4. CASE UNCHANGED vars
  BY <1>4, SameLate DEF vars, client, LateContext
<1> QED
  BY <1>1, <1>2, <1>3, <1>4 DEF Next

LEMMA InitLate == Init => LateInvariant
<1> SUFFICES ASSUME Init PROVE LateInvariant
  OBVIOUS
<1>1. \A t \in Tcbs : pc[t] \in {"user", "none"}
  BY DEF Init
<1>2. CarriesItself /\ PausedWaits /\ NotHeldYet
  BY <1>1 DEF CarriesItself, PausedWaits, NotHeldYet, LockPoints
<1>3. RunningPlace /\ StrandedPlace /\ LockedOut
  BY DEF Init, RunningPlace, StrandedPlace, Stranded, LockedOut
<1>4. WaitersInLock
  BY EmptyMembers DEF Init, WaitersInLock, Waits
<1> QED
  BY <1>2, <1>3, <1>4 DEF LateInvariant

LEMMA LateContextHolds ==
  ASSUME ~EarlyTicks
  PROVE  Spec => []LateContext
<1>1. Spec => []LockInvariant
  <2>1. Init => LockInvariant
    BY InitLocks
  <2> QED
    BY <2>1, NextLocks, TypeInvariantHolds, PTL DEF Spec
<1>2. /\ ServingInvariant /\ LockInvariant /\ PlacesInvariant
      /\ LateInvariant /\ ServingInvariant' /\ PlacesInvariant'
      /\ [Next]_vars
      => LateInvariant'
  BY NextLate DEF LateContext
<1>3. Spec => []LateInvariant
  BY <1>1, <1>2, InitLate, ServingInvariantHolds, PlacesInvariantHolds, PTL
     DEF Spec
<1> QED
  BY <1>1, <1>3, ServingInvariantHolds, PlacesInvariantHolds, PTL
     DEF LateContext

(* A running thread that is in the run queue is at its head, which the     *)
(* yield helper (573) and mutex_lock (793) dequeue in its name.            *)
THEOREM RunningIsHeadHolds ==
  ASSUME ~EarlyTicks
  PROVE  Spec => []RunningIsHead
<1>1. LateContext => RunningIsHead
  <2> SUFFICES ASSUME LateContext, process = "alive", handler = "idle",
                      current_tcb # NoTcb,
                      NEW i \in 1 .. Len(mlpq[priority[current_tcb]]),
                      mlpq[priority[current_tcb]][i] = current_tcb
               PROVE  i = 1
    BY DEF RunningIsHead
  <2>1. /\ current_tcb \in Tcbs /\ priority[current_tcb] = 0
        /\ mlpq[0] \in Seq(Tcbs) /\ NoRepeats(mlpq[0])
    BY FirstLevelType
       DEF LateContext, ServingInvariant, TypeInvariant, TypeOK, SingleLevel,
           PlacesInvariant, Straight
  <2>2. Queued(current_tcb)
    BY <2>1 DEF Queued, Member
  <2>3. mlpq[0] # <<>> /\ Head(mlpq[0]) = current_tcb
    BY <2>2 DEF LateContext, LateInvariant, RunningPlace
  <2>4. 1 \in 1 .. Len(mlpq[0]) /\ mlpq[0][1] = current_tcb
    BY <2>1, <2>3
  <2> QED
    BY <2>1, <2>4 DEF NoRepeats
<1> QED
  BY <1>1, LateContextHolds, PTL

(* A thread that runs client code is in the run queue, where the others'   *)
(* joins and yields can find it.                                           *)
THEOREM ClientCodeIsScheduledHolds ==
  ASSUME ~EarlyTicks
  PROVE  Spec => []ClientCodeIsScheduled
<1>1. LateContext => ClientCodeIsScheduled
  <2> SUFFICES ASSUME LateContext, process = "alive", handler = "idle",
                      current_tcb # NoTcb, pc[current_tcb] = "user"
               PROVE  QueueSlots(current_tcb) # {}
    BY DEF ClientCodeIsScheduled
  <2>1. PICK n \in Tcbs : n = current_tcb
    BY DEF LateContext, ServingInvariant, TypeInvariant, TypeOK
  <2>2. Queued(n)
    BY <2>1, RunningIsQueued DEF LockPause
  <2>3. Cardinality(QueueSlots(n)) = 1
    BY <2>2, QueueSlotsOf
       DEF LateContext, ServingInvariant, PlacesInvariant
  <2> QED
    BY <2>1, <2>3, FS_EmptySet
<1> QED
  BY <1>1, LateContextHolds, PTL

(* A thread in a wait queue is inside my_pthread_mutex_lock of that mutex  *)
(* and has not got it, so the unlock that takes it off (806) wakes a       *)
(* thread that tries again for the mutex just freed.                       *)
THEOREM WaitersWantTheMutexHolds ==
  ASSUME ~EarlyTicks
  PROVE  Spec => []WaitersWantTheMutex
<1>1. LateContext => WaitersWantTheMutex
  <2> SUFFICES ASSUME LateContext, NEW m \in Mutexes,
                      NEW i \in 1 .. Len(lock_wait_queue[m])
               PROVE  LET n == lock_wait_queue[m][i]
                      IN  /\ mutex[n] = m
                          /\ pc[n] \in LockPoints
                          /\ m \notin held[n]
    BY DEF WaitersWantTheMutex, LockPoints
  <2>1. PICK n \in Tcbs : n = lock_wait_queue[m][i]
    <3>1. lock_wait_queue[m] \in Seq(Tcbs)
      BY WaitQueueTypes DEF LateContext, ServingInvariant
    <3> QED
      BY <3>1
  <2>2. Waits(n, m)
    BY <2>1 DEF Waits, Member
  <2>3. mutex[n] = m /\ pc[n] \in LockPoints
    BY <2>2 DEF LateContext, LateInvariant, WaitersInLock
  <2>4. m \notin held[n]
    BY <2>3 DEF LateContext, LateInvariant, NotHeldYet
  <2> QED
    BY <2>1, <2>3, <2>4
<1> QED
  BY <1>1, LateContextHolds, PTL

-----------------------------------------------------------------------------
(* What a terminated thread has passed to exit survives the return of its  *)
(* function.  exit (704-707) returns to its caller, and the wrapper's      *)
(* pause (58) to the store that follows it: it must be known that a thread *)
(* that has exited is not dispatched again out of that pause, and that a   *)
(* thread about to store has not exited.                                   *)

StoresAlive ==
  process = "alive" /\ handler = "idle" /\ current_tcb # NoTcb
      /\ pc[current_tcb] = "wrap_ret"
    => state[current_tcb] # "TERMINATED"

ResultsKept ==
  \A n \in Tcbs : state[n] = "TERMINATED" /\ pc[n] # "user" =>
    return_value'[n] = return_value[n]

(* What a step does with the result of the thread that takes it.           *)
OwnResult(t) ==
  /\ pc'[t] = "wrap_ret" => state'[t] # "TERMINATED"
  /\ state[t] = "TERMINATED" /\ pc[t] # "user" =>
       return_value'[t] = return_value[t]

LEMMA ThreadStepOwnResult ==
  ASSUME LateContext, StoresAlive, NEW t \in Tcbs, ThreadStep(t)
  PROVE  OwnResult(t)
<1>1. TypeInvariant /\ FreshInvariant
  BY DEF LateContext, ServingInvariant
<1>2. pc[t] = "wrap_ret" => state[t] # "TERMINATED"
  <2>1. /\ Running = t /\ TID # 0 /\ process = "alive" /\ handler = "idle"
    BY <1>1, ThreadStepFrame
  <2>2. CASE current_tcb = NoTcb
    BY <2>1, <2>2
       DEF Running, Stranded, LateContext, LateInvariant, StrandedPlace,
           LockPoints
  <2>3. CASE current_tcb = t
    BY <2>1, <2>3, ConstantTypes DEF StoresAlive
  <2> QED
    BY <2>1, <2>2, <2>3 DEF Running
<1> USE <1>1, <1>2, LocalTypes, StateTypes
    DEF Goto, At, Crash, fields, OwnResult
<1>3. CASE CreateTid(t)
  BY <1>3 DEF CreateTid
<1>4. CASE CreateHandle(t)
  BY <1>4 DEF CreateHandle
<1>5. CASE CreateSchedule(t)
  <2>1. tcb_node[t] \in Tcbs /\ tcb_node[t] # t
    BY <1>5 DEF CreateSchedule, LocalsOK, PointsWithTcb, CreatePoints,
                FreshInvariant, FreshTcbs
  <2> QED
    BY <1>5, <2>1 DEF CreateSchedule
<1>6. CASE CreateTimer(t)
  BY <1>6 DEF CreateTimer
<1>7. CASE WrapperEntry(t)
  BY <1>7 DEF WrapperEntry
<1>8. CASE WrapperCheck(t)
  BY <1>8 DEF WrapperCheck
<1>9. CASE WrapperStoresResult(t)
  BY <1>9 DEF WrapperStoresResult
<1>10. CASE WrapperTerminates(t)
  BY <1>10 DEF WrapperTerminates
<1>11. CASE WrapperReturns(t)
  BY <1>11 DEF WrapperReturns
<1>12. CASE JoinSpin(t)
  BY <1>12 DEF JoinSpin
<1>13. CASE JoinRead(t)
  BY <1>13 DEF JoinRead
<1>14. CASE TestAndSet(t)
  BY <1>14 DEF TestAndSet
<1>15. CASE LockDequeue(t)
  BY <1>15 DEF LockDequeue
<1>16. CASE LockEnqueue(t)
  BY <1>16 DEF LockEnqueue
<1>17. CASE UnlockDequeue(t)
  BY <1>17 DEF UnlockDequeue
<1>18. CASE UnlockSchedule(t)
  BY <1>18 DEF UnlockSchedule
<1>19. CASE UnlockMark(t)
  BY <1>19 DEF UnlockMark
<1> QED
  BY <1>3, <1>4, <1>5, <1>6, <1>7, <1>8, <1>9, <1>10, <1>11, <1>12, <1>13, <1>14, <1>15, <1>16, <1>17, <1>18, <1>19 DEF ThreadStep

LEMMA ClientCallOwnResult ==
  ASSUME TypeInvariant, NEW t \in Tcbs, ClientCall(t)
  PROVE  OwnResult(t)
<1> USE LocalTypes, StateTypes DEF Goto, At, Crash, fields, OwnResult
<1>1. CASE Create(t)
  BY <1>1 DEF Create
<1>2. CASE Join(t)
  BY <1>2 DEF Join, JoinThread
<1>3. CASE Exit(t)
  BY <1>3 DEF Exit
<1>4. CASE FunctionReturns(t)
  BY <1>4 DEF FunctionReturns
<1>5. CASE Yield(t)
  <2>1. /\ pc[t] = "user" /\ UNCHANGED return_value
        /\ current_tcb # NoTcb => current_tcb = t
    BY <1>5 DEF Yield, Running, SignalHandler
  <2>2. pc'[t] # "wrap_ret"
    BY <1>5, <2>1 DEF Yield, SignalHandler, AfterPause
  <2> QED
    BY <2>1, <2>2
<1>6. CASE MutexInit(t)
  BY <1>6 DEF MutexInit
<1>7. CASE MutexLock(t)
  BY <1>7 DEF MutexLock
<1>8. CASE MutexUnlock(t)
  BY <1>8 DEF MutexUnlock
<1>9. CASE MainReturns(t)
  BY <1>9 DEF MainReturns
<1> QED
  BY <1>1, <1>2, <1>3, <1>4, <1>5, <1>6, <1>7, <1>8, <1>9 DEF ClientCall

LEMMA OwnResultIsEnough ==
  ASSUME NEW t \in Tcbs, OwnResult(t), OthersAlone(t),
         current_tcb' \in {t, NoTcb}
  PROVE  StoresAlive' /\ ResultsKept
BY DEF OwnResult, OthersAlone, StoresAlive, ResultsKept

LEMMA NextFinal ==
  ASSUME ~EarlyTicks
  PROVE  LateContext /\ ServingInvariant' /\ StoresAlive /\ [Next]_vars
           => StoresAlive' /\ ResultsKept
<1> SUFFICES ASSUME LateContext, ServingInvariant', StoresAlive, [Next]_vars
             PROVE  StoresAlive' /\ ResultsKept
  OBVIOUS
<1>1. TypeInvariant /\ FreshInvariant /\ ServingInvariant
  BY DEF LateContext, ServingInvariant
<1>2. ASSUME NEW t \in Tcbs, ThreadStep(t)
      PROVE  StoresAlive' /\ ResultsKept
  <2>1. current_tcb' \in {t, NoTcb}
    BY <1>1, <1>2, ThreadStepFrame DEF Running
  <2> QED
    BY <1>1, <1>2, <2>1, ThreadStepAlone, ThreadStepOwnResult,
       OwnResultIsEnough
<1>3. ASSUME NEW t \in Tcbs, ClientCall(t)
      PROVE  StoresAlive' /\ ResultsKept
  <2>1. current_tcb' \in {t, NoTcb}
    <3>1. /\ Running = t
          /\ \/ current_tcb' = current_tcb
             \/ TID = 0 /\ current_tcb' = Main
      BY <1>3
         DEF ClientCall, Create, Join, JoinThread, Exit, FunctionReturns,
             MainReturns, Yield, MutexInit, MutexLock, MutexUnlock, At,
             Crash, SignalHandler, globals
    <3> QED
      BY <1>1, <3>1 DEF Running, TypeInvariant, BeforeFirstCreate
  <2> QED
    BY <1>1, <1>3, <2>1, ClientCallAlone, ClientCallOwnResult,
       OwnResultIsEnough
<1>4. ASSUME NEW expired \in BOOLEAN, Tick(expired)
      PROVE  StoresAlive' /\ ResultsKept
  <2>1. /\ UNCHANGED return_value
        /\ handler' # "idle" \/ process' # "alive"
    BY <1>4 DEF Tick, SignalHandler, Crash, fields
  <2> QED
    BY <2>1 DEF StoresAlive, ResultsKept
<1>5. CASE HandlerStep
  <2>1. /\ handler # "idle" /\ UNCHANGED <<pc, return_value>>
        /\ \A n \in Tcbs : state'[n] = "TERMINATED" <=> state[n] = "TERMINATED"
    BY <1>1, <1>5, HandlerStates, HandlerFrame
       DEF HandlerStep, YieldHelper, YieldAfterUnlockHelper
  <2>2. Resumed
    BY <1>1, ServingResumesLiveHead
  <2>3. StoresAlive'
    <3>1. current_tcb' # NoTcb => current_tcb' \in Tcbs
      BY DEF ServingInvariant, TypeInvariant, TypeOK
    <3> QED
      BY <2>1, <2>2, <3>1 DEF Resumed, StoresAlive
  <2> QED
    BY <2>1, <2>3 DEF ResultsKept
<1>6. CASE UNCHANGED vars
  BY <1>6 DEF vars, fields, globals, StoresAlive, ResultsKept
<1> QED
  BY <1>2, <1>3, <1>4, <1>5, <1>6 DEF Next

(* What a thread passed to exit before its function returned, a join can   *)
(* read at any later time (my_pthread.c:58, 704-709).                      *)
THEOREM ExitSurvivesReturnHolds ==
  ASSUME ~EarlyTicks
  PROVE  Spec => ExitSurvivesReturn
<1>1. Init => StoresAlive
  BY DEF Init, StoresAlive
<1>2. /\ LateContext /\ ServingInvariant' /\ StoresAlive /\ [Next]_vars
      => StoresAlive' /\ [ResultsKept]_vars
  BY NextFinal
<1>3. Spec => [][ResultsKept]_vars
  BY <1>1, <1>2, LateContextHolds, ServingInvariantHolds, PTL DEF Spec
<1> QED
  BY <1>3 DEF ExitSurvivesReturn, ResultsKept

-----------------------------------------------------------------------------
(* Crashes.  mutex_lock does not test what it dequeued, and unlock, lock   *)
(* and the handler do not test current_tcb.  A null pointer is followed    *)
(* there only when the run queue is empty: the thread that runs on with    *)
(* current_tcb NULL cannot leave lock (StrandedPlace), so that it puts     *)
(* nobody back before it follows one.                                      *)
LEMMA EmptyIsTerminated ==
  ASSUME SingleLevel, mlpq[0] = <<>>
  PROVE  AllTerminated
BY DEF SingleLevel, AllTerminated

LEMMA StrandedIsStuck ==
  ASSUME LateContext, current_tcb = NoTcb
  PROVE  TID = 0 \/ AllTerminated
BY EmptyIsTerminated
   DEF Stranded, LateContext, LateInvariant, StrandedPlace, ServingInvariant

(* A step that crashes the process leaves all else as it is.               *)
LEMMA CrashStuck ==
  ASSUME Crash, TID = 0 \/ ~first_thread \/ AllTerminated
  PROVE  CrashOnlyWhenStuck'
BY DEF Crash, queues, fields, globals, CrashOnlyWhenStuck, AllTerminated

LEMMA ThreadStepCrash ==
  ASSUME LateContext, NEW t \in Tcbs, ThreadStep(t), process' = "crashed"
  PROVE  CrashOnlyWhenStuck'
<1>1. /\ Running = t /\ TID # 0 /\ process = "alive"
  BY ThreadStepFrame DEF LateContext, ServingInvariant
<1>2. LockEnqueue(t) \/ UnlockMark(t)
  BY <1>1
     DEF ThreadStep, CreateTid, CreateHandle, CreateSchedule, CreateTimer,
         WrapperEntry, WrapperCheck, WrapperStoresResult, WrapperTerminates,
         WrapperReturns, JoinSpin, JoinRead, TestAndSet, LockDequeue,
         UnlockDequeue, UnlockSchedule
<1>3. CASE LockEnqueue(t)
  <2>1. Crash /\ pc[t] = "lock_enq" /\ tcb_node[t] = NoTcb
    BY <1>1, <1>3 DEF LockEnqueue, At
  <2>2. Stranded
    BY <2>1, ConstantTypes DEF LateContext, LateInvariant, CarriesItself, Itself
  <2> QED
    BY <2>1, <2>2, StrandedIsStuck, CrashStuck DEF Stranded
<1>4. CASE UnlockMark(t)
  <2>1. Crash /\ current_tcb = NoTcb
    BY <1>1, <1>4 DEF UnlockMark
  <2> QED
    BY <2>1, StrandedIsStuck, CrashStuck
<1> QED
  BY <1>2, <1>3, <1>4

LEMMA ClientCallCrash ==
  ASSUME LateContext, NEW t \in Tcbs, ClientCall(t), process' = "crashed"
  PROVE  CrashOnlyWhenStuck'
<1>1. Crash /\ (current_tcb = NoTcb \/ ~first_thread)
  BY DEF ClientCall, Create, Join, JoinThread, Exit, FunctionReturns,
         MainReturns, Yield, SignalHandler, MutexInit, MutexLock,
         MutexUnlock, At
<1> QED
  BY <1>1, StrandedIsStuck, CrashStuck

(* The handler crashes for want of a live thread only (571-610, 384-429).  *)
LEMMA HandlerCrash ==
  ASSUME LateContext, HandlerStep, process' = "crashed"
  PROVE  CrashOnlyWhenStuck'
<1> USE DEF LateContext, ServingInvariant
<1>1. YieldHelper /\ NobodyLeft
  BY YieldAfterUnlockChoice, YieldHelperRotates DEF HandlerStep
<1>2. Crash
  BY <1>1, YieldHelperLevel
<1>3. AllTerminated
  BY <1>1, FirstLevelType, HeadIsTcb, ConstantTypes, EmptyIsTerminated
     DEF NobodyLeft
<1> QED
  BY <1>2, <1>3, CrashStuck

LEMMA NextStuck ==
  LateContext /\ CrashOnlyWhenStuck /\ [Next]_vars => CrashOnlyWhenStuck'
<1> SUFFICES ASSUME LateContext, CrashOnlyWhenStuck, [Next]_vars,
                    process' = "crashed"
             PROVE  CrashOnlyWhenStuck'
  BY DEF CrashOnlyWhenStuck
<1>1. ASSUME NEW t \in Tcbs, ThreadStep(t) \/ ClientCall(t)
      PROVE  CrashOnlyWhenStuck'
  BY <1>1, ThreadStepCrash, ClientCallCrash
<1>2. ASSUME NEW expired \in BOOLEAN, Tick(expired)
      PROVE  CrashOnlyWhenStuck'
  <2>1. Crash /\ current_tcb = NoTcb
    BY <1>2 DEF Tick, SignalHandler
  <2> QED
    BY <2>1, StrandedIsStuck, CrashStuck
<1>3. CASE HandlerStep
  BY <1>3, HandlerCrash
<1>4. CASE UNCHANGED vars
  BY <1>4
     DEF vars, queues, fields, globals, CrashOnlyWhenStuck, AllTerminated
<1> QED
  BY <1>1, <1>2, <1>3, <1>4 DEF Next

(* Calls before the first create apart, the library crashes only with      *)
(* nobody left to run: a lock that dequeues nothing, and an unlock or a    *)
(* tick that finds current_tcb NULL, come with an empty run queue.         *)
THEOREM CrashOnlyWhenStuckHolds ==
  ASSUME ~EarlyTicks
  PROVE  Spec => []CrashOnlyWhenStuck
<1>1. Init => CrashOnlyWhenStuck
  BY DEF Init, CrashOnlyWhenStuck
<1> QED
  BY <1>1, LateContextHolds, NextStuck, PTL DEF Spec
=============================================================================
