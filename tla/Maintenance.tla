----------------------------- MODULE Maintenance -----------------------------
(***************************************************************************)
(* scheduler_maintenance of my_pthread.c, which signal_handler is meant to *)
(* call at every fifth tick: it copies the multi-level queue to an array,  *)
(* selects the tcbs that started first, and moves each to the end of level *)
(* 0; and delete_tcb, which join is meant to call.  Both calls are         *)
(* commented out (388, 741): the module says what they would do.           *)
(*                                                                         *)
(* The lists are modelled by their pointers, because these functions cut   *)
(* tcbs out of them without touching size.  get_and_remove_tcb unblocks    *)
(* SIGALRM when it returns, inside the handler: the next tick may rotate   *)
(* the queue between two steps of a maintenance.                           *)
(***************************************************************************)
EXTENDS Integers, Sequences, SequencesExt, FiniteSets

CONSTANTS
  NUMBER_LEVELS,  (* levels of the multi-level priority queue (3)          *)
  MaxTcbs,        (* bound: tcbs scheduled at the start                    *)
  OLDEST_PERCENT, (* share of the scheduled tcbs that is promoted (15)     *)
  Times,          (* values of initial_start_time; 0: never run            *)
  MaxCalls        (* bound: maintenances and deletions                     *)

ASSUME MaintenanceAssumption ==
  /\ NUMBER_LEVELS \in Nat \ {0} /\ MaxTcbs \in Nat \ {0}
  /\ OLDEST_PERCENT \in 1 .. 100
  /\ MaxCalls \in Nat /\ Times \subseteq Nat /\ 0 \in Times

Levels == 0 .. NUMBER_LEVELS - 1
Tcbs == 1 .. MaxTcbs
NULL == 0
Pointers == Tcbs \cup {NULL}

VARIABLES
  queues,              (* head, tail and size of each level, next of tcbs  *)
  initial_start_time,
  oldest_tcb_array,    (* what is still to be promoted                     *)
  tcb_node,            (* the tcb between its removal and its scheduling   *)
  calls,               (* maintenances and deletions so far               *)
  process

vars == <<queues, initial_start_time, oldest_tcb_array, tcb_node, calls,
          process>>

(* The array holds tcbs only: it is full, although the loop that fills it   *)
(* skips the first scheduled tcb (the one selected may be there twice).    *)
TypeOK ==
  /\ queues \in [head : [Levels -> Pointers], tail : [Levels -> Pointers],
                 size : [Levels -> Nat], next_tcb : [Tcbs -> Pointers]]
  /\ initial_start_time \in [Tcbs -> Times]
  /\ oldest_tcb_array \in Seq(Tcbs)
  /\ tcb_node \in Pointers
  /\ calls \in 0 .. MaxCalls
  /\ process \in {"alive", "crashed"}

-----------------------------------------------------------------------------
queue_init ==
  [head |-> [l \in Levels |-> NULL], tail |-> [l \in Levels |-> NULL],
   size |-> [l \in Levels |-> 0], next_tcb |-> [n \in Tcbs |-> NULL]]

enqueue(q, l, n) ==
  [head |-> [q.head EXCEPT ![l] = IF q.size[l] = 0 THEN n ELSE @],
   tail |-> [q.tail EXCEPT ![l] = n],
   size |-> [q.size EXCEPT ![l] = @ + 1],
   next_tcb |-> [m \in Tcbs |->
                   IF m = n THEN NULL
                   ELSE IF q.size[l] # 0 /\ m = q.tail[l] THEN n
                   ELSE q.next_tcb[m]]]

(* dequeue of a queue that is not empty by its size and has a head.        *)
dequeue(q, l) ==
  LET last == q.size[l] = 1 IN
    [head |-> [q.head EXCEPT ![l] = IF last THEN NULL ELSE q.next_tcb[@]],
     tail |-> [q.tail EXCEPT ![l] = IF last THEN NULL ELSE @],
     size |-> [q.size EXCEPT ![l] = @ - 1],
     next_tcb |-> [q.next_tcb EXCEPT ![q.head[l]] = NULL]]

(* The tcbs a walk of level l meets, and all levels one after the other.   *)
Walk(q, l) ==
  LET From[n \in Pointers] ==
        IF n = NULL THEN <<>> ELSE <<n>> \o From[q.next_tcb[n]]
  IN From[q.head[l]]
fold_mlpq_to_array(q) ==
  FlattenSeq([i \in 1 .. NUMBER_LEVELS |-> Walk(q, i - 1)])
Scheduled(q, n) == n \in ToSet(fold_mlpq_to_array(q))

(* The assignments of the surgery, each to one field.                      *)
SetHead(q, l, n) == [q EXCEPT !.head = [@ EXCEPT ![l] = n]]
SetTail(q, l, n) == [q EXCEPT !.tail = [@ EXCEPT ![l] = n]]
SetNext(q, m, n) == [q EXCEPT !.next_tcb = [@ EXCEPT ![m] = n]]

(* Where the search finds n: the first level that has it, and the place.   *)
LevelOf(q, n) == CHOOSE l \in Levels : n \in ToSet(Walk(q, l))
PlaceIn(walk, n) == CHOOSE i \in DOMAIN walk : walk[i] = n

(* Mutants of get_and_remove_tcb: the tail is left on the removed tcb; the *)
(* cut takes the tcb behind it too.                                        *)
get_and_remove_tcb_tail(q, n) ==
  LET l == LevelOf(q, n)
      walk == Walk(q, l)
      i == PlaceIn(walk, n)
  IN IF i = 1 THEN SetHead(q, l, q.next_tcb[n])
     ELSE SetNext(q, walk[i - 1], q.next_tcb[n])
get_and_remove_tcb_skips(q, n) ==
  LET l == LevelOf(q, n)
      walk == Walk(q, l)
      i == PlaceIn(walk, n)
  IN IF i = 1 THEN SetHead(q, l, q.next_tcb[n])
     ELSE IF i = Len(walk)
       THEN SetNext(SetTail(q, l, walk[i - 1]), walk[i - 1], NULL)
     ELSE SetNext(q, walk[i - 1], q.next_tcb[q.next_tcb[n]])

(* The surgery of get_and_remove_tcb and of delete_tcb on the list that    *)
(* has n: size stays, and so do the tail when n was alone and n's next.    *)
get_and_remove_tcb(q, n) ==
  LET l == LevelOf(q, n)
      walk == Walk(q, l)
      i == PlaceIn(walk, n)
  IN IF i = 1 THEN SetHead(q, l, q.next_tcb[n])
     ELSE IF i = Len(walk)
       THEN SetNext(SetTail(q, l, walk[i - 1]), walk[i - 1], NULL)
     ELSE SetNext(q, walk[i - 1], q.next_tcb[n])

-----------------------------------------------------------------------------
(* One pass of quick_select over a[from .. to]: the values not below mid's *)
(* go to the end; returned are the array and the end of its lower part.    *)
Time(a, i) == initial_start_time[a[i]]
Swap(a, i, j) == [a EXCEPT ![i] = a[j], ![j] = a[i]]

(* Mutant of StepDown: the step down is forgotten.                         *)
StepDownNever(a, r, mid) == r

StepDown(a, r, mid) ==
  IF Time(a, r) > initial_start_time[mid] THEN r - 1 ELSE r

(* One comparison with mid: the value at r goes to w, or r steps up.       *)
ScanStep(s, mid) ==
  IF Time(s.a, s.r) >= initial_start_time[mid]
    THEN [a |-> Swap(s.a, s.r, s.w), r |-> s.r, w |-> s.w - 1]
    ELSE [s EXCEPT !.r = @ + 1]

Partition(a, from, to) ==
  LET mid == a[(from + to) \div 2]
      Scan[s \in [a : [DOMAIN a -> Tcbs], r : from .. to, w : from .. to]] ==
        IF s.r >= s.w THEN s ELSE Scan[ScanStep(s, mid)]
      end == Scan[[a |-> a, r |-> from, w |-> to]]
  IN [a |-> end.a, r |-> StepDown(end.a, end.r, mid)]

(* The part of the array that the pass leaves to search.                   *)
NarrowStep(s, k) ==
  LET p == Partition(s.a, s.from, s.to)
  IN IF k <= p.r THEN [a |-> p.a, from |-> s.from, to |-> p.r]
     ELSE [a |-> p.a, from |-> p.r + 1, to |-> s.to]

(* Indices count from 1 here: k is the k + 1 of the code.                  *)
quick_select(tcb_array, k) ==
  LET Indices == DOMAIN tcb_array
      Narrow[s \in [a : [Indices -> Tcbs], from : Indices, to : Indices]] ==
        IF s.from >= s.to THEN s.a[k] ELSE Narrow[NarrowStep(s, k)]
  IN Narrow[[a |-> tcb_array, from |-> 1, to |-> Len(tcb_array)]]

(* CEILING(num_scheduled * 0.15)                                           *)
oldest_tcb_array_size(num) == (OLDEST_PERCENT * num + 99) \div 100

(* An array of that size: what is not filled was never written.            *)
Filled(a, size) == [i \in 1 .. size |-> IF i <= Len(a) THEN a[i] ELSE NULL]

(* The tcb selected, then those of the array but its first that are in      *)
(* old, in their order, until size are found.                              *)
Collected(a, pivot, old, size) ==
  LET Found[i \in DOMAIN a] ==
        IF i = 1 THEN <<pivot>>
        ELSE IF Len(Found[i - 1]) < size /\ a[i] \in old
          THEN Append(Found[i - 1], a[i])
        ELSE Found[i - 1]
  IN Filled(Found[Len(a)], size)

(* Mutants of Oldest: tcbs of the age of the one selected are passed over; *)
(* the comparison is the wrong way round.                                  *)
OldestStrictly(a) ==
  LET size == oldest_tcb_array_size(Len(a))
      pivot == quick_select(a, size)
      old == {n \in Tcbs : initial_start_time[n] < initial_start_time[pivot]}
  IN Collected(a, pivot, old, size)

OldestBackwards(a) ==
  LET size == oldest_tcb_array_size(Len(a))
      pivot == quick_select(a, size)
      old == {n \in Tcbs : initial_start_time[n] >= initial_start_time[pivot]}
  IN Collected(a, pivot, old, size)

Oldest(a) ==
  LET size == oldest_tcb_array_size(Len(a))
      pivot == quick_select(a, size)
      old == {n \in Tcbs : initial_start_time[n] <= initial_start_time[pivot]}
  IN Collected(a, pivot, old, size)

-----------------------------------------------------------------------------
(* The queues when num tcbs have been scheduled, all on level 0.            *)
Created[num \in 0 .. MaxTcbs] ==
  IF num = 0 THEN queue_init ELSE enqueue(Created[num - 1], 0, num)

(* Main (the tcb 1, which never gets a start time) and the threads of the  *)
(* first creates; any of them may have run.                                *)
Init ==
  /\ \E num \in Tcbs :
       /\ queues = Created[num]
       /\ initial_start_time \in {f \in [Tcbs -> Times] :
                                   \A n \in {1} \cup num + 1 .. MaxTcbs : f[n] = 0}
  /\ oldest_tcb_array = <<>>
  /\ tcb_node = NULL
  /\ calls = 0
  /\ process = "alive"

Crash ==
  /\ process' = "crashed"
  /\ UNCHANGED <<queues, initial_start_time, oldest_tcb_array, tcb_node,
                 calls>>

(* With nothing scheduled the array is empty and quick_select reads before *)
(* it; whatever comes of that, the next rotation ends the process.         *)
scheduler_maintenance ==
  /\ process = "alive" /\ oldest_tcb_array = <<>> /\ tcb_node = NULL
  /\ calls < MaxCalls
  /\ fold_mlpq_to_array(queues) # <<>>
  /\ oldest_tcb_array' = Oldest(fold_mlpq_to_array(queues))
  /\ calls' = calls + 1
  /\ UNCHANGED <<queues, initial_start_time, tcb_node, process>>

(* change_priority: a tcb that is found nowhere is a null pointer.         *)
ChangePriorityRemoves ==
  /\ process = "alive" /\ oldest_tcb_array # <<>> /\ tcb_node = NULL
  /\ LET n == Head(oldest_tcb_array) IN
       IF ~Scheduled(queues, n) THEN Crash
       ELSE /\ tcb_node' = n
            /\ queues' = get_and_remove_tcb(queues, n)
            /\ oldest_tcb_array' = Tail(oldest_tcb_array)
            /\ UNCHANGED <<initial_start_time, calls, process>>

ChangePrioritySchedules ==
  /\ process = "alive" /\ tcb_node # NULL
  /\ queues' = enqueue(queues, 0, tcb_node)
  /\ tcb_node' = NULL
  /\ UNCHANGED <<initial_start_time, oldest_tcb_array, calls, process>>

(* delete_tcb: likewise one that is found nowhere.                         *)
delete_tcb(n) ==
  /\ process = "alive" /\ calls < MaxCalls
  /\ IF ~Scheduled(queues, n) THEN Crash
     ELSE /\ calls' = calls + 1
          /\ queues' = get_and_remove_tcb(queues, n)
          /\ UNCHANGED <<initial_start_time, oldest_tcb_array, tcb_node,
                         process>>

(* A tick: my_pthread_yield_helper moves the head of level 0 to its end.   *)
Tick ==
  /\ process = "alive"
  /\ IF queues.size[0] = 0 \/ queues.head[0] = NULL THEN Crash
     ELSE /\ queues' = enqueue(dequeue(queues, 0), 0, queues.head[0])
          /\ UNCHANGED <<initial_start_time, oldest_tcb_array, tcb_node,
                         calls, process>>

Next ==
  \/ scheduler_maintenance
  \/ ChangePriorityRemoves \/ ChangePrioritySchedules
  \/ \E n \in Tcbs : delete_tcb(n)
  \/ Tick

Spec == Init /\ [][Next]_vars

-----------------------------------------------------------------------------
(* quick_select, on whatever order rotations, promotions and deletions     *)
(* have left in the array and for every index: fewer tcbs than the index   *)
(* are older than the one it returns, and no fewer are not younger.        *)
SelectsKth ==
  LET a == fold_mlpq_to_array(queues) IN
    \A k \in DOMAIN a :
      LET picked == initial_start_time[quick_select(a, k)] IN
        /\ Cardinality({i \in DOMAIN a : Time(a, i) < picked}) < k
        /\ Cardinality({i \in DOMAIN a : Time(a, i) <= picked}) >= k

(* Whoever is promoted has fewer tcbs before him than are promoted.        *)
OldestAreOldest ==
  [][(calls' # calls /\ UNCHANGED queues) =>
       LET a == fold_mlpq_to_array(queues)
           Older(n) == {i \in DOMAIN a : Time(a, i) < initial_start_time[n]}
       IN \A i \in DOMAIN oldest_tcb_array' :
            LET n == oldest_tcb_array'[i]
            IN /\ Scheduled(queues, n)
               /\ Cardinality(Older(n)) < Len(oldest_tcb_array')]_vars

(* Cutting a tcb out, wherever it is, leaves the others in their order.    *)
SurgeryIsClean ==
  [][LET before == fold_mlpq_to_array(queues)
         after == fold_mlpq_to_array(queues')
     IN Len(after) < Len(before) =>
          \E i \in DOMAIN before : after = RemoveAt(before, i)]_vars

(* What enqueue and dequeue rely on, although removals leave size behind:  *)
(* the tail of a list that is not empty is its last tcb, and size is never *)
(* smaller than the list (enqueue would drop what is in it).               *)
ListsUsable ==
  \A l \in Levels :
    LET walk == Walk(queues, l) IN
      /\ walk # <<>> => queues.tail[l] = Last(walk)
      /\ queues.size[l] >= Len(walk)

(* A tcb that nobody deletes drops out of the lists only if it was alone:  *)
(* with size left behind, enqueue then hangs it on a list without a head.  *)
LostOnlyWhenAlone ==
  [][\A n \in Tcbs :
       (/\ Scheduled(queues, n) \/ tcb_node = n
        /\ ~(Scheduled(queues', n) \/ tcb_node' = n)
        /\ ~delete_tcb(n))
       => fold_mlpq_to_array(queues) \in {<<>>, <<n>>}]_vars
=============================================================================
