----------------------------- MODULE Scheduler -----------------------------
(***************************************************************************)
(* The user-level thread library of my_pthread.c: thread control blocks,   *)
(* the multi-level priority queue, the SIGALRM handler that preempts, the  *)
(* mutexes with their wait queues, thread creation, exit and join.         *)
(*                                                                         *)
(* One processor runs one context at a time.  A step of this module is     *)
(* either a piece of library code executed by the running thread, between  *)
(* two points at which SIGALRM may be delivered, or the signal itself, or  *)
(* one invocation of a yield helper inside the handler, where SIGALRM is   *)
(* blocked.  One enqueue or one dequeue is a single step: what a signal    *)
(* does in the middle of those functions is the subject of TcbQueue.       *)
(* my_allocate is used by its contract (fresh, zeroed memory); the         *)
(* allocator itself is modelled by MemoryManager.                          *)
(***************************************************************************)
EXTENDS Integers, Sequences, FiniteSets

CONSTANTS
  MaxThreads,     (* bound: number of my_pthread_create calls              *)
  NUMBER_LEVELS,  (* levels of the multi-level priority queue (3)          *)
  Mutexes,        (* the my_pthread_mutex_t objects of the client          *)
  Creators,       (* the threads the client lets call my_pthread_create    *)
  Joiners,        (* the threads the client lets call my_pthread_join      *)
  ExitValues,     (* what the client passes to my_pthread_exit; {}: no call*)
  EarlyTicks      (* whether a tick may find the time slice unexpired      *)

(* With a single level the scan of the helpers (587) would have no body.   *)
ASSUME SchedulerAssumption ==
  /\ MaxThreads \in Nat
  /\ NUMBER_LEVELS \in Nat \ {0, 1}
  /\ ExitValues \cap {"unset", "none", "error"} = {}
  /\ EarlyTicks \in BOOLEAN

(***************************************************************************)
(* A tcb is named by the order of its allocation: 0 is the main context's, *)
(* n the one of the n-th my_pthread_create.  Its tid is a field.           *)
(***************************************************************************)
Main == 0
Tcbs == 0 .. MaxThreads
NoTcb == -1
Levels == 0 .. NUMBER_LEVELS - 1

ThreadStates == {"RUNNING", "READY", "WAITING", "YIELD", "TERMINATED"}
ReturnValues == {"unset", "returned"} \cup ExitValues

(* Points of a thread's control at which a signal may find it.             *)
Points ==
  {"none", "entry", "user", "create_tid", "create_handle", "create_sched",
   "create_timer", "lock_tas", "lock_deq", "lock_enq", "lock_pause",
   "unlock_deq", "unlock_sched", "unlock_mark", "join_spin", "join_read",
   "wrap_check", "wrap_pause_exit", "wrap_ret", "wrap_term",
   "wrap_pause_end", "wrap_end"}

VARIABLES
  mlpq,            (* SCHEDULER->multi_level_priority_queue, level -> queue *)
  current_tcb,     (* SCHEDULER->current_tcb                                *)
  interrupted,     (* the thread that runs while current_tcb is NULL        *)
  HAS_RUN, AFTER_UNLOCK_PRIORITY, TID, first_thread,
  tid, state, priority, return_value,            (* fields of each tcb      *)
  lock_state, lock_wait_queue,                   (* fields of each mutex    *)
  pc,              (* where each thread is                                  *)
  tcb_node,        (* the local tcb pointer of the call a thread is in      *)
  mutex,           (* the mutex argument of the call a thread is in         *)
  handler,         (* what the SIGALRM handler is doing                     *)
  process,         (* the fate of the process                               *)
  held,            (* client: the mutexes a thread has locked               *)
  usable,          (* client: the mutexes that were initialised             *)
  handles,         (* client: the tids create has stored in *thread         *)
  joined           (* client: the outcome of a thread's latest join         *)

queues  == <<mlpq, lock_wait_queue>>
fields  == <<tid, state, priority, return_value>>
globals == <<current_tcb, interrupted, HAS_RUN, AFTER_UNLOCK_PRIORITY, TID,
             first_thread>>
client  == <<held, usable, handles, joined>>
vars == <<queues, fields, globals, lock_state, pc, tcb_node, mutex, handler,
          process, client>>

NoMutex == "no mutex"

TypeOK ==
  /\ mlpq \in [Levels -> Seq(Tcbs)]
  /\ current_tcb \in Tcbs \cup {NoTcb}
  /\ interrupted \in Tcbs
  /\ HAS_RUN \in Nat
  /\ AFTER_UNLOCK_PRIORITY \in Levels \cup {-1}
  /\ TID \in 0 .. MaxThreads
  /\ first_thread \in BOOLEAN
  /\ tid \in [Tcbs -> 0 .. MaxThreads]
  /\ state \in [Tcbs -> ThreadStates]
  /\ priority \in [Tcbs -> Levels]
  /\ return_value \in [Tcbs -> ReturnValues]
  /\ lock_state \in [Mutexes -> {"LOCKED", "UNLOCKED"}]
  /\ lock_wait_queue \in [Mutexes -> Seq(Tcbs)]
  /\ pc \in [Tcbs -> Points]
  /\ tcb_node \in [Tcbs -> Tcbs \cup {NoTcb}]
  /\ mutex \in [Tcbs -> Mutexes \cup {NoMutex}]
  /\ handler \in {"idle", "yield", "after_unlock"}
  /\ process \in {"alive", "crashed", "exited"}
  /\ held \in [Tcbs -> SUBSET Mutexes]
  /\ usable \subseteq Mutexes
  /\ handles \subseteq 0 .. MaxThreads
  /\ joined \in [Tcbs -> ReturnValues \cup {"none", "error"}]

(* PHYSICAL_MEMORY is static, so a tcb that was never written reads as 0.  *)
Init ==
  /\ mlpq = [l \in Levels |-> <<>>]
  /\ current_tcb = NoTcb
  /\ interrupted = Main
  /\ HAS_RUN = 0
  /\ AFTER_UNLOCK_PRIORITY = -1
  /\ TID = 0
  /\ first_thread = FALSE
  /\ tid = [n \in Tcbs |-> 0]
  /\ state = [n \in Tcbs |-> "RUNNING"]
  /\ priority = [n \in Tcbs |-> 0]
  /\ return_value = [n \in Tcbs |-> "unset"]
  /\ lock_state = [m \in Mutexes |-> "UNLOCKED"]
  /\ lock_wait_queue = [m \in Mutexes |-> <<>>]
  /\ pc = [n \in Tcbs |-> IF n = Main THEN "user" ELSE "none"]
  /\ tcb_node = [n \in Tcbs |-> NoTcb]
  /\ mutex = [n \in Tcbs |-> NoMutex]
  /\ handler = "idle"
  /\ process = "alive"
  /\ held = [n \in Tcbs |-> {}]
  /\ usable = {}
  /\ handles = {}
  /\ joined = [n \in Tcbs |-> "none"]

-----------------------------------------------------------------------------
(* Before the first create there is no current_tcb and main is running.    *)
(* A helper that finds nobody to run leaves current_tcb NULL and returns   *)
(* to the thread that the signal interrupted.                              *)
Running == IF current_tcb = NoTcb THEN interrupted ELSE current_tcb

(* Thread t is running library or client code at point p.                  *)
At(t, p) ==
  /\ process = "alive"
  /\ handler = "idle"
  /\ Running = t
  /\ pc[t] = p

Least(S) == CHOOSE x \in S : \A y \in S : x <= y

Goto(t, p) == pc' = [pc EXCEPT ![t] = p]

(* A null pointer is dereferenced or the handler's stack is exhausted.     *)
Crash ==
  /\ process' = "crashed"
  /\ UNCHANGED <<queues, fields, globals, lock_state, pc, tcb_node, mutex,
                 handler, client>>

(* Mutants of enqueue: last in is first out; and the branch for an empty   *)
(* queue taken with one tcb in it.                                         *)
enqueue_front(q, n) == <<n>> \o q
enqueue_overwrites(q, n) == IF Len(q) <= 1 THEN <<n>> ELSE Append(q, n)

enqueue(q, n) == Append(q, n)

(* Mutant of dequeue: head is not advanced.                                *)
dequeue_peeks(q) == q

(* What dequeue leaves of the queue; what it returns is peek.              *)
dequeue(q) == IF q = <<>> THEN <<>> ELSE Tail(q)

peek(q) == IF q = <<>> THEN NoTcb ELSE Head(q)

(* schedule_thread sets the priority and enqueues; the state is untouched. *)
Scheduled(q, n, level) == [q EXCEPT ![level] = enqueue(@, n)]

-----------------------------------------------------------------------------
(*                        my_pthread_create                                *)

(* Lines 524-547: on the first call a tcb for main is made and scheduled;  *)
(* then a tcb is allocated for the thread and TID is incremented.          *)
Create(t) ==
  /\ At(t, "user")
  /\ t \in Creators
  /\ TID < MaxThreads
  /\ tcb_node' = [tcb_node EXCEPT ![t] = TID + 1]
  /\ TID' = TID + 1
  /\ IF TID = 0
       THEN /\ current_tcb' = Main
            /\ state' = [state EXCEPT ![Main] = "READY"]
            /\ mlpq' = Scheduled(mlpq, Main, 0)
       ELSE UNCHANGED <<current_tcb, state, mlpq>>
  /\ Goto(t, "create_tid")
  /\ UNCHANGED <<lock_wait_queue, tid, priority, return_value, interrupted,
                 HAS_RUN, AFTER_UNLOCK_PRIORITY, first_thread, lock_state,
                 mutex, handler, process, client>>

(* tcb_node->tid = TID reads the global again.                             *)
CreateTid(t) ==
  /\ At(t, "create_tid")
  /\ tid' = [tid EXCEPT ![tcb_node[t]] = TID]
  /\ Goto(t, "create_handle")
  /\ UNCHANGED <<queues, state, priority, return_value, globals, lock_state,
                 tcb_node, mutex, handler, process, client>>

(* *thread = TID reads it once more.                                       *)
CreateHandle(t) ==
  /\ At(t, "create_handle")
  /\ handles' = handles \cup {TID}
  /\ Goto(t, "create_sched")
  /\ UNCHANGED <<queues, fields, globals, lock_state, tcb_node, mutex,
                 handler, process, held, usable, joined>>

CreateSchedule(t) ==
  /\ At(t, "create_sched")
  /\ LET n == tcb_node[t] IN
       /\ state' = [state EXCEPT ![n] = "READY"]
       /\ priority' = [priority EXCEPT ![n] = 0]
       /\ mlpq' = Scheduled(mlpq, n, 0)
       /\ pc' = [pc EXCEPT ![t] = "create_timer", ![n] = "entry"]
  /\ tcb_node' = [tcb_node EXCEPT ![t] = NoTcb]
  /\ UNCHANGED <<lock_wait_queue, tid, return_value, globals, lock_state,
                 mutex, handler, process, client>>

(* The first create installs the SIGALRM handler and starts the timer.     *)
CreateTimer(t) ==
  /\ At(t, "create_timer")
  /\ first_thread' = TRUE
  /\ Goto(t, "user")
  /\ UNCHANGED <<queues, fields, current_tcb, interrupted, HAS_RUN,
                 AFTER_UNLOCK_PRIORITY, TID, lock_state, tcb_node, mutex,
                 handler, process, client>>

-----------------------------------------------------------------------------
(*              thread_function_wrapper and my_pthread_exit                *)

WrapperEntry(t) ==
  /\ At(t, "entry")
  /\ state' = [state EXCEPT ![t] = "RUNNING"]
  /\ Goto(t, "user")
  /\ UNCHANGED <<queues, tid, priority, return_value, globals, lock_state,
                 tcb_node, mutex, handler, process, client>>

(* The thread's function returns to the wrapper.  (The client is taken not *)
(* to leave its function, or call exit, with a mutex locked.)              *)
FunctionReturns(t) ==
  /\ At(t, "user")
  /\ t # Main
  /\ held[t] = {}
  /\ Goto(t, "wrap_check")
  /\ UNCHANGED <<queues, fields, globals, lock_state, tcb_node, mutex,
                 handler, process, client>>

(* Mutants of WrapperCheck: the result is stored only after an exit; the   *)
(* state is not looked at, so a value passed to exit is overwritten.       *)
WrapperCheckSkipsResult(t) ==
  /\ At(t, "wrap_check")
  /\ Goto(t, IF state[t] = "TERMINATED" THEN "wrap_pause_exit"
                                        ELSE "wrap_term")
  /\ UNCHANGED <<queues, fields, globals, lock_state, tcb_node, mutex,
                 handler, process, client>>
WrapperCheckIgnoresExit(t) ==
  /\ At(t, "wrap_check")
  /\ Goto(t, "wrap_ret")
  /\ UNCHANGED <<queues, fields, globals, lock_state, tcb_node, mutex,
                 handler, process, client>>

WrapperCheck(t) ==
  /\ At(t, "wrap_check")
  /\ Goto(t, IF state[t] = "TERMINATED" THEN "wrap_pause_exit"
                                        ELSE "wrap_ret")
  /\ UNCHANGED <<queues, fields, globals, lock_state, tcb_node, mutex,
                 handler, process, client>>

WrapperStoresResult(t) ==
  /\ At(t, "wrap_ret")
  /\ return_value' = [return_value EXCEPT ![t] = "returned"]
  /\ Goto(t, "wrap_term")
  /\ UNCHANGED <<queues, tid, state, priority, globals, lock_state, tcb_node,
                 mutex, handler, process, client>>

WrapperTerminates(t) ==
  /\ At(t, "wrap_term")
  /\ state' = [state EXCEPT ![t] = "TERMINATED"]
  /\ Goto(t, "wrap_pause_end")
  /\ UNCHANGED <<queues, tid, priority, return_value, globals, lock_state,
                 tcb_node, mutex, handler, process, client>>

(* The wrapper itself returns: uc_link is 0, so the process exits.         *)
WrapperReturns(t) ==
  /\ At(t, "wrap_end")
  /\ process' = "exited"
  /\ UNCHANGED <<queues, fields, globals, lock_state, pc, tcb_node, mutex,
                 handler, client>>

(* main returns, and with it the process exits, whoever else is running.   *)
MainReturns(t) ==
  /\ At(t, "user")
  /\ t = Main
  /\ process' = "exited"
  /\ UNCHANGED <<queues, fields, globals, lock_state, pc, tcb_node, mutex,
                 handler, client>>

(* SIGALRM is blocked here; the call returns to its caller, which may call *)
(* exit again.                                                             *)
Exit(t) ==
  /\ At(t, "user")
  /\ held[t] = {}
  /\ \E value_ptr \in ExitValues :
       IF current_tcb = NoTcb
       THEN Crash
       ELSE /\ return_value' = [return_value EXCEPT ![t] = value_ptr]
            /\ state' = [state EXCEPT ![t] = "TERMINATED"]
            /\ UNCHANGED <<queues, tid, priority, globals, lock_state, pc,
                           tcb_node, mutex, handler, process, client>>

-----------------------------------------------------------------------------
(*                          my_pthread_join                                *)

(* get_tcb: the first tcb with that tid in the run queues, searched with   *)
(* SIGALRM blocked.  The wait queues of the mutexes are not searched.      *)
get_tcb(id) ==
  LET Matches(l) == {i \in 1 .. Len(mlpq[l]) : tid[mlpq[l][i]] = id}
      levels == {l \in Levels : Matches(l) # {}}
      first == Least(levels)
  IN IF levels = {} THEN NoTcb ELSE mlpq[first][Least(Matches(first))]

(* my_pthread_join up to its busy wait.                                    *)
JoinThread(t, id) ==
  /\ At(t, "user")
  /\ IF get_tcb(id) = NoTcb
       THEN /\ joined' = [joined EXCEPT ![t] = "error"]
            /\ UNCHANGED <<pc, tcb_node>>
       ELSE /\ tcb_node' = [tcb_node EXCEPT ![t] = get_tcb(id)]
            /\ joined' = [joined EXCEPT ![t] = "none"]
            /\ Goto(t, "join_spin")
  /\ UNCHANGED <<queues, fields, globals, lock_state, mutex, handler, process,
                 held, usable, handles>>

(* No thread joins itself.                                                 *)
Join(t) == t \in Joiners /\ \E id \in handles \ {tid[t]} : JoinThread(t, id)

(* Mutant of JoinSpin: waits only while the thread is RUNNING.             *)
JoinSpinWhileRunning(t) ==
  /\ At(t, "join_spin")
  /\ state[tcb_node[t]] # "RUNNING"
  /\ Goto(t, "join_read")
  /\ UNCHANGED <<queues, fields, globals, lock_state, tcb_node, mutex,
                 handler, process, client>>

(* The busy wait: only the iteration that leaves the loop is a step.       *)
JoinSpin(t) ==
  /\ At(t, "join_spin")
  /\ state[tcb_node[t]] = "TERMINATED"
  /\ Goto(t, "join_read")
  /\ UNCHANGED <<queues, fields, globals, lock_state, tcb_node, mutex,
                 handler, process, client>>

JoinRead(t) ==
  /\ At(t, "join_read")
  /\ joined' = [joined EXCEPT ![t] = return_value[tcb_node[t]]]
  /\ tcb_node' = [tcb_node EXCEPT ![t] = NoTcb]
  /\ Goto(t, "user")
  /\ UNCHANGED <<queues, fields, globals, lock_state, mutex, handler, process,
                 held, usable, handles>>

-----------------------------------------------------------------------------
(*                              mutexes                                    *)

(* my_pthread_mutex_init, once for each mutex, with SIGALRM blocked.  The  *)
(* init_scheduler it may call makes an empty scheduler, like Init.         *)
MutexInit(t) ==
  /\ At(t, "user")
  /\ \E m \in Mutexes \ usable :
       /\ usable' = usable \cup {m}
       /\ lock_state' = [lock_state EXCEPT ![m] = "UNLOCKED"]
       /\ lock_wait_queue' = [lock_wait_queue EXCEPT ![m] = <<>>]
  /\ UNCHANGED <<mlpq, fields, globals, pc, tcb_node, mutex, handler, process,
                 held, handles, joined>>

(* my_pthread_mutex_lock reads current_tcb->priority before anything else; *)
(* it is the caller's, which does not change while the call lasts.         *)
MutexLock(t) ==
  /\ At(t, "user")
  /\ \E m \in usable \ held[t] :
       IF current_tcb = NoTcb
         THEN Crash
         ELSE /\ mutex' = [mutex EXCEPT ![t] = m]
              /\ Goto(t, "lock_tas")
              /\ UNCHANGED <<queues, fields, globals, lock_state, tcb_node,
                             handler, process, client>>

(* Mutant of TestAndSet: the old value of the lock is not looked at.       *)
TestAndSetBlind(t) ==
  /\ At(t, "lock_tas")
  /\ lock_state' = [lock_state EXCEPT ![mutex[t]] = "LOCKED"]
  /\ held' = [held EXCEPT ![t] = @ \cup {mutex[t]}]
  /\ mutex' = [mutex EXCEPT ![t] = NoMutex]
  /\ Goto(t, "user")
  /\ UNCHANGED <<queues, fields, globals, tcb_node, handler, process,
                 usable, handles, joined>>

(* __sync_lock_test_and_set(&mutex->state, LOCKED) is one atomic step.     *)
TestAndSet(t) ==
  /\ At(t, "lock_tas")
  /\ IF lock_state[mutex[t]] = "UNLOCKED"
       THEN /\ lock_state' = [lock_state EXCEPT ![mutex[t]] = "LOCKED"]
            /\ held' = [held EXCEPT ![t] = @ \cup {mutex[t]}]
            /\ mutex' = [mutex EXCEPT ![t] = NoMutex]
            /\ Goto(t, "user")
       ELSE /\ Goto(t, "lock_deq")
            /\ UNCHANGED <<lock_state, held, mutex>>
  /\ UNCHANGED <<queues, fields, globals, tcb_node, handler, process,
                 usable, handles, joined>>

(* The head of the run queue is taken to be the caller.                    *)
LockDequeue(t) ==
  /\ At(t, "lock_deq")
  /\ LET level == priority[t] IN
       /\ tcb_node' = [tcb_node EXCEPT ![t] = peek(mlpq[level])]
       /\ mlpq' = [mlpq EXCEPT ![level] = dequeue(@)]
  /\ Goto(t, "lock_enq")
  /\ UNCHANGED <<lock_wait_queue, fields, globals, lock_state, mutex, handler,
                 process, client>>

LockEnqueue(t) ==
  /\ At(t, "lock_enq")
  /\ IF tcb_node[t] = NoTcb
       THEN Crash
       ELSE /\ lock_wait_queue' = [lock_wait_queue EXCEPT
                                     ![mutex[t]] = enqueue(@, tcb_node[t])]
            /\ tcb_node' = [tcb_node EXCEPT ![t] = NoTcb]
            /\ Goto(t, "lock_pause")
            /\ UNCHANGED <<mlpq, fields, globals, lock_state, mutex, handler,
                           process, client>>

(* __sync_lock_release                                                     *)
MutexUnlock(t) ==
  /\ At(t, "user")
  /\ \E m \in held[t] :
       /\ lock_state' = [lock_state EXCEPT ![m] = "UNLOCKED"]
       /\ held' = [held EXCEPT ![t] = @ \ {m}]
       /\ mutex' = [mutex EXCEPT ![t] = m]
  /\ Goto(t, "unlock_deq")
  /\ UNCHANGED <<queues, fields, globals, tcb_node, handler, process, usable,
                 handles, joined>>

(* Mutants of UnlockDequeue: the waiter is peeked at and stays in the wait *)
(* queue; no test for an empty wait queue.                                 *)
UnlockDequeuePeeks(t) ==
  /\ At(t, "unlock_deq")
  /\ tcb_node' = [tcb_node EXCEPT ![t] = peek(lock_wait_queue[mutex[t]])]
  /\ Goto(t, IF lock_wait_queue[mutex[t]] = <<>> THEN "unlock_mark"
                                                 ELSE "unlock_sched")
  /\ mutex' = [mutex EXCEPT ![t] = NoMutex]
  /\ UNCHANGED <<queues, fields, globals, lock_state, handler, process, client>>
UnlockDequeueUnchecked(t) ==
  /\ At(t, "unlock_deq")
  /\ tcb_node' = [tcb_node EXCEPT ![t] = peek(lock_wait_queue[mutex[t]])]
  /\ lock_wait_queue' = [lock_wait_queue EXCEPT ![mutex[t]] = dequeue(@)]
  /\ Goto(t, "unlock_sched")
  /\ mutex' = [mutex EXCEPT ![t] = NoMutex]
  /\ UNCHANGED <<mlpq, fields, globals, lock_state, handler, process, client>>

UnlockDequeue(t) ==
  /\ At(t, "unlock_deq")
  /\ tcb_node' = [tcb_node EXCEPT ![t] = peek(lock_wait_queue[mutex[t]])]
  /\ lock_wait_queue' = [lock_wait_queue EXCEPT ![mutex[t]] = dequeue(@)]
  /\ Goto(t, IF lock_wait_queue[mutex[t]] = <<>> THEN "unlock_mark"
                                                 ELSE "unlock_sched")
  /\ mutex' = [mutex EXCEPT ![t] = NoMutex]
  /\ UNCHANGED <<mlpq, fields, globals, lock_state, handler, process, client>>

UnlockSchedule(t) ==
  /\ At(t, "unlock_sched")
  /\ priority' = [priority EXCEPT ![tcb_node[t]] = 0]
  /\ mlpq' = Scheduled(mlpq, tcb_node[t], 0)
  /\ tcb_node' = [tcb_node EXCEPT ![t] = NoTcb]
  /\ Goto(t, "unlock_mark")
  /\ UNCHANGED <<lock_wait_queue, tid, state, return_value, globals,
                 lock_state, mutex, handler, process, client>>

(* Mutant of UnlockMark: the level below the caller's is marked.           *)
UnlockMarkNextLevel(t) ==
  /\ At(t, "unlock_mark")
  /\ AFTER_UNLOCK_PRIORITY' = (priority[t] + 1) % NUMBER_LEVELS
  /\ Goto(t, "user")
  /\ UNCHANGED <<queues, fields, current_tcb, interrupted, HAS_RUN, TID,
                 first_thread, lock_state, tcb_node, mutex, handler, process,
                 client>>

UnlockMark(t) ==
  /\ At(t, "unlock_mark")
  /\ IF current_tcb = NoTcb
       THEN Crash
       ELSE /\ AFTER_UNLOCK_PRIORITY' = priority[t]
            /\ Goto(t, "user")
            /\ UNCHANGED <<queues, fields, current_tcb, interrupted, HAS_RUN,
                           TID, first_thread, lock_state, tcb_node, mutex,
                           handler, process, client>>

-----------------------------------------------------------------------------
(*                 signal_handler and the yield helpers                    *)

(* Any signal makes pause() return in the thread it interrupts.            *)
AfterPause(p) ==
  CASE p = "lock_pause"      -> "lock_tas"
    [] p = "wrap_pause_exit" -> "wrap_ret"
    [] p = "wrap_pause_end"  -> "wrap_end"
    [] OTHER                 -> p

(* signal_handler: a yield helper is called when the slice has expired.    *)
SignalHandler(expired) ==
  IF current_tcb = NoTcb
  THEN Crash
  ELSE /\ handler' = IF ~expired THEN "idle"
                     ELSE IF AFTER_UNLOCK_PRIORITY # -1 THEN "after_unlock"
                     ELSE "yield"
       /\ pc' = [pc EXCEPT ![current_tcb] = AfterPause(@)]
       /\ UNCHANGED <<queues, fields, globals, lock_state, tcb_node, mutex,
                      process, client>>

(* The interval timer raises SIGALRM.                                      *)
Tick(expired) ==
  /\ process = "alive" /\ handler = "idle" /\ first_thread
  /\ expired \/ EarlyTicks
  /\ SignalHandler(expired)

(* my_pthread_yield raises it; with no handler installed yet the default   *)
(* action ends the process.                                                *)
Yield(t) ==
  /\ At(t, "user")
  /\ IF first_thread
       THEN \E expired \in BOOLEAN : SignalHandler(expired)
       ELSE Crash

(* Mutant of StartsOver: the level is left one dispatch too late.          *)
StartsOverLate(q) == HAS_RUN > Len(q) + 1

(* HAS_RUN has reached the size of the current level.                      *)
StartsOver(q) == HAS_RUN >= Len(q)

FirstHead(q, S) ==
  LET nonempty == {l \in S : q[l] # <<>>}
  IN IF nonempty = {} THEN NoTcb ELSE peek(q[Least(nonempty)])

(* Mutant of LowestHead: the scan starts at level 1.                       *)
LowestHeadSkipsTop(q) == FirstHead(q, Levels \ {0})

LowestHead(q) == FirstHead(q, Levels)

(* The tcb peeked at after level cp: its own head, or, when HAS_RUN has    *)
(* reached the level's size, the first head of the NUMBER_LEVELS - 1       *)
(* levels that follow cp cyclically, or failing that the lowest level's.   *)
Successor(cp, q) ==
  LET start == IF cp = NUMBER_LEVELS - 1 THEN 0 ELSE cp + 1
      Level(i) == (start + i) % NUMBER_LEVELS
      ahead == {i \in 0 .. NUMBER_LEVELS - 2 : q[Level(i)] # <<>>}
  IN IF ~StartsOver(q[cp]) THEN peek(q[cp])
     ELSE IF ahead # {} THEN peek(q[Level(Least(ahead))])
     ELSE LowestHead(q)

(* Mutant of Skipped: a terminated tcb is dispatched.                      *)
SkippedYieldOnly == {"YIELD"}

Skipped == {"YIELD", "TERMINATED"}

(* The common tail of both helpers: run the successor, or start over from  *)
(* it when it has terminated.  With every level empty the helper leaves    *)
(* current_tcb NULL and returns to the thread the signal interrupted, which*)
(* runs on until it, or the next tick, follows that pointer.  (The yield   *)
(* helper has just scheduled a tcb, so it is the first call, and           *)
(* current_tcb the interrupted thread, when that happens.)                 *)
Dispatch(cp, q, st) ==
  LET next == Successor(cp, q)
      hr == IF StartsOver(q[cp]) THEN 0 ELSE HAS_RUN
  IN IF next = NoTcb
     THEN /\ current_tcb' = NoTcb
          /\ interrupted' = current_tcb
          /\ state' = st
          /\ HAS_RUN' = hr
          /\ handler' = "idle"
     ELSE /\ current_tcb' = next
          /\ state' = [st EXCEPT ![next] = CASE @ = "YIELD"      -> "READY"
                                             [] @ = "TERMINATED" -> @
                                             [] OTHER            -> "RUNNING"]
          /\ HAS_RUN' = IF st[next] \in Skipped THEN hr ELSE hr + 1
          /\ handler' = IF st[next] \in Skipped THEN "yield" ELSE "idle"
          /\ UNCHANGED interrupted

AllTerminated ==
  \A l \in Levels : \A i \in 1 .. Len(mlpq[l]) :
     state[mlpq[l][i]] = "TERMINATED"

(* Mutant of Yielded: the dequeued tcb is READY whatever it was.           *)
YieldedAlways(n) == [state EXCEPT ![n] = "READY"]

Yielded(n) == IF state[n] = "TERMINATED" THEN state
              ELSE [state EXCEPT ![n] = "READY"]

(* One invocation of my_pthread_yield_helper.  It dequeues the head of the *)
(* current level, whoever that is.  When every scheduled thread has        *)
(* terminated its recursion has no end but the end of the signal stack.    *)
YieldHelper ==
  /\ process = "alive" /\ handler = "yield"
  /\ LET cp == priority[current_tcb]
         node == peek(mlpq[cp])
     IN IF node = NoTcb \/ AllTerminated
          THEN Crash
          ELSE LET q == Scheduled([mlpq EXCEPT ![cp] = dequeue(@)],
                                  node, priority[node])
               IN /\ mlpq' = q
                  /\ Dispatch(cp, q, Yielded(node))
                  /\ UNCHANGED <<lock_wait_queue, tid, priority, return_value,
                                 AFTER_UNLOCK_PRIORITY, TID, first_thread,
                                 lock_state, pc, tcb_node, mutex, process,
                                 client>>

(* my_pthread_yield_after_unlock_helper does not rotate the queue.         *)
YieldAfterUnlockHelper ==
  /\ process = "alive" /\ handler = "after_unlock"
  /\ AFTER_UNLOCK_PRIORITY' = -1
  /\ Dispatch(AFTER_UNLOCK_PRIORITY, mlpq, state)
  /\ UNCHANGED <<queues, tid, priority, return_value, TID, first_thread,
                 lock_state, pc, tcb_node, mutex, process, client>>

-----------------------------------------------------------------------------
(* What a thread does once it has been dispatched.                         *)
ThreadStep(t) ==
  \/ CreateTid(t) \/ CreateHandle(t) \/ CreateSchedule(t) \/ CreateTimer(t)
  \/ WrapperEntry(t) \/ WrapperCheck(t) \/ WrapperStoresResult(t)
  \/ WrapperTerminates(t) \/ WrapperReturns(t)
  \/ JoinSpin(t) \/ JoinRead(t)
  \/ TestAndSet(t) \/ LockDequeue(t) \/ LockEnqueue(t)
  \/ UnlockDequeue(t) \/ UnlockSchedule(t) \/ UnlockMark(t)

(* What the client may ask for next.                                       *)
ClientCall(t) ==
  \/ Create(t) \/ Join(t) \/ Exit(t) \/ Yield(t)
  \/ FunctionReturns(t) \/ MainReturns(t)
  \/ MutexInit(t) \/ MutexLock(t) \/ MutexUnlock(t)

HandlerStep == YieldHelper \/ YieldAfterUnlockHelper

Next ==
  \/ \E t \in Tcbs : ThreadStep(t) \/ ClientCall(t)
  \/ \E expired \in BOOLEAN : Tick(expired)
  \/ HandlerStep

Spec == Init /\ [][Next]_vars

(***************************************************************************)
(* Correctness.                                                            *)
(***************************************************************************)

(* Mutual exclusion, and agreement of mutex->state with it: at every point *)
(* at which a signal can switch threads (inside lock and unlock too), a    *)
(* mutex is LOCKED exactly when one thread is between the return of        *)
(* my_pthread_mutex_lock and the release in my_pthread_mutex_unlock.       *)
MutualExclusion ==
  \A m \in Mutexes :
    /\ \A s, t \in Tcbs : m \in held[s] /\ m \in held[t] => s = t
    /\ (lock_state[m] = "LOCKED") <=> (\E t \in Tcbs : m \in held[t])

(* The tcbs the scheduler is responsible for.                              *)
Scheduler_tcbs == {n \in Tcbs : pc[n] # "none" /\ (n # Main \/ TID > 0)}

QueueSlots(n) ==
  {p \in Levels \X (1 .. MaxThreads + 1) :
     p[2] <= Len(mlpq[p[1]]) /\ mlpq[p[1]][p[2]] = n}
WaitSlots(n) ==
  {p \in Mutexes \X (1 .. MaxThreads + 1) :
     p[2] <= Len(lock_wait_queue[p[1]]) /\ lock_wait_queue[p[1]][p[2]] = n}
Carriers(n) ==
  {t \in Tcbs : pc[t] \in {"lock_enq", "unlock_sched"} /\ tcb_node[t] = n}

(* However lock, unlock, create and the handler interleave, each tcb is in *)
(* exactly one place: a level of the run queue, one mutex's wait queue, or *)
(* the local variable of a call that is moving it between the two.         *)
TcbConservation ==
  \A n \in Scheduler_tcbs :
    Cardinality(QueueSlots(n)) + Cardinality(WaitSlots(n))
      + Cardinality(Carriers(n)) = 1

(* With no caller of scheduler_maintenance, nothing leaves level 0: the    *)
(* multi-level queue is one queue, whatever HAS_RUN makes the helpers scan.*)
SingleLevel ==
  /\ \A l \in Levels \ {0} : mlpq[l] = <<>>
  /\ \A n \in Tcbs : priority[n] = 0
  /\ AFTER_UNLOCK_PRIORITY \in {-1, 0}

(* HAS_RUN is compared with a queue length and counts dispatches since it  *)
(* last reached it; it never passes the number of tcbs.                    *)
HasRunBounded == HAS_RUN <= MaxThreads + 1

(* A running thread that is in the run queue is at its head: the yield     *)
(* helper and mutex_lock dequeue the head and take it for the caller.      *)
RunningIsHead ==
  (process = "alive" /\ handler = "idle" /\ current_tcb # NoTcb) =>
    \A i \in 1 .. Len(mlpq[priority[current_tcb]]) :
      mlpq[priority[current_tcb]][i] = current_tcb => i = 1

(* A thread that runs client code is in the run queue, where join and the  *)
(* other threads' yields can find it.                                      *)
ClientCodeIsScheduled ==
  (process = "alive" /\ handler = "idle" /\ current_tcb # NoTcb
     /\ pc[current_tcb] = "user") => QueueSlots(current_tcb) # {}

(* A terminated tcb never becomes READY or RUNNING again, although every   *)
(* rotation of the queue and every dispatch rewrites states.               *)
TerminatedForever ==
  [][\A n \in Tcbs : state[n] = "TERMINATED" => state'[n] = "TERMINATED"]_vars

(* When the handler gives the processor to a thread, that thread had not   *)
(* terminated and is at the head of its level.                             *)
ResumesLiveHead ==
  [][(handler # "idle" /\ handler' = "idle" /\ current_tcb' # NoTcb) =>
       /\ state[current_tcb'] # "TERMINATED"
       /\ mlpq'[priority'[current_tcb']] # <<>>
       /\ Head(mlpq'[priority'[current_tcb']]) = current_tcb']_vars

(* A join that succeeds has read the value its thread delivered, not what  *)
(* was in *return_value before: the wrapper stores the value first and     *)
(* publishes TERMINATED second.                                            *)
JoinReadsDelivered ==
  \A t \in Tcbs : joined[t] # "unset"

(* Once the function of a terminated thread has returned, what it had      *)
(* passed to exit is not replaced, neither by the wrapper, which stores    *)
(* what functions return, nor by another thread: later joins agree.        *)
ExitSurvivesReturn ==
  [][\A n \in Tcbs : state[n] = "TERMINATED" /\ pc[n] # "user" =>
       return_value'[n] = return_value[n]]_vars

(* A null pointer is followed, or the handler recurses without end, only   *)
(* when no scheduled thread could have run: before the first create, or    *)
(* with nothing but terminated threads left in the run queue.  In          *)
(* particular a thread that runs on with current_tcb NULL never gets as    *)
(* far as to put another thread back before it crashes.                    *)
CrashOnlyWhenStuck ==
  process = "crashed" => (TID = 0 \/ ~first_thread \/ AllTerminated)

(* A thread in a mutex's wait queue is inside my_pthread_mutex_lock of     *)
(* that very mutex and has not got it.                                     *)
WaitersWantTheMutex ==
  \A m \in Mutexes : \A i \in 1 .. Len(lock_wait_queue[m]) :
    LET n == lock_wait_queue[m][i]
    IN /\ mutex[n] = m /\ m \notin held[n]
       /\ pc[n] \in {"lock_tas", "lock_deq", "lock_enq", "lock_pause"}

-----------------------------------------------------------------------------
(* A claim of the code's comments that the code does not keep.             *)

(* my_pthread.c:785: an unlock puts the head of the wait queue back on the *)
(* run queue.  So a waiter of a free mutex has somebody on the way to wake *)
(* it: a thread in the middle of unlock, or one already taken off the      *)
(* queue that will lock the mutex and unlock it again.                     *)
NoStrandedWaiter ==
  process = "alive" =>
    \A m \in Mutexes :
      (lock_wait_queue[m] # <<>> /\ lock_state[m] = "UNLOCKED") =>
        \E t \in Tcbs :
          /\ mutex[t] = m
          /\ \A i \in 1 .. Len(lock_wait_queue[m]) : lock_wait_queue[m][i] # t

-----------------------------------------------------------------------------
(* my_pthread.c:402: "basically round robin, everything stays on the first *)
(* level".  Whatever HAS_RUN, the scan of the levels and the mark of an    *)
(* unlock make of them, the two helpers serve one queue in turn.           *)
OneQueue ==
  INSTANCE RoundRobin WITH
    Threads <- Tcbs, None <- NoTcb,
    ready <- mlpq[0], current <- IF TID = 0 THEN NoTcb ELSE Running,
    done <- {n \in Tcbs : state[n] = "TERMINATED"},
    choosing <- handler # "idle",
    released <- AFTER_UNLOCK_PRIORITY # -1
ServesInTurn == OneQueue!Spec

-----------------------------------------------------------------------------
(* Fairness.  A dispatched thread executes many instructions before the    *)
(* next tick (the slice is 5 ms or more), the handler runs to completion   *)
(* with SIGALRM blocked, and the interval timer never stops.               *)
Fairness ==
  /\ \A t \in Tcbs : SF_vars(ThreadStep(t))
  /\ WF_vars(HandlerStep)
  /\ SF_vars(Tick(TRUE))

FairSpec == Spec /\ Fairness

(* my_pthread_t.h:26: a scheduled thread is in line to be run: unless it   *)
(* has terminated, it is dispatched after finitely many ticks.             *)
ReadyThreadRuns ==
  \A n \in Tcbs :
    (QueueSlots(n) # {} /\ state[n] # "TERMINATED")
      ~> (process # "alive" \/ (handler = "idle" /\ current_tcb = n))

(* Once the function of a joined thread has returned, the joiner's busy    *)
(* wait ends.                                                              *)
JoinCompletes ==
  \A t \in Tcbs, n \in Tcbs :
    (pc[t] = "join_spin" /\ tcb_node[t] = n /\ pc[n] = "wrap_check")
      ~> (process # "alive" \/ pc[t] # "join_spin")
=============================================================================
