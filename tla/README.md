# A specification of virtual_memory_simulation

The repository is a user-level thread library in C (`src/my_pthread.c`, with
`my_pthread_t.h`) on top of a simulated paged memory (`src/memory_manager.c`,
with `memory_manager.h`), and three benchmark programs. This directory holds
TLA+ modules that model the library and the allocator, TLC configurations that
model-check them on small instances, and proofs, checked by TLAPS, of theorems
that hold for every value of the constants.

To check a module: `tlc -config SchedulerAllTicks.cfg MCScheduler.tla`; to check
proofs: `tlapm SchedulerProofs.tla`. `PROJECT.json` lists the runs, the code
lines behind each definition ("map"), for each property a mutation of the code
that breaks it ("mutants"), the disagreements between the code and its comments
("findings"), and everything here that is hard to test ("hazards").

## 1. The system

| component | state | operations | with whom it interacts |
|---|---|---|---|
| threads (`my_pthread_create`, `thread_function_wrapper`, `my_pthread_exit`, `my_pthread_join`) | a `tcb` per thread: `tid`, `state`, `priority`, `return_value`, context; globals `TID`, `FIRST_THREAD`, `SCHEDULER_INIT` | create, the wrapper around the thread's function, exit, join (a busy wait) | puts tcbs in the run queue; asks the allocator for tcbs and stacks; join reads other threads' tcbs |
| scheduler (`signal_handler`, both yield helpers, `schedule_thread`) | the multi-level priority queue, `current_tcb`, `HAS_RUN`, `AFTER_UNLOCK_PRIORITY` | runs on every SIGALRM, from the timer or from `my_pthread_yield` | interrupts every other operation at any statement that does not block SIGALRM |
| mutexes (`my_pthread_mutex_*`) | `mutex->state`, `mutex->lock_wait_queue` | init, lock (test-and-set, else wait in the queue and `pause`), unlock, destroy (does nothing) | move tcbs between the run queue and the wait queues |
| queues (`enqueue`, `dequeue`, `peek`) | `head`, `tail`, `size`, links through `next_tcb` | | called by the handler and, with SIGALRM open, by create, lock and unlock |
| time (`time_compare`, `init_timer`) | the interval timer, `recent_start_time`, the slice table | is the slice of the running thread used up? | decides whether the handler calls a yield helper |
| memory manager (`my_allocate`, `allocate_for_*`, `allocate_block`, `assign_page`) | the page list; in each page a block list and `size_of_allocated` | allocate; `my_deallocate` is empty | called by the library and by the client |
| scheduler maintenance (`scheduler_maintenance`, `quick_select`, `get_and_remove_tcb`, `delete_tcb`, ...) | arrays of copied tcbs | promotes the oldest threads to level 0; deletes a joined thread | cuts tcbs out of the queues the handler rotates; both its calls, in `signal_handler` and in join, are commented out |
| swapping | a file descriptor | `swap_pages` is commented out | nothing |
| benchmarks (`src/Benchmark`) | shared arrays and sums | create N threads, join them; lock and unlock around a sum | clients of the library |

What is hard here: the processor is taken away by a signal, at nearly any
statement, and the code blocks the signal in only a few functions (`get_tcb`,
`exit`, `mutex_init` and the handler). `lock` and `unlock` therefore work on the
run queue while the handler rotates it, and take the head of the queue to be
the caller. Finished threads are never removed from the queue. `pause` returns
after any signal, also one whose handler finds the time slice unexpired. The
allocator splits its structures with header sizes that some of its tests leave
out, and recurses where it cannot serve a request; it may lose the processor
between the headers it reads and those it writes. Maintenance changes lists
without their sizes, and opens SIGALRM inside the handler.

What makes each part correct:

- threads: a join reads the value its thread delivered; terminated is for ever;
  a finished thread is never dispatched; a join of a thread that finishes ends.
- scheduler: no tcb is lost or duplicated; the one dispatched is at the head of
  its level; every thread that is ready is dispatched again.
- mutexes: mutual exclusion; waiters wait for the right mutex; a free mutex
  with a waiter has somebody on the way to wake it.
- queues: they are FIFO, and the links, `tail` and `size` agree.
- time: a thread is preempted within its slice and one period of the timer.
- memory: pages tile the memory, blocks tile their page, live blocks are
  disjoint and inside a page of their owner; requests are answered.
- maintenance: the k-th oldest is selected, the oldest are promoted, no tcb is
  lost on the way, and the lists stay fit for `enqueue` and `dequeue`.
- benchmarks: no addition is lost, and main prints after the threads it joined.

## 2. Modules

| module | models |
|---|---|
| `Scheduler` | threads, scheduler and mutexes, with the signal between any two steps. No part of it makes sense alone: they share the run queue |
| `RoundRobin` | abstract: what the scheduler as a whole promises, one queue served in turn; `Scheduler` implements it |
| `Benchmark` | parallelCal as the client of `Scheduler` (EXTENDS it), with the shared sum and `verify` |
| `FifoQueue` | abstract: what the comments of `enqueue` and `dequeue` promise |
| `TcbQueue` | `enqueue` and `dequeue`, one assignment at a time; implements `FifoQueue` |
| `TimeSlice` | clock, timer, `time_compare`, the decision to preempt |
| `MemoryLayout` | pages and blocks, and what one request does to them (operators only) |
| `MemoryManager` | the allocator, one request at a time |
| `AllocatorRace` | the allocator, several threads' requests at a time |
| `Maintenance` | `scheduler_maintenance`, `quick_select`, `delete_tcb` on the linked lists |
| `MCScheduler`, `MCMemoryManager`, `MCBenchmark` | the instances that TLC checks |
| `SchedulerProofs` | types and safety theorems of `Scheduler` |
| `SchedulerRefinementProofs` | that `Scheduler` implements `RoundRobin`, and what follows; EXTENDS `SchedulerProofs` |
| `SchedulerPlacesProofs` | where every tcb is at every moment, and what follows; EXTENDS `SchedulerRefinementProofs` |
| `BenchmarkProofs` | parallelCal on top of all that is proved of `Scheduler`; EXTENDS `Benchmark` and `SchedulerPlacesProofs` |
| `MemoryProofs` | the theorems of `MemoryManager`, with the lemmas about `MemoryLayout` |
| `TcbQueueProofs` | that `TcbQueue` implements `FifoQueue` |
| `TimeSliceProofs` | the theorems of `TimeSlice` |
| `MaintenanceProofs` | the theorems of `Maintenance`, about its lists and about `quick_select` |

### Scheduler

A tcb is the order number of its allocation, 0 being the one for main. `mlpq`,
`current_tcb`, `HAS_RUN`, `AFTER_UNLOCK_PRIORITY`, `TID` and the tcb fields are
the code's variables. `pc[t]` is where a thread is when it is not running: it
replaces the saved context. `tcb_node` and `mutex` are the locals of the call a
thread is in. `interrupted` is no variable of the code: a helper that finds every
level empty leaves `current_tcb` NULL and returns to the thread that the signal
interrupted (610-612, 669-671), which runs on, and `interrupted` says which one that
is (`Running`). The process crashes where the pointer is followed: in the next lock,
at the end of an unlock, in exit, at the next tick. `held`, `usable`, `handles` and `joined` are what the client has
from the library.

*Steps.* A thread's step is the code between two points at which SIGALRM may
come and at which that makes a difference to what other code sees. So `lock` is
`MutexLock`, `TestAndSet`, `LockDequeue`, `LockEnqueue` and then a pause;
`create` is five steps because it reads the global `TID` three times; `exit` and
the search of `join` are one step each because they block SIGALRM. `Tick` is
SIGALRM; in the handler one invocation of a helper is a step, and a helper's
recursive call is the next one. That is why `handler` is a variable. `Successor`
and `Dispatch` are the common part of the two helpers: `HAS_RUN` against the
size of the level, the cyclic scan of the levels after it, and what is done with
the tcb found (a terminated one is skipped by calling the yield helper again).

*An `enqueue` or `dequeue` is one step here.* What happens when a signal splits
one is the subject of `TcbQueue`; it corrupts the list (see the findings), and
nothing of what `Scheduler` says holds of an execution in which it happened.

*`EarlyTicks`.* A tick, or the signal of `my_pthread_yield`, may find that the
slice has not expired. The handler then does nothing, but it still ends a
`pause`. With `EarlyTicks = FALSE` timer ticks are all late (a yield may still
be early); with `TRUE` either may happen. The timer has a period of 25 ms and the slices are 5, 10 and
15 ms, all threads are on level 0, and so every timer tick is late unless a
yield has switched threads since the last tick; that is why both cases are worth
a run.

*Client.* Any thread may at any time call any operation, within the sets
`Creators` and `Joiners` (bounds) and these rules: a thread locks only a mutex
it does not hold and that was initialised, unlocks only one it holds, joins only
another thread whose handle was stored, and neither returns from its function
nor calls exit while it holds a mutex. Each mutex is initialised once. exit is
called with any of `ExitValues`, and, as it returns to its caller, possibly again
with another one. main may return, which ends the process.

*Memory.* The library is modelled on the contract of the allocator: create gets
fresh zeroed memory. As the sources stand the program does not get that far
everywhere: `assign_page` reads `tmp_prev` before it is set, and a stack of 8192
bytes does not fit a page of 4096. `MemoryManager` models what it does do.

### RoundRobin and Benchmark

`OneQueue` in `Scheduler` is the refinement mapping: the queue is level 0, a
choice is under way while the handler is in a helper, a mutex was released when
`AFTER_UNLOCK_PRIORITY` is set. `HAS_RUN`, the scan of the levels, the states
READY and YIELD, the wait queues and everything about calls are gone in the
abstract specification. Its `Leave` takes the head only, its `Add` goes to the end
only, and its choices rotate by one and pass over finished threads only: what the
refinement shows is that lock, unlock, create and the two helpers, each with its
own idea of who is first, amount to that.

`Benchmark` narrows the calls of `Scheduler`'s client to those of parallelCal:
main initialises the mutex, creates the threads, joins each once, ignoring what
join returns, and prints; then it runs `verify`, which sets `sum` to 0 and adds every
row to it without the mutex, and returns. A thread adds its items one by one under
the mutex. `sum` is the set of items in it, each with the thread that added it, and
`sum +=` a load and a store. As everything
here, it assumes that memory is there; that the arrays of the benchmark (rows of
400000 bytes, with `malloc` defined as `my_allocate`) never fit a page is a matter
of `MemoryManager`.

### Maintenance

Here the lists are pointers (`head`, `tail`, `size`, `next_tcb`), since
`get_and_remove_tcb` and `delete_tcb` change the first and leave `size`. A
maintenance is the computation of the array of the oldest (with SIGALRM blocked:
one step) and then, for each, a removal and a scheduling. `get_and_remove_tcb`
unblocks SIGALRM at its end, so ticks come between those. `Partition`,
`quick_select` and `Collected` are recursive functions with the code's index
arithmetic, from 1: a loop is a function of its state, one pass of its body an
operator (`ScanStep`, `NarrowStep`).
As the calls are commented out, the module says what the code would do if they
were not.

### TcbQueue

`queue` is the struct; each assignment of `enqueue` and `dequeue` is a step, a
step through a null pointer does not exist. `Contents` is the refinement
mapping: the list from `head`, `size` long, with `tmp` in front while `dequeue`
has moved `head` and not yet counted. With `Masked = FALSE` the handler's
rotation may come between any two assignments.

### TimeSlice

Time is in microseconds; `Timeval` splits it as `gettimeofday` does, and
`time_compare` compares the halves as the code does, the odd `gap_second`
included. A tick finds `answer # -1` and dispatches somebody at that time.

### MemoryLayout, MemoryManager and AllocatorRace

`pages` is the page list, a page the fields of `struct page` with its block list
as a sequence. In `MemoryManager`, `request` is the call in progress and counts
its recursion (`depth`). A search that finds a block is `AllocateBlock`; one that
does not is `AssignPage`, after which the C function calls itself, also when there
was no page to assign, until the stack of the caller is used up (`StackDepth` nested
calls). Uninitialised pointers are a choice (`Garbage`). The model stops (`process`)
where the C program goes on in a way its source does not determine: a header leaves
memory, the stack is exhausted, a wild pointer is followed, or a block or the header
behind it leaves its page. In the last case the step writes what the code writes
first: where the header of the rest lies over that of the next page, that page may
read as anybody's (`Overwritten`).

In `AllocatorRace` each thread has a request of its own, and a round of the search
is two steps: `Read` copies the headers, `AllocateBlock` or `AssignPage` writes
what follows from the copy. That is coarser than the code, which copies one header
at a time, so what it finds the code can do. The first write from a stale copy is
modelled as it is, and the model stops after it.

## 3. Runs

| run | what it shows |
|---|---|
| `scheduler_all_ticks` | main, two threads, one mutex, early and late ticks, any interleaving of create, lock, unlock, join, yield, return. The types; mutual exclusion; every tcb in exactly one place (`TcbConservation`); one level only; `HAS_RUN` bounded; joins read delivered values; terminated for ever; the handler resumes the head of a level and never a finished thread; and the whole implements `RoundRobin` (`ServesInTurn`; 1.4 million states) |
| `scheduler_late_ticks` | main, two threads, two mutexes, over which they may block each other, exit with two values, late ticks only. What an early tick would break: the running thread is the head that its own `lock` will dequeue; client code is in the run queue; waiters are inside lock of that mutex; a null pointer is followed only when no thread in the run queue could run; and what was passed to exit survives the return of the function (6.2 million states up to symmetry) |
| `scheduler_no_mutex` | no mutexes, two creators and two joiners. Every scheduled thread is dispatched again although finished ones stay in the queue, and the busy wait of a join ends |
| `queue_masked` | three tcbs: `enqueue` and `dequeue` implement `FifoQueue` if SIGALRM is blocked; between calls links, tail and size agree |
| `time_slice` | no thread outlives its slice by more than a period; the handler errs only by preempting early a thread whose slice crosses a second |
| `memory_allocations` | all sequences of requests of two threads and the library until memory or the stack is used up: pages and blocks tile, live blocks are in their owner's pages, data is spared even by the request that leaves its page, which requests recurse and how often, overrun only when full, pages stay assigned but for the one behind such a request (0.9 million states) |
| `maintenance` | up to five tcbs, all start times in {0, 1, 2}, two maintenances or deletions, any ticks: `quick_select` is right for every index, the promoted are the oldest, the lists stay usable, a tcb is lost only if it was alone (0.4 million states) |
| `benchmark` | parallelCal, two threads of two additions, and `verify`: no addition lost; main prints everything of the threads its joins found; `verify` adds up the rows and nothing else if they found all; a join misses only threads that are in `my_pthread_mutex_lock` (5.2 million states) |
| `lost_wakeup` | finding: a waiter sleeps on a free mutex |
| `queue_interrupted` | finding: a tick inside `enqueue` loses a tcb |
| `benchmark_sum` | finding: join fails for a thread that waits for a mutex, and the sum is printed without it |
| `memory_race` | finding: a thread takes back a page that another was given |

*Bounds and why they suffice.* `MaxThreads` is 2 (3 tcbs): a mutex needs an
owner and two waiters at once for order in the wait queue, the queue's rotation
needs more than two for the order to matter, and a third tcb is what a mistaken
"the head is me" would hit. `NUMBER_LEVELS` is the program's 3. One mutex with all
ticks, two with late ones: on two mutexes threads can all be blocked, with nobody left to
dispatch, while one of them still owes an unlock, and the properties about that
are checked there. Mutexes are interchangeable, and so are the values passed to exit,
so that run takes them up to symmetry; it leaves out join, which moves no tcb and
which the other run has. `HAS_RUN`, the queues and the client's loops need no bound: the
state space is finite. `TcbQueue` needs three tcbs to have a head, a middle and
a tail. In `TimeSlice` a second is 40 units, a slice 2, 4 or 6, the period 10,
and the clock runs through three seconds: slices inside a second and across its
end, and the ratios of the program's order. The theorem covers all values.
`MemoryManager` has the real header and page sizes; memory is three pages and an
incomplete one (in the program 2047 and an incomplete one); the requests are a
tcb, a stack that fits no page, one that fills a page exactly, one that fits
with its headers, and one that fits without them. The stack holds two nested calls
(`StackDepth`), so that it may be used up before memory is. In the program, as here, memory
behind the metadata is no whole number of pages, so that a header leaves memory before
a search finds no page to assign; what happens otherwise is in the model, and in the
theorem. The two threads are symmetric, and no property checked there is about liveness. The race needs pages
that hold a stack (16384 bytes, as some systems have), or no second thread ever
runs; two threads and two kinds of size are enough for it. `Maintenance` promotes
40 percent instead of the code's 15, so that five tcbs give an array of two (with
15 it takes seven); start times need three values: never, and an older and a
younger. `MaxCalls` is 2: what a maintenance leaves behind meets another. In
`Benchmark` a thread adds two items, so that it meets the mutex held, free and
just released; main joins in the order of creation and verifies four rows. In
`benchmark_sum` one item is enough.

*Deadlock.* Only `TcbQueue` is checked for it. The library may stop: the process
exits or crashes; a lone thread whose `lock` dequeued it waits for a tick that
crashes; the allocator's models stop where the code goes on undetermined, or at a stale write;
`TimeSlice` has a bound on its clock; maintenance ends at a null pointer and the
benchmark when main returns.

*Fairness* (`FairSpec`, used by `scheduler_no_mutex` only). `SF(ThreadStep(t))`:
a dispatched thread runs for at least a slice, thousands of instructions, before
the next tick, so one that is dispatched again and again gets on with its call;
`Tick` disables its step again and again, so weak fairness would not do.
`WF(HandlerStep)`: the handler runs with SIGALRM blocked. `SF(Tick(TRUE))`: the
timer never stops, and no dispatched thread keeps the processor for longer than
its slice and one period (`PreemptedInTime` of `TimeSlice`), so a signal that
finds the slice expired comes again and again. It may be the timer's or that of
a `my_pthread_yield`: the two are the same step of the model, so a client that
yields just before every alarm is not excluded by this condition. Nothing is assumed of what the client calls
(`ClientCall`), and `FunctionReturns` is not fair: a thread may loop for ever.

## 4. Theorems

Those about the scheduler hold for any number of threads, levels and mutexes, any
`Creators` and `Joiners`, and any values passed to exit, or none; the only assumption is
`SchedulerAssumption`: the two numbers are natural numbers, with at least two
levels (with one, the loop at 587 would have no body; the program has three), the
values passed to exit are not those that stand for anything else, and the flag is a
Boolean. Where a theorem needs that every timer tick is
late, or an assumption on sizes, it says so itself, under ASSUME. Each invariant
below was given to TLC before it was proved.

`SchedulerProofs`: `TypeCorrect`, `Spec => []TypeOK`. `TypeOK` is not inductive:
what a step writes is a tcb only if the local pointer it uses is one, and that
depends on where the thread is. The invariant is `TypeInvariant`, which adds
`LocalsOK` (a thread in the middle of a call holds the tcb and the mutex that
the call works on), `BeforeFirstCreate` (until then there is no
timer, no handler and no thread, so main's calls are the only steps) and
`HandlerOK` (a helper runs only with a `current_tcb`, and the one that runs after an
unlock has a level to run it for).
`SuccessorProperties`, a lemma about the scan of the levels, says that it finds
the head of a level that is not empty whenever there is one.

In the same module, each on top of `TypeInvariant`:

- `MutualExclusionHolds`. Not inductive alone, because `mutex_init` sets a
  mutex to UNLOCKED: `MutexesAreUsable` says that held mutexes, and those in the
  course of a lock or unlock, were initialised before. All steps but four leave
  the locks alone (`LocksUntouched`); the four are proved one by one.
- `SingleLevelHolds`. Inductive with the types. The levels of the priority queue
  are idle in this program: nobody calls the code that uses them.
- `TerminatedForeverHolds`, an action property. `create` and the wrapper write
  READY and RUNNING without looking, so the invariant (`FreshInvariant`) says
  that the tcbs they write to are fresh: beyond `TID` nothing has a context, no
  two creates have the same tcb, a thread not yet entered is not terminated. The
  helpers are covered by `DispatchStates`.
- `JoinReadsDeliveredHolds`. The value is stored before TERMINATED is
  (`DeliveredInvariant`); by the theorem before, a thread that join saw
  terminated still is when join reads the value.

`SchedulerRefinementProofs`, on top of the types, `SingleLevel` and `FreshInvariant`:

- `ServesInTurnHolds`, `Spec => ServesInTurn`: every step of `Scheduler` is one of
  `RoundRobin` or changes nothing it sees. Two more facts are needed
  (`ServingInvariant`): no tcb is ever in the state YIELD, and the mark of an unlock
  is clear while the yield helper recurses. With everybody on one level the scan finds the
  head of level 0 wherever `HAS_RUN` makes it start (`SuccessorIsHead`), so that
  either helper's dispatch is `RoundRobin`'s `Run` (`DispatchRuns`).
- `ResumesLiveHeadHolds` follows from that alone: only `Rotate` and `Resume` end a
  choice.

`TimeSliceProofs`: `TimeTypeOK`, `PreemptedInTimeAlways` and
`ErrsOnlyEarlyAlways`, for all lengths of second, slice and period with slices
under a second: at most one period passes between two questions, and
`time_compare` answers right or calls a slice that crosses a second exceeded
(`RightOrEarly`), so it never calls one that has passed unexpired. The invariant
adds `DispatchedOrUnexpired` to the types.

`SchedulerPlacesProofs`, on top of all the invariants above:

- `TcbConservationHolds`. A tcb may be in the run queue, in a wait queue, or
  carried: in the `tcb_node` of a thread between a dequeue and the enqueue that
  follows it, or between `create`'s `TID++` and its enqueue. `TcbConservation`
  counts places; what is inductive is `PlacesInvariant`: no queue holds a tcb twice
  (`Straight`), no two places hold the same tcb (`Apart`), and exactly the tcbs that
  create has scheduled are somewhere (`AllPlaced`). Since `mutex_init` empties a
  wait queue, it also says that nobody waits for a mutex not yet initialised. The
  count follows with the cardinality theorems of the library.
- `HasRunBoundedHolds`. `HAS_RUN` is reset when it reaches the length of the queue,
  and by the places a queue is no longer than there are tcbs.
- With late ticks only, `RunningIsHeadHolds`, `ClientCodeIsScheduledHolds`,
  `WaitersWantTheMutexHolds`, `CrashOnlyWhenStuckHolds` and `ExitSurvivesReturnHolds`.
  They are false with early ticks, which end a `pause` without switching threads; hence
  `ASSUME ~EarlyTicks`, the condition of `scheduler_late_ticks`. `LateInvariant` says
  that the running thread is the head of the run queue unless it is between the two
  queues or paused in a wait queue (`RunningPlace`), that `lock` carries its own caller
  (`CarriesItself`), that whoever is in a wait queue is inside `lock`
  (`WaitersInLock`), that nobody locks what it holds, and what becomes of a thread
  that runs on with `current_tcb` NULL (`StrandedPlace`).
- `CrashOnlyWhenStuckHolds` rests on the last. Such a thread is inside `lock`, the run queue is
  empty, and the mutex it wants is not free: it cannot come out of `lock` to unlock or
  create, which would put somebody back, before a null pointer is followed. That it is not free
  is `LockedOut`: a helper finds the run queue empty only after an unlock (the other has
  just enqueued somebody), the mark of an unlock is cleared by the next tick, so no
  other thread has run since the running one failed to get its mutex. With early ticks and two
  mutexes the property is false: a waiter whose `pause` an early tick ends can get the mutex
  while it still is in that mutex's wait queue. Its unlock takes a tcb (its own) off that
  queue (805); a late tick then runs the after-unlock helper, for the mark of an earlier
  unlock, which finds every level empty and leaves `current_tcb` NULL; back in unlock the
  thread schedules the tcb (808) and follows the null pointer (810), a runnable tcb queued.
- `ExitSurvivesReturnHolds`. exit returns to its caller, and the wrapper stores a
  result after a `pause`. While the function runs a later exit may replace the value of an
  earlier one; once it has returned nothing does, because a thread about to store
  has not exited (`StoresAlive`), and one that has is not dispatched again.

`BenchmarkProofs`:

- `BenchmarkRunsTheScheduler`, `BenchmarkSpec => Spec`: each step of the benchmark is
  a step of the library or leaves it alone. So every theorem about `Spec` holds of
  its runs. `BenchmarkAssumption` includes that main may create and join.
- `BenchmarkTypeCorrect`, `NoLostUpdateHolds` and `PrintedIsJoinedHolds`. A thread at
  its load or store holds the mutex (`WorkerProgress`), so by mutual exclusion nobody
  stores in between (`LoadedIsCurrent`). A thread that has terminated has added all
  its items, and what main joined and found has terminated (`JoinedHasTerminated`). So while
  main verifies, without the mutex, nobody else adds if every join found its thread;
  if one did not, `NoLostUpdate` claims nothing of `verify`'s sum, and rightly so.
- `GoneIsLockingHolds`, with late ticks: `get_tcb` searches the run queue, so by
  `AllPlaced` the thread it misses waits or is carried, and each case is
  one inside `lock` (`WaitersInLock`, `CarriesItself`, and `WokenInLock` for the tcb
  that an unlock is about to put back).

`MemoryProofs`, for all sizes of memory, metadata, page, headers and requests within
`MemoryAssumption` (headers have a size, a page has room for one of each, and
memory behind the metadata for a page header). `MemoryInvariant` has the types, and, while the
allocator is alive, that the pages tile memory, the blocks of every assigned page
tile it (`LaidOut`), and every block in use is an allocated block of a page of its
owner (`LiveHeld`). The proofs rest on lemmas about the operators of
`MemoryLayout`: the first page or block that will do, the replacement of the last
element of a list, the split of a block and of a page. From it:

- `MemoryTypeCorrect`, `PagesTileHolds`, `BlocksTileHolds`, `LiveInOwnPageHolds`, and
  the action property `PagesStayAssignedHolds`, which has the one exception that the
  code makes: the page behind a near fit may lose its header (`CarvedPages` says that no other
  does). The three before it are about the time until then.
- `OverrunOnlyWhenFullHolds`: assigned pages lie one behind the other and are
  `page_size` long, so where the header of what remains would be outside memory,
  the pages in use have filled it.
- `RecursionBoundedHolds`, for every depth of the stack: as long as there is a page to
  assign, each recursion has assigned one, so their number is bounded by that of the pages
  (`DepthReached`, `DepthLeft`), and a request that fits a page with all headers is served
  from the page just assigned (`ModestServed`). So the stack is used up only by a request that fits no page,
  or with no page left. It assumes `MemSize % page_size = 0`, as in the
  program (8 MB and the page size of the system).
- `DataSparedHolds`, also of the states after a request has reached out of its page. It
  assumes `BlockHeader <= PageHeader` (40 and 64 bytes in the program): the request
  writes the header of the rest at most where the next page's header is.

`TcbQueueProofs`, for any finite set of tcbs and with SIGALRM blocked
(`ASSUME Masked = TRUE`; without it `WellLinked` is false, as `queue_interrupted`
shows): `QueueTypeCorrect`, `WellLinkedHolds` and `RefinesHolds`,
`Spec => Refines`, the refinement of `FifoQueue`. The invariant,
`Represented`, says for each assignment what `head`, `tail` and the links are
in terms of the list `Contents` (`AtPoint`): those of that list until the first link
changes, from then on those of the list that the call leaves behind, but
for the field to be assigned next. `Contents` walks along the links by a recursive function.
`WalkVisits` says that the walk visits the list that hangs from its start; as
induction with the library's theorems is not to be had, it is proved on the least place where
the two differ. There is one lemma per operation for a list given from outside
(`CallEnqueueStep` to `SignalHandlerStep`); `ContentsAreList` then says that it is
`Contents`.

`MaintenanceProofs`, for any number of tcbs, levels and calls, any start times and
any share of one to a hundred per cent (`MaintenanceAssumption`). First the lists:

- The invariant is `ListInvariant`: there is a sequence s such that level 0 holds s
  and nothing else does (`Holds`), `size` of level 0 is not 0, and a tcb between its
  removal and its scheduling is not in s. `Holds` is what removals leave of a list:
  `head` and the links lead along s (`Chained`), nobody is in it twice, `tail` is the
  last of s and, with s empty but `size` not 0, still some tcb; `size` is at least
  the length of s; and the links have no circle (`Acyclic`, by a rank that goes down
  along them), those of tcbs cut out of the lists included, as their links stay.
- That a walk ends and meets s (`WalkIs`, `ArrayOfHeld`) rests on the rank. One lemma
  per operation, `EnqueueHeld`, `DequeueHeld`, `RemoveHeld`, says what becomes of
  s; `InitHolds` does for the first creates; `ListStep` puts them together: a step keeps s, cuts
  one out, appends one or turns s, and loses a tcb only if s is empty behind it.
- `ListsUsableHolds`, `SurgeryIsCleanHolds` and `LostOnlyWhenAloneHolds` follow.

Then what is computed. That the recursive functions exist at all is proved first:
`LoopExists` for a loop, whether it ends or not, `UpwardExists` for a recursion that
counts up. What would be induction is done on the least counterexample (`LeastExists`).

- `ScanEnds`, `PartitionFacts`: a pass only rearranges its part of the array
  (`Rearranged`), leaves nothing below the end of its lower part that is greater
  than something above it, and that part never is everything.
- It may be empty, and then the pass has not narrowed anything: the value in the
  middle was the least, and the array is turned by one (`Turned`). `NarrowEnds` shows
  that `quick_select` ends all the same: after one such pass some value is
  greater than the least, each further one moves it one place nearer to the middle
  (`TurnCloser`), and a pass that starts with it there narrows. The least
  counterexample is taken twice, by the length of the part that is left and by that distance.
- `SelectsKthHolds`: what is returned stands at k in a rearrangement in which nothing
  before is younger and nothing behind older (`IsKth`), and a rearrangement keeps the
  numbers (`SameNumber`).
- `OldestAreOldestHolds` and `TypeCorrect`: the array of the oldest is full although
  the loop passes over the first scheduled tcb, because the selected one is in it
  already (`CollectedFills`).

*Only model-checked.* Liveness (`ReadyThreadRuns` and `JoinCompletes`), which is out of
the prover's reach. Every safety and action property of the passing runs is a
theorem. The runs that end in a violation show single behaviours, and there is
nothing to prove of them.

## 5. What the code does otherwise than its comments say

1. *Lost wakeup* (`my_pthread.c:793`). Between the failed test-and-set and the
   enqueue on the wait queue the owner may unlock, find nobody, and go. The
   thread then waits for a mutex that is free.
2. *The queue breaks under a signal* (`293`). `enqueue` and `dequeue` run with
   SIGALRM open in create, lock and unlock, and `enqueue` counts last. A tick that comes after
   a second tcb was linked behind the first, but before `size` says 2, makes the handler
   take `dequeue`'s branch for a single node, which empties the list; it enqueues
   the first tcb again, alone, and the second is lost. (A tick between `q->tail =
   tcb_node` and `q->tail->next_tcb = NULL` is harmless to longer queues, as `q->tail`
   is read again.)
3. *join fails for blocked threads* (`719`). It searches the run queues only; a
   thread that waits for a mutex, or is between the queues, is not found and join
   returns at once. parallelCal then prints a sum without that thread's part
   (`benchmark_sum`). `GoneIsLocking` says that no other thread is missed.
4. *A page with two owners* (`memory_manager.c:105`). A thread that has read an
   unassigned page and loses the processor writes its header over that of the
   requester that was given it, and over its block list.

Behaviour that the models have and that has no run of its own:

- `my_allocate` never returns NULL for want of memory, which its comment promises
  (`memory_manager.c:370`). A request that no page can hold assigns page after page,
  recursing (`340`, `364`), until a header is written outside memory (`process =
  "overrun"`) or the stack is used up (`"exhausted"`); the 8192 bytes of stack that every
  create asks for are such a request where pages have 4096 bytes. `RecursionBounded` and
  `OverrunOnlyWhenFull` say when that happens and when it does not.
- A block fits when its size reaches the bytes asked for (`memory_manager.c:252`), its
  header and that of the rest not counted, so a near fit reaches over the end of its
  page, which is not "within that page" (`239`): `process = "clobbered"`. The header of
  the rest then lies over that of the next page, whoever it belongs to.
  `DataSpared` says what is not touched.
- `my_pthread_exit` (`707`) returns to its caller, a terminated thread that runs on until the
  next expired tick. It may call exit again, which replaces the value a join may have
  read (`704`), or lock a mutex that is then locked for ever.
- `pause` returns after a tick that finds the slice unexpired. In the wrapper of a thread that has
  exited (`58`) the value given to exit is then replaced by that of the function. In
  `lock` (`796`) the waiter tries again from outside the run queue; if the mutex is still
  locked it dequeues whoever is the head, its owner for one, into the wait queue.
- `time_compare` (`450`) calls 0.999999 s and 1.000000 s further apart than a slice
  of 5 ms (the exception in `ErrsOnlyEarly`).
- After a join that missed a thread, `verify` clears and adds to `sum` while that
  thread still adds, and additions of both are lost (`parallelCal.c:48`, `57`).
- A thread that locks and unlocks between any two expired ticks keeps the
  processor, because the helper that runs after an unlock does not rotate the
  queue (hence liveness is checked without mutexes, and `RoundRobin` has `Resume`).
- An early tick in the wrapper's last pause ends the process; two creators may
  give two tcbs the same `tid`.
- A tick in the middle of `lock`, between its dequeue and its enqueue, switches
  away from a thread that is then in no queue and is never dispatched again (in
  `TcbConservation` it counts as carried by its own call).
- Maintenance: a list's size stays what it was when a tcb is cut out. For a tcb
  alone on its level the next `enqueue` hangs it behind a tail that nobody
  reaches, and the tick after that follows a null pointer (`LostOnlyWhenAlone`
  shows that this is the only case). The array of the oldest may hold the selected
  tcb twice, in the place of the first in the queue. A pass of `quick_select` whose
  middle value is the least narrows nothing and turns the array by one (`255`);
  up to as many passes as values are left may go by like that.

## 6. Not modelled

Swapping (commented out); printing; `my_pthread_mutex_destroy` (changes nothing);
the contents of contexts and stacks; of the benchmarks, their arithmetic, arrays
and files, and the two programs that use the library just as parallelCal does; the
archive and the second copy of the sources, identical to those modelled; build
files.

## 7. Plan

All of the library that changes state is modelled, and every safety and action
property of the passing runs is proved. What could be added:

1. The two other benchmarks as clients of `Scheduler`, should they come to use the library
   otherwise than parallelCal does.
2. `swap_pages`, should it be put back into use.
