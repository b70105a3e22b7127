------------------------------ MODULE Benchmark ------------------------------
(***************************************************************************)
(* The benchmark programs on top of the thread library: main initialises   *)
(* one mutex, creates the threads, joins them one by one without looking   *)
(* at what join returns, and prints the sum; then it adds up every row     *)
(* itself, in the same variable and without the mutex, and returns.  Each  *)
(* thread adds its items to the shared sum, one under the mutex at a time. *)
(* parallelCal is the one followed; vectorMultiply and externalCal have    *)
(* the same shape.  Its arrays (rows of 400000 bytes, which no page of     *)
(* memory_manager.c holds) are taken as allocated.                         *)
(*                                                                         *)
(* The client's choices in Scheduler are narrowed to what this program     *)
(* does, and its shared data is added.  The sum is the set of the items    *)
(* that are in it, each with the thread that added it; sum += item is a    *)
(* load and a store.                                                       *)
(***************************************************************************)
EXTENDS Scheduler

CONSTANT
  Items  (* what each thread adds, in order: 1 .. Items                    *)

(* What the client may do in Scheduler includes what this program's main   *)
(* does.                                                                   *)
ASSUME BenchmarkAssumption ==
  /\ Items \in Nat \ {0}
  /\ Main \in Creators /\ Main \in Joiners

VARIABLES
  at,       (* what a thread of the program does next in its own code      *)
  index,    (* items a thread has added; threads main has joined, and then *)
            (* rows it has verified                                        *)
  register, (* the value of sum a thread has loaded                        *)
  sum,
  gone,     (* the threads whose join found nothing                        *)
  printed   (* the sums main has printed: none or one                      *)

benchmark == <<at, index, register, sum, gone, printed>>

Workers == Tcbs \ {Main}
All == Workers \X (1 .. Items)

(* Every item is a row of the matrix, and verify adds each of them.        *)
Rows == MaxThreads * Items
Addends == All \cup ({Main} \X (1 .. Rows))

MainPlaces == {"init", "create", "join", "print", "clear", "row_load",
               "row_store"}
WorkerPlaces == {"lock", "load", "store", "unlock"}

BenchmarkTypeOK ==
  /\ at \in [Tcbs -> MainPlaces \cup WorkerPlaces]
  /\ index \in [Tcbs -> Nat]
  /\ register \in [Tcbs -> SUBSET Addends]
  /\ sum \subseteq Addends
  /\ gone \subseteq Workers
  /\ printed \subseteq SUBSET Addends

BenchmarkInit ==
  /\ Init
  /\ at = [t \in Tcbs |-> IF t = Main THEN "init" ELSE "lock"]
  /\ index = [t \in Tcbs |-> 0]
  /\ register = [t \in Tcbs |-> {}]
  /\ sum = {}
  /\ gone = {}
  /\ printed = {}

-----------------------------------------------------------------------------
(* Thread t, in its own code, does what is next and then goes on with p.   *)
Step(t, a, p) ==
  /\ at[t] = a
  /\ at' = [at EXCEPT ![t] = p]

MainInits ==
  /\ Step(Main, "init", "create")
  /\ MutexInit(Main)
  /\ UNCHANGED <<index, register, sum, gone, printed>>

MainCreates ==
  /\ Step(Main, "create", IF TID + 1 = MaxThreads THEN "join" ELSE "create")
  /\ Create(Main)
  /\ UNCHANGED <<index, register, sum, gone, printed>>

(* The k-th create stored the number k.                                    *)
MainJoins ==
  LET n == index[Main] + 1 IN
    /\ Step(Main, "join", IF n = MaxThreads THEN "print" ELSE "join")
    /\ JoinThread(Main, n)
    /\ index' = [index EXCEPT ![Main] = n]
    /\ gone' = IF get_tcb(n) = NoTcb THEN gone \cup {n} ELSE gone
    /\ UNCHANGED <<register, sum, printed>>

MainPrints ==
  /\ At(Main, "user") /\ Step(Main, "print", "clear")
  /\ printed' = {sum}
  /\ UNCHANGED <<index, register, sum, gone, vars>>

(* verify: sum = 0, and then sum += pSum[j] for every row j, while threads *)
(* that a join has missed may still be adding theirs.                      *)
MainClears ==
  /\ At(Main, "user") /\ Step(Main, "clear", "row_load")
  /\ sum' = {}
  /\ index' = [index EXCEPT ![Main] = 0]
  /\ UNCHANGED <<register, gone, printed, vars>>

RowLoads ==
  /\ index[Main] < Rows
  /\ At(Main, "user") /\ Step(Main, "row_load", "row_store")
  /\ register' = [register EXCEPT ![Main] = sum]
  /\ UNCHANGED <<index, sum, gone, printed, vars>>

RowStores ==
  /\ At(Main, "user") /\ Step(Main, "row_store", "row_load")
  /\ index' = [index EXCEPT ![Main] = @ + 1]
  /\ sum' = register[Main] \cup {<<Main, index'[Main]>>}
  /\ UNCHANGED <<register, gone, printed, vars>>

(* It prints its own sum, and main returns.                                *)
MainEnds ==
  /\ at[Main] = "row_load" /\ index[Main] = Rows
  /\ MainReturns(Main)
  /\ UNCHANGED benchmark

(* Mutant of WorkerLocks: the loop runs once too often.                    *)
WorkerLocksOnceMore(t) ==
  /\ index[t] <= Items
  /\ Step(t, "lock", "load")
  /\ MutexLock(t)
  /\ UNCHANGED <<index, register, sum, gone, printed>>

WorkerLocks(t) ==
  /\ index[t] < Items
  /\ Step(t, "lock", "load")
  /\ MutexLock(t)
  /\ UNCHANGED <<index, register, sum, gone, printed>>

WorkerLoads(t) ==
  /\ At(t, "user") /\ Step(t, "load", "store")
  /\ register' = [register EXCEPT ![t] = sum]
  /\ UNCHANGED <<index, sum, gone, printed, vars>>

WorkerStores(t) ==
  /\ At(t, "user") /\ Step(t, "store", "unlock")
  /\ index' = [index EXCEPT ![t] = @ + 1]
  /\ sum' = register[t] \cup {<<t, index'[t]>>}
  /\ UNCHANGED <<register, gone, printed, vars>>

WorkerUnlocks(t) ==
  /\ Step(t, "unlock", "lock")
  /\ MutexUnlock(t)
  /\ register' = [register EXCEPT ![t] = {}]
  /\ UNCHANGED <<index, sum, gone, printed>>

WorkerReturns(t) ==
  /\ at[t] = "lock" /\ index[t] = Items
  /\ FunctionReturns(t)
  /\ UNCHANGED benchmark

Library ==
  /\ \/ \E t \in Tcbs : ThreadStep(t)
     \/ \E expired \in BOOLEAN : Tick(expired)
     \/ HandlerStep
  /\ UNCHANGED benchmark

BenchmarkNext ==
  \/ MainInits \/ MainCreates \/ MainJoins \/ MainPrints
  \/ MainClears \/ RowLoads \/ RowStores \/ MainEnds
  \/ \E t \in Workers :
       \/ WorkerLocks(t) \/ WorkerLoads(t) \/ WorkerStores(t)
       \/ WorkerUnlocks(t) \/ WorkerReturns(t)
  \/ Library

BenchmarkSpec == BenchmarkInit /\ [][BenchmarkNext]_<<vars, benchmark>>

-----------------------------------------------------------------------------
Verifying == at[Main] \in {"row_load", "row_store"}

(* No thread's addition is undone by a store of another that had loaded    *)
(* the sum before it, wherever ticks fall in lock, unlock and the addition;*)
(* and main, which has no lock while it verifies, adds up the rows and     *)
(* nothing else when each of its joins has found its thread.               *)
NoLostUpdate ==
  IF Verifying
  THEN gone = {} => sum = {Main} \X (1 .. index[Main])
  ELSE \A t \in Workers : \A i \in 1 .. index[t] : <<t, i>> \in sum

(* A join that found its thread makes main wait for all of it: what is     *)
(* printed has every item of the threads that were found.                  *)
PrintedIsJoined ==
  \A total \in printed : \A t \in Workers \ gone :
    {t} \X (1 .. Items) \subseteq total

(* A join returns without waiting only for a thread that is inside         *)
(* my_pthread_mutex_lock and has not got the mutex; never for one that has *)
(* not started, that adds, or that has returned.                           *)
GoneIsLocking ==
  [][\A t \in gone' \ gone :
       pc[t] \in {"lock_tas", "lock_deq", "lock_enq", "lock_pause"}]_<<vars, benchmark>>

-----------------------------------------------------------------------------
(* Benchmark/README: "if the result is same with the verified result ...   *)
(* then your thread library is good".                                      *)
SumIsVerified == printed \subseteq {All}
=============================================================================
