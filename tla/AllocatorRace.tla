--------------------------- MODULE AllocatorRace ---------------------------
(***************************************************************************)
(* my_allocate (memory_manager.c) as several threads call it.  It leaves   *)
(* SIGALRM open, so a thread may lose the processor between the copies of  *)
(* the page and block headers it reads and the headers it writes back:     *)
(* from then on its copy is what the search saw, not what memory holds.    *)
(*                                                                         *)
(* One round of the search is two steps, the reads and the writes; the     *)
(* model stops at the first write made from a stale copy.  Pointers that   *)
(* are never set are NULL here (MemoryManager has their other values).     *)
(***************************************************************************)
EXTENDS MemoryLayout

CONSTANTS
  main,       (* the thread that runs before the first create              *)
  StackSize   (* STACK_SIZE: 8192, the last that create asks for           *)

VARIABLES
  pages,    (* the page list, as in MemoryManager                          *)
  live,     (* the blocks my_allocate has returned                         *)
  call,     (* the request each thread has in progress                     *)
  copy,     (* the headers it has read for it; <<>> before that            *)
  process

vars == <<pages, live, call, copy, process>>

NoCall == [owner |-> Unknown, size |-> 0]

Init ==
  /\ pages = <<>>
  /\ live = {}
  /\ call = [t \in Tids |-> NoCall]
  /\ copy = [t \in Tids |-> <<>>]
  /\ process = "alive"

-----------------------------------------------------------------------------
(* The other threads run once create has allocated a stack and started the *)
(* timer.                                                                  *)
Runs(t) == t = main \/ \E b \in live : b.owner = Library /\ b.size = StackSize

(* my_allocate, for the client or for the library function the client      *)
(* called; the memory is initialised by the first call.                    *)
my_allocate(t, owner, size) ==
  /\ process = "alive" /\ Runs(t)
  /\ call[t] = NoCall
  /\ call' = [call EXCEPT ![t] = [owner |-> owner, size |-> size]]
  /\ pages' = IF pages = <<>> THEN <<InitialPage>> ELSE pages
  /\ UNCHANGED <<live, copy, process>>

(* The search reads the page list and the blocks of the pages that are the *)
(* requester's.                                                            *)
Read(t) ==
  /\ process = "alive"
  /\ call[t] # NoCall /\ copy[t] = <<>>
  /\ copy' = [copy EXCEPT ![t] = pages]
  /\ UNCHANGED <<pages, live, call, process>>

Writes(t, i) ==
  process' = IF i \in 1 .. Len(pages) /\ pages[i] = copy[t][i]
               THEN "alive" ELSE "raced"

(* allocate_block puts the rest and the page header behind the block it    *)
(* found free, and returns.  (The model stops, as MemoryManager does, when *)
(* these leave the page.)                                                  *)
AllocateBlock(t) ==
  /\ process = "alive" /\ copy[t] # <<>>
  /\ Stops(copy[t], call[t]) # {}
  /\ LET i == Least(Stops(copy[t], call[t])) IN
       /\ pages' \in Carved(pages, i, copy[t][i], call[t])
       /\ live' = live \cup {Given(copy[t][i], call[t])}
       /\ IF NearFit(copy[t][i], call[t]) THEN process' = "clobbered"
                                          ELSE Writes(t, i)
  /\ call' = [call EXCEPT ![t] = NoCall]
  /\ copy' = [copy EXCEPT ![t] = <<>>]

(* assign_page takes the page it found unassigned, if it found one, and the*)
(* search starts again.                                                    *)
AssignPage(t) ==
  /\ process = "alive" /\ copy[t] # <<>>
  /\ Stops(copy[t], call[t]) = {}
  /\ LET u == Least(FreePages(copy[t])) IN
       IF FreePages(copy[t]) = {}
         THEN UNCHANGED <<pages, process>>
         ELSE /\ pages' = Taken(pages, copy[t], u, "NULL", call[t])
              /\ Writes(t, u)
  /\ copy' = [copy EXCEPT ![t] = <<>>]
  /\ UNCHANGED <<live, call>>

Next ==
  \E t \in Tids :
    \/ \E size \in LibrarySizes : my_allocate(t, Library, size)
    \/ \E size \in ThreadSizes : my_allocate(t, t, size)
    \/ Read(t) \/ AllocateBlock(t) \/ AssignPage(t)

Spec == Init /\ [][Next]_vars

-----------------------------------------------------------------------------
(* memory_manager.c:369: my_allocate "Finds the page associated with the   *)
(* calling thread and allocated memory from it": a block in use lies in a  *)
(* page of the thread that got it.                                         *)
OwnPages == InOwnPages(live, pages)
=============================================================================
