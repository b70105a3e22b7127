--------------------------- MODULE MemoryManager ---------------------------
(***************************************************************************)
(* The allocator of memory_manager.c, one request at a time.               *)
(*                                                                         *)
(* A request is a search for a block; when none fits a page is assigned    *)
(* and the C function calls itself again, which is one more step here, for *)
(* as long as the caller's stack lasts ("exhausted").                      *)
(* The model stops where the C program's behaviour stops being determined  *)
(* by its source: a wild pointer is followed ("crashed"), a header is      *)
(* written outside PHYSICAL_MEMORY ("overrun"), or a block or the header   *)
(* behind it reaches into the memory after its page ("clobbered").         *)
(***************************************************************************)
EXTENDS MemoryLayout

CONSTANT
  StackDepth  (* the nested calls that the stack of the caller holds       *)

ASSUME StackAssumption == StackDepth \in Nat \ {0, 1}

VARIABLES
  pages,    (* the page list, in list order; <<>> before initialisation    *)
  request,  (* the call of my_allocate in progress                         *)
  live,     (* the blocks my_allocate has returned                         *)
  process

vars == <<pages, request, live, process>>

NoRequest == [owner |-> Unknown, size |-> 0, depth |-> 0]
Requests == [owner : Owners \cup {Unknown}, size : Nat, depth : Nat]

TypeOK ==
  /\ pages \in Seq(Pages)
  /\ request \in Requests
  /\ live \subseteq [owner : Owners, address : Nat, size : Nat]
  /\ process \in {"alive", "crashed", "overrun", "clobbered",
                   "exhausted"}

Init ==
  /\ pages = <<>>
  /\ request = NoRequest
  /\ live = {}
  /\ process = "alive"

-----------------------------------------------------------------------------
(* my_allocate.                                                            *)
my_allocate(owner, size) ==
  /\ process = "alive"
  /\ request = NoRequest
  /\ request' = [owner |-> owner, size |-> size, depth |-> 0]
  /\ pages' = IF pages = <<>> THEN <<InitialPage>> ELSE pages
  /\ UNCHANGED <<live, process>>

(* allocate_block, and the return of the whole recursion.  With no room    *)
(* for the header of the rest the block, or that header, leaves the page.  *)
AllocateBlock ==
  /\ process = "alive" /\ request # NoRequest
  /\ Stops(pages, request) # {}
  /\ LET i == Least(Stops(pages, request))
         pg == pages[i]
     IN IF Fitting(pg, request) = {}
          THEN process' = "crashed" /\ UNCHANGED <<pages, request, live>>
          ELSE /\ pages' \in Carved(pages, i, pg, request)
               /\ live' = live \cup {Given(pg, request)}
               /\ request' = NoRequest
               /\ process' = IF NearFit(pg, request) THEN "clobbered"
                                                     ELSE "alive"

(* What the call that the C function makes of itself does to the stack.    *)
Recursed == IF request.depth < StackDepth THEN "alive" ELSE "exhausted"

(* No page of the requester will do: the first unassigned page is split,   *)
(* whatever its size, and the search starts again.  tmp_prev is read       *)
(* before it was set when that page is first in the list.  With no page    *)
(* left to assign the search starts again all the same.                    *)
AssignPage ==
  /\ process = "alive" /\ request # NoRequest
  /\ Stops(pages, request) = {}
  /\ request' = [request EXCEPT !.depth = @ + 1]
  /\ UNCHANGED live
  /\ LET u == Least(FreePages(pages))
         whole == Size(pages[u]) = page_size
     IN IF FreePages(pages) = {}
        THEN process' = Recursed /\ UNCHANGED pages
        ELSE \E garbage, tmp_prev \in Garbage :
          IF ~whole /\ u = 1 /\ tmp_prev = "wild"
            THEN process' = "crashed" /\ UNCHANGED pages
            ELSE /\ pages' = Taken(pages, pages, u, garbage, request)
                 /\ process' =
                      IF /\ ~whole
                         /\ Remainder(pages[u]).start_address + PageHeader
                              > MemSize
                        THEN "overrun" ELSE Recursed

Next ==
  \/ \E size \in LibrarySizes : my_allocate(Library, size)
  \/ \E t \in Tids, size \in ThreadSizes : my_allocate(t, size)
  \/ AllocateBlock
  \/ AssignPage

Spec == Init /\ [][Next]_vars

-----------------------------------------------------------------------------
(* The page list covers PHYSICAL_MEMORY behind the metadata from end to    *)
(* end, and what is unassigned is one piece at its end.                    *)
PagesTile ==
  (process = "alive" /\ pages # <<>>) =>
    /\ pages[1].start_address = MetaSize
    /\ pages[Len(pages)].end_address = MemSize - 1
    /\ \A i \in 1 .. Len(pages) - 1 :
         /\ pages[i + 1].start_address = pages[i].end_address + 1
         /\ pages[i].state = "ASSIGNED"

(* The blocks of an assigned page cover it behind its header: allocated    *)
(* ones, then one unallocated block; size_of_allocated is where that one   *)
(* starts.                                                                 *)
BlocksTilePage(pg) ==
  LET n == Len(pg.blocks) IN
    /\ n > 0
    /\ pg.blocks[1].address = pg.start_address + PageHeader
    /\ \A j \in 1 .. n - 1 :
         /\ pg.blocks[j].state = "ALLOCATED"
         /\ pg.blocks[j + 1].address
              = pg.blocks[j].address + pg.blocks[j].total_size
    /\ pg.blocks[n].state = "UNALLOCATED"
    /\ pg.blocks[n].address + pg.blocks[n].total_size = pg.end_address + 1
    /\ pg.size_of_allocated = pg.blocks[n].address - pg.start_address

BlocksTile ==
  process = "alive" =>
    \A i \in 1 .. Len(pages) :
      pages[i].state = "ASSIGNED" => BlocksTilePage(pages[i])

(* Every block in use lies in a page of whoever asked for it, for as long  *)
(* as no block reaches out of its page.                                    *)
LiveInOwnPage == process = "alive" => InOwnPages(live, pages)

(* Not even the request that reaches out of its page (memory_manager.c:252 *)
(* counts no header) spoils data in use: blocks in use stay disjoint, and  *)
(* no block header lies on one.  What it writes over are headers: the next *)
(* page's, and that of the first block there.                              *)
DataSpared ==
  /\ Disjoint(live)
  /\ \A a \in live, i \in 1 .. Len(pages) :
       \A j \in 1 .. Len(pages[i].blocks) :
         LET header == pages[i].blocks[j].address IN
           \/ a.address + a.size <= header
           \/ header + BlockHeader <= a.address

(* While there is a page left to assign, a block that fits in an empty page*)
(* together with the headers of itself and of what remains makes the       *)
(* allocator call itself once and no more; any other, no more often than   *)
(* there are pages.  So the stack runs out only in a request for a larger  *)
(* block, or with all of memory assigned; then it does, although the       *)
(* comment of my_allocate (370) has NULL returned.                         *)
Modest(size) == size + 2 * BlockHeader <= page_size - PageHeader
RecursionBounded ==
  /\ FreePages(pages) # {} =>
       /\ Modest(request.size) => request.depth <= 1
       /\ request.depth <= MemSize \div page_size
  /\ process = "exhausted" =>
       ~Modest(request.size) \/ FreePages(pages) = {}

(* A request runs off the end of memory only when all of it is assigned:   *)
(* the pages in use leave no room for one more and the header after it.    *)
OverrunOnlyWhenFull ==
  process = "overrun" =>
    MetaSize + PageHeader
      + page_size * Cardinality({i \in 1 .. Len(pages) :
                                   pages[i].state = "ASSIGNED"}) > MemSize

(* A page, once assigned, stays where it is and with its owner, unless a   *)
(* near fit in the page before it is written over its header.              *)
PagesStayAssigned ==
  [][\A i \in 1 .. Len(pages) :
       pages[i].state = "ASSIGNED" =>
         \/ /\ pages'[i].state = "ASSIGNED"
            /\ pages'[i].owner = pages[i].owner
            /\ pages'[i].start_address = pages[i].start_address
            /\ pages'[i].end_address = pages[i].end_address
         \/ /\ i > 1 /\ process' = "clobbered"
            /\ pages'[i - 1].blocks # pages[i - 1].blocks]_vars
=============================================================================
