---------------------------- MODULE MemoryLayout ----------------------------
(***************************************************************************)
(* What memory_manager.c keeps in PHYSICAL_MEMORY and how one request      *)
(* changes it: memory is cut into pages, each owned by the library or by   *)
(* one thread, and a page into blocks.  A request is its owner and the     *)
(* bytes asked for.  MemoryManager serves one request at a time,           *)
(* AllocatorRace several that the timer interleaves.                       *)
(*                                                                         *)
(* Addresses count from PHYSICAL_MEMORY.  Nothing is ever freed:           *)
(* my_deallocate (391-393) is empty.                                       *)
(***************************************************************************)
EXTENDS Integers, Sequences, FiniteSets

CONSTANTS
  MemSize,      (* sizeof(PHYSICAL_MEMORY): 8388608                        *)
  page_size,    (* sysconf(_SC_PAGE_SIZE): 4096                            *)
  MetaSize,     (* sizeof(struct memory_metadata): 32                      *)
  PageHeader,   (* sizeof(struct page): 64                                 *)
  BlockHeader,  (* sizeof(struct block): 40                                *)
  Tids,         (* the threads that call malloc                            *)
  LibrarySizes, (* what the thread library asks for (LIBRARYREQ)           *)
  ThreadSizes   (* what the client asks for (THREADREQ)                    *)

ASSUME MemoryAssumption ==
  /\ MemSize \in Nat /\ page_size \in Nat /\ MetaSize \in Nat
  /\ PageHeader \in Nat \ {0} /\ BlockHeader \in Nat \ {0}
  /\ MetaSize + PageHeader <= MemSize
  /\ PageHeader + BlockHeader <= page_size
  /\ LibrarySizes \subseteq Nat \ {0}
  /\ ThreadSizes \subseteq Nat \ {0}

(* request_id and tid of a page: LIBRARYREQ pages all carry tid -1.        *)
Library == "LIBRARYREQ"
Unknown == "UNKNOWN"
Owners == Tids \cup {Library}

ASSUME OwnerAssumption == Library \notin Tids /\ Unknown \notin Tids

(* What a pointer that was never assigned may hold.                        *)
Garbage == {"NULL", "wild"}

Blocks == [state : {"ALLOCATED", "UNALLOCATED"}, address : Nat,
           data_size : Nat, total_size : Int]

(* next of a page's last block is read when no block fits: "last_next".    *)
Pages == [state : {"ASSIGNED", "UNASSIGNED"}, owner : Owners \cup {Unknown},
          size_of_allocated : Nat, start_address : Nat, end_address : Nat,
          blocks : Seq(Blocks), last_next : Garbage]

-----------------------------------------------------------------------------
Least(S) == CHOOSE x \in S : \A y \in S : x <= y

Unassigned(start, end) ==
  [state |-> "UNASSIGNED", owner |-> Unknown,
   size_of_allocated |-> PageHeader, start_address |-> start,
   end_address |-> end, blocks |-> <<>>, last_next |-> "NULL"]

(* init_memory_metadata: one unassigned page after the metadata.           *)
InitialPage == Unassigned(MetaSize, MemSize - 1)

(* Mutant of Full: the headers of the block and of the rest are counted,   *)
(* and a block that fits exactly is refused.                               *)
FullCountsHeaders(pg, req) ==
  pg.size_of_allocated + req.size + 2 * BlockHeader >= page_size

(* "Is the page full?" is asked differently for the two kinds of request.  *)
Full(pg, req) ==
  IF req.owner = Library
    THEN pg.size_of_allocated >= page_size
    ELSE pg.size_of_allocated + req.size >= page_size

(* The header of the new block is not counted.                             *)
Fits(blk, req) == blk.state = "UNALLOCATED" /\ blk.total_size >= req.size

(* The blocks of a page that fit.                                          *)
Fitting(pg, req) == {j \in 1 .. Len(pg.blocks) : Fits(pg.blocks[j], req)}

(* Mutant of Searched: the owner of a page is not compared.                *)
SearchedAnyOwner(pg, req) == pg.state = "ASSIGNED" /\ ~Full(pg, req)

Searched(pg, req) == pg.owner = req.owner /\ ~Full(pg, req)

(* The pages at which the search for a block ends: one fits there, or the  *)
(* walk of the block list follows a pointer that was never set.            *)
Stops(pgs, req) ==
  {i \in 1 .. Len(pgs) :
     Searched(pgs[i], req)
       /\ (Fitting(pgs[i], req) # {} \/ pgs[i].last_next = "wild")}

(* The block handed out and, unless its size is exactly the one asked for, *)
(* the unallocated rest.                                                   *)
Allocated(blk, req) ==
  [state |-> "ALLOCATED", address |-> blk.address,
   data_size |-> req.size, total_size |-> req.size + BlockHeader]

(* Mutants of Rest: no room is left for the header of the block handed     *)
(* out, or the data size is what the rest could hold.                     *)
RestTooLow(blk, req) ==
  [state |-> "UNALLOCATED", address |-> blk.address + req.size,
   data_size |-> 0,
   total_size |-> blk.total_size - (req.size + BlockHeader)]

RestSized(blk, req) ==
  [state |-> "UNALLOCATED",
   address |-> blk.address + req.size + BlockHeader,
   data_size |-> blk.total_size - (req.size + 2 * BlockHeader),
   total_size |-> blk.total_size - (req.size + BlockHeader)]

Rest(blk, req) ==
  [state |-> "UNALLOCATED",
   address |-> blk.address + req.size + BlockHeader,
   data_size |-> 0,
   total_size |-> blk.total_size - (req.size + BlockHeader)]

Split(blk, req) ==
  IF blk.total_size = req.size THEN <<Allocated(blk, req)>>
  ELSE <<Allocated(blk, req), Rest(blk, req)>>

(* The first block of a page that fits, and what the caller is given.      *)
First(pg, req) == Least(Fitting(pg, req))

Given(pg, req) ==
  [owner |-> req.owner, size |-> req.size,
   address |-> pg.blocks[First(pg, req)].address + BlockHeader]

(* Mutant of Carve: size_of_allocated is not written back.                 *)
CarveUncounted(pg, req) ==
  LET j == First(pg, req) IN
    [pg EXCEPT !.blocks = SubSeq(@, 1, j - 1) \o Split(@[j], req)
                            \o SubSeq(@, j + 1, Len(@))]

Carve(pg, req) ==
  LET j == First(pg, req) IN
    [pg EXCEPT !.size_of_allocated = @ + req.size + BlockHeader,
               !.blocks = SubSeq(@, 1, j - 1) \o Split(@[j], req)
                            \o SubSeq(@, j + 1, Len(@))]

(* What the carved block leaves of its own page behind the two headers the *)
(* test for a fit does not count.                                          *)
Left(pg, req) ==
  pg.blocks[First(pg, req)].total_size - (req.size + BlockHeader)
NearFit(pg, req) == Left(pg, req) < BlockHeader

(* A page whose header was written over: it may read as anybody's.         *)
Reheaded(pg, o, s) == [pg EXCEPT !.owner = o, !.state = s]

(* After a near fit the header of the rest lies over the header of the page*)
(* that follows (no rest is written behind an exact fit).                  *)
Overwritten(pgs, i) ==
  IF i = Len(pgs) THEN {pgs}
  ELSE {[pgs EXCEPT ![i + 1] = Reheaded(pgs[i + 1], o, s)] :
          o \in Owners \cup {Unknown}, s \in {"ASSIGNED", "UNASSIGNED"}}

(* The page list after allocate_block has carved page i, of which it read  *)
(* pg.                                                                     *)
Carved(pgs, i, pg, req) ==
  LET after == [pgs EXCEPT ![i] = Carve(pg, req)]
  IN IF NearFit(pg, req) /\ Left(pg, req) # -BlockHeader
       THEN Overwritten(after, i)
       ELSE {after}

(* assign_page: the page given to the requester.                           *)
Assigned(pg, garbage, req) ==
  LET first == [state |-> "UNALLOCATED",
                address |-> pg.start_address + PageHeader,
                data_size |-> 0, total_size |-> page_size - PageHeader]
  IN [state |-> "ASSIGNED", owner |-> req.owner,
      size_of_allocated |-> PageHeader, start_address |-> pg.start_address,
      end_address |-> pg.start_address + page_size - 1,
      blocks |-> <<first>>, last_next |-> garbage]

(* Mutants of Remainder: the next page starts one byte too early, or a     *)
(* whole page too late.                                                    *)
RemainderOverlaps(pg) ==
  Unassigned(pg.start_address + page_size - 1, pg.end_address)

RemainderSkipsPage(pg) ==
  Unassigned(pg.start_address + 2 * page_size, pg.end_address)

Remainder(pg) == Unassigned(pg.start_address + page_size, pg.end_address)

Size(pg) == pg.end_address - pg.start_address + 1

(* The page list after assign_page has taken page u of the copy it read    *)
(* (the same list, unless a signal came in between): whole if its size is  *)
(* exactly one page, else split in two.                                    *)
Taken(pgs, copy, u, garbage, req) ==
  SubSeq(pgs, 1, u - 1)
    \o <<Assigned(copy[u], garbage, req)>>
    \o (IF Size(copy[u]) = page_size THEN <<>> ELSE <<Remainder(copy[u])>>)
    \o SubSeq(copy, u + 1, Len(copy))

(* Mutant of Free: the state of a page is not looked at.                   *)
FreeWhatever(pg) == TRUE

Free(pg) == pg.state = "UNASSIGNED"

FreePages(pgs) == {i \in 1 .. Len(pgs) : Free(pgs[i])}

-----------------------------------------------------------------------------
(* No two blocks in use share a byte.                                      *)
Disjoint(live) ==
  \A a, b \in live :
    a # b => \/ a.address + a.size <= b.address
             \/ b.address + b.size <= a.address

(* Every block in use lies in a page of the library or thread that asked   *)
(* for it.                                                                 *)
InOwnPages(live, pgs) ==
  \A a \in live : \E i \in 1 .. Len(pgs) :
    /\ pgs[i].owner = a.owner
    /\ pgs[i].start_address + PageHeader + BlockHeader <= a.address
    /\ a.address + a.size <= pgs[i].end_address + 1
=============================================================================
