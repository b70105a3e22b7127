---------------------------- MODULE MemoryProofs ----------------------------
(***************************************************************************)
(* What holds of the allocator for every size of memory, of a page and of  *)
(* the headers, for any threads and for requests of any sizes.             *)
(***************************************************************************)
EXTENDS MemoryManager, TLAPS, SequenceTheorems, FiniteSetTheorems,
        WellFoundedInduction

-----------------------------------------------------------------------------
(* Lemmas about the operators of the model.                                *)

LEMMA LessThanIsWellFounded ==
  IsWellFoundedOn({ss \in Nat \X Nat : ss[1] < ss[2]}, Nat)
BY NatLessThanWellFounded DEF OpToRel

(* Least finds the least element of a nonempty set of naturals: the first  *)
(* page or block of a list that will do.                                   *)
LEMMA LeastProperties ==
  ASSUME NEW S \in SUBSET Nat, S # {}
  PROVE  Least(S) \in S /\ \A y \in S : Least(S) <= y
<1> DEFINE R == {ss \in Nat \X Nat : ss[1] < ss[2]}
<1>1. PICK x \in S : \A y \in S : ~(<<y, x>> \in R)
  <2> HIDE DEF R
  <2>1. IsWellFoundedOn(R, Nat)
    BY LessThanIsWellFounded DEF R
  <2> QED
    BY <2>1, WFMin
<1>2. ASSUME NEW y \in S PROVE x <= y
  <2>1. <<y, x>> \in Nat \X Nat /\ <<y, x>>[1] = y /\ <<y, x>>[2] = x
    OBVIOUS
  <2>2. ~(y < x)
    BY <1>1, <2>1
  <2> QED
    BY <2>2
<1> QED
  BY <1>2 DEF Least

(* The last element of a sequence is replaced by the elements of r and     *)
(* then those of q: what is done to the open block of a page, and to the   *)
(* unassigned page of memory.                                              *)
ReplaceLast(s, r, q) ==
  SubSeq(s, 1, Len(s) - 1) \o r \o q \o SubSeq(s, Len(s) + 1, Len(s))

IsReplaced(S, s, r, q, t) ==
  /\ t \in Seq(S)
  /\ Len(t) = Len(s) - 1 + Len(r) + Len(q)
  /\ \A j \in 1 .. Len(s) - 1 : t[j] = s[j]
  /\ \A j \in 1 .. Len(r) : t[Len(s) - 1 + j] = r[j]
  /\ \A j \in 1 .. Len(q) : t[Len(s) - 1 + Len(r) + j] = q[j]

LEMMA LastReplaced ==
  ASSUME NEW S, NEW s \in Seq(S), s # <<>>,
         NEW r \in Seq(S), NEW q \in Seq(S)
  PROVE  IsReplaced(S, s, r, q, ReplaceLast(s, r, q))
<1> DEFINE n == Len(s)
           t == ReplaceLast(s, r, q)
           a == SubSeq(s, 1, n - 1)
           b == a \o r
<1>1. n \in Nat /\ n > 0
  BY EmptySeq, LenProperties
<1>2. SubSeq(s, n + 1, n) = <<>>
  BY <1>1, SubSeqEmpty
<1>3. /\ a \in Seq(S) /\ Len(a) = n - 1
      /\ \A j \in 1 .. n - 1 : a[j] = s[j]
  <2>1. \A j \in 1 .. n - 1 : s[j] \in S
    BY <1>1, ElementOfSeq
  <2>2. /\ a \in Seq(S)
        /\ Len(a) = IF 1 <= n - 1 THEN (n - 1) - 1 + 1 ELSE 0
        /\ \A j \in 1 .. (n - 1) - 1 + 1 : a[j] = s[1 + j - 1]
    BY <1>1, <2>1, SubSeqProperties
  <2> HIDE DEF a, n
  <2> QED
    BY <1>1, <2>2
<1> HIDE DEF a
<1>4. /\ b \in Seq(S) /\ Len(b) = n - 1 + Len(r)
      /\ \A k \in 1 .. n - 1 + Len(r) :
           /\ k <= n - 1 => b[k] = a[k]
           /\ ~(k <= n - 1) => b[k] = r[k - (n - 1)]
  <2>1. /\ a \o r \in Seq(S) /\ Len(a \o r) = Len(a) + Len(r)
        /\ \A j \in 1 .. Len(a) + Len(r) :
             (a \o r)[j] = IF j <= Len(a) THEN a[j] ELSE r[j - Len(a)]
    BY <1>3, ConcatProperties, Zenon
  <2> QED
    BY <2>1, <1>3, Zenon
<1> HIDE DEF b
<1>5. /\ b \o q \in Seq(S) /\ Len(b \o q) = n - 1 + Len(r) + Len(q)
      /\ \A k \in 1 .. n - 1 + Len(r) + Len(q) :
           /\ k <= n - 1 + Len(r) => (b \o q)[k] = b[k]
           /\ ~(k <= n - 1 + Len(r)) =>
                (b \o q)[k] = q[k - (n - 1 + Len(r))]
  <2>1. /\ b \o q \in Seq(S) /\ Len(b \o q) = Len(b) + Len(q)
        /\ \A j \in 1 .. Len(b) + Len(q) :
             (b \o q)[j] = IF j <= Len(b) THEN b[j] ELSE q[j - Len(b)]
    BY <1>4, ConcatProperties, Zenon
  <2> QED
    BY <2>1, <1>4, Zenon
<1>6. t = b \o q
  BY <1>2, <1>5, ConcatEmptySeq DEF a, b, ReplaceLast
<1>7. Len(r) \in Nat /\ Len(q) \in Nat
  BY LenProperties
<1> HIDE DEF n, t
<1>8. \A j \in 1 .. n - 1 : t[j] = s[j]
  BY <1>1, <1>3, <1>4, <1>5, <1>6, <1>7
<1>9. \A j \in 1 .. Len(r) : t[n - 1 + j] = r[j]
  <2> TAKE j \in 1 .. Len(r)
  <2>1. PICK k \in Int : k = n - 1 + j
    BY <1>1, <1>7
  <2>2. /\ k \in 1 .. n - 1 + Len(r) + Len(q)
        /\ k \in 1 .. n - 1 + Len(r)
        /\ k <= n - 1 + Len(r) /\ ~(k <= n - 1) /\ k - (n - 1) = j
    BY <1>1, <1>7, <2>1
  <2>3. t[k] = b[k] /\ b[k] = r[j]
    BY <2>2, <1>4, <1>5, <1>6
  <2> QED
    BY <2>1, <2>3
<1>10. \A j \in 1 .. Len(q) : t[n - 1 + Len(r) + j] = q[j]
  <2> TAKE j \in 1 .. Len(q)
  <2>0. j \in Int /\ n - 1 + Len(r) + j \in Int
    BY <1>1, <1>7
  <2>1. PICK k \in Int : k = n - 1 + Len(r) + j
    BY <2>0
  <2>2. /\ k \in 1 .. n - 1 + Len(r) + Len(q)
        /\ ~(k <= n - 1 + Len(r)) /\ k - (n - 1 + Len(r)) = j
    BY <1>1, <1>7, <2>1
  <2>3. t[k] = q[j]
    BY <2>2, <1>5, <1>6
  <2> QED
    BY <2>1, <2>3
<1> QED
  BY <1>5, <1>6, <1>8, <1>9, <1>10 DEF n, t, IsReplaced

-----------------------------------------------------------------------------
(* One page.                                                               *)

(* Where the i-th page of the list starts.                                 *)
PageStart(i) == MetaSize + (i - 1) * page_size

OpenBlock(pg) == pg.blocks[Len(pg.blocks)]

(* A page in use is one page_size long; its blocks tile it behind its      *)
(* header and the open block at their end has room for a header.           *)
AssignedPage(pg) ==
  /\ BlocksTilePage(pg)
  /\ pg.end_address = pg.start_address + page_size - 1
  /\ BlockHeader <= OpenBlock(pg).total_size
  /\ \A j \in 1 .. Len(pg.blocks) :
       pg.start_address + PageHeader <= pg.blocks[j].address
  /\ \A j \in 1 .. Len(pg.blocks) - 1 :
       pg.blocks[j].address + BlockHeader <= OpenBlock(pg).address

(* There is room for the header of a page that is not in use.              *)
UnassignedPage(pg) ==
  /\ pg.owner = Unknown /\ pg.blocks = <<>>
  /\ pg.start_address + PageHeader <= MemSize

LEMMA PageStartProperties ==
  ASSUME NEW i \in Nat \ {0}
  PROVE  /\ PageStart(i) \in Nat
         /\ PageStart(i + 1) = PageStart(i) + page_size
         /\ PageStart(i + 1) = MetaSize + page_size * i
         /\ \A k \in Nat : i < k => PageStart(i) + page_size <= PageStart(k)
<1>1. page_size \in Nat /\ MetaSize \in Nat
  BY MemoryAssumption
<1>2. ASSUME NEW a \in Nat, NEW b \in Nat, NEW p \in Nat
      PROVE  /\ a * p \in Nat /\ (a + 1) * p = a * p + p
             /\ a * p + p = p * (a + 1)
             /\ (a + 1 + b) * p = a * p + p + b * p
  OBVIOUS
<1>3. /\ (i - 1) * page_size \in Nat
      /\ i * page_size = (i - 1) * page_size + page_size
      /\ (i - 1) * page_size + page_size = page_size * i
  <2>1. i - 1 \in Nat /\ i - 1 + 1 = i
    OBVIOUS
  <2> QED
    BY <1>1, <1>2, <2>1
<1>4. ASSUME NEW k \in Nat, i < k
      PROVE  (i - 1) * page_size + page_size <= (k - 1) * page_size
  <2>1. PICK b \in Nat : k = i + 1 + b
    BY <1>4
  <2>2. k - 1 = (i - 1) + 1 + b /\ i - 1 \in Nat
    BY <2>1
  <2>3. (k - 1) * page_size
          = (i - 1) * page_size + page_size + b * page_size
    BY <1>1, <1>2, <2>2
  <2>4. b * page_size \in Nat /\ (i - 1) * page_size \in Nat
    BY <1>1, <1>2, <1>3
  <2>5. ASSUME NEW x \in Nat, NEW y \in Nat, NEW z, z = x + page_size + y
        PROVE  x + page_size <= z
    BY <1>1, <2>5
  <2> QED
    BY <2>3, <2>4, <2>5
<1>5. PageStart(i + 1) = MetaSize + i * page_size
  BY DEF PageStart
<1>6. ASSUME NEW k \in Nat, i < k
      PROVE  PageStart(i) + page_size <= PageStart(k)
  <2>1. ASSUME NEW x \in Nat, NEW y \in Int, x + page_size <= y
        PROVE  MetaSize + x + page_size <= MetaSize + y
    BY <1>1, <2>1
  <2>2. (k - 1) * page_size \in Int
    BY <1>1
  <2> QED
    BY <1>3, <1>4, <1>6, <2>1, <2>2 DEF PageStart
<1>7. ASSUME NEW x \in Nat, NEW y, NEW z, y = x + page_size, y = z
      PROVE  /\ MetaSize + x \in Nat
             /\ MetaSize + y = MetaSize + x + page_size
             /\ MetaSize + y = MetaSize + z
  BY <1>1, <1>7
<1> QED
  BY <1>3, <1>5, <1>6, <1>7 DEF PageStart

(* Numbers of a page in use.                                               *)
LEMMA AssignedPageNumbers ==
  ASSUME NEW pg \in Pages, AssignedPage(pg)
  PROVE  /\ Len(pg.blocks) \in 1 .. Len(pg.blocks)
         /\ OpenBlock(pg) \in Blocks
         /\ OpenBlock(pg).state = "UNALLOCATED"
         /\ OpenBlock(pg).address + OpenBlock(pg).total_size
              = pg.end_address + 1
         /\ OpenBlock(pg).address + BlockHeader <= pg.end_address + 1
         /\ pg.start_address + PageHeader <= OpenBlock(pg).address
         /\ pg.size_of_allocated = OpenBlock(pg).address - pg.start_address
<1>1. /\ pg.blocks \in Seq(Blocks)
      /\ pg.start_address \in Nat /\ pg.end_address \in Nat
  BY DEF Pages
<1>2. Len(pg.blocks) \in 1 .. Len(pg.blocks)
  BY <1>1 DEF AssignedPage, BlocksTilePage
<1>3. OpenBlock(pg) \in Blocks
  BY <1>1, <1>2 DEF OpenBlock
<1>4. /\ OpenBlock(pg).address \in Nat /\ OpenBlock(pg).total_size \in Int
  BY <1>3 DEF Blocks
<1>5. /\ OpenBlock(pg).state = "UNALLOCATED"
      /\ OpenBlock(pg).address + OpenBlock(pg).total_size
           = pg.end_address + 1
      /\ pg.size_of_allocated = OpenBlock(pg).address - pg.start_address
      /\ BlockHeader <= OpenBlock(pg).total_size
      /\ pg.start_address + PageHeader <= OpenBlock(pg).address
  BY <1>2 DEF AssignedPage, BlocksTilePage, OpenBlock
<1>6. OpenBlock(pg).address + BlockHeader <= pg.end_address + 1
  BY <1>1, <1>4, <1>5, MemoryAssumption
<1> QED
  BY <1>2, <1>3, <1>5, <1>6

(* Only the open block of a page in use can fit a request: the search ends *)
(* at it, and what is below it stays as it is.                             *)
LEMMA OpenBlockIsCarved ==
  ASSUME NEW pg \in Pages, AssignedPage(pg), NEW req \in Requests,
         Fitting(pg, req) # {}
  PROVE  /\ First(pg, req) = Len(pg.blocks)
         /\ req.size <= OpenBlock(pg).total_size
<1>1. Fitting(pg, req) \subseteq {Len(pg.blocks)}
  <2> SUFFICES ASSUME NEW j \in 1 .. Len(pg.blocks), Fits(pg.blocks[j], req)
               PROVE  j = Len(pg.blocks)
    BY DEF Fitting
  <2>1. pg.blocks[j].state = "UNALLOCATED"
    BY DEF Fits
  <2>2. \A k \in 1 .. Len(pg.blocks) - 1 : pg.blocks[k].state = "ALLOCATED"
    BY DEF AssignedPage, BlocksTilePage
  <2>3. j \notin 1 .. Len(pg.blocks) - 1
    BY <2>1, <2>2
  <2>4. Len(pg.blocks) \in Nat
    BY LenProperties DEF Pages
  <2> QED
    BY <2>3, <2>4
<1>2. Fitting(pg, req) = {Len(pg.blocks)}
  BY <1>1
<1>3. Fitting(pg, req) \in SUBSET Nat
  <2>1. Len(pg.blocks) \in Nat
    BY LenProperties DEF Pages
  <2> QED
    BY <1>2, <2>1
<1>4. First(pg, req) = Len(pg.blocks)
  BY <1>2, <1>3, LeastProperties DEF First
<1>5. Fits(OpenBlock(pg), req)
  BY <1>2 DEF Fitting, OpenBlock
<1>6. OpenBlock(pg).total_size \in Int /\ req.size \in Nat
  BY AssignedPageNumbers DEF Blocks, Requests
<1> QED
  BY <1>4, <1>5, <1>6 DEF Fits

LEMMA SplitProperties ==
  ASSUME NEW blk \in Blocks, NEW req \in Requests
  PROVE  /\ Allocated(blk, req) \in Blocks /\ Rest(blk, req) \in Blocks
         /\ Split(blk, req) \in Seq(Blocks)
         /\ Len(Split(blk, req)) = IF blk.total_size = req.size THEN 1 ELSE 2
         /\ Split(blk, req)[1] = Allocated(blk, req)
         /\ blk.total_size # req.size => Split(blk, req)[2] = Rest(blk, req)
<1>1. /\ blk.address \in Nat /\ blk.total_size \in Int /\ req.size \in Nat
      /\ BlockHeader \in Nat
  BY MemoryAssumption DEF Blocks, Requests
<1>2. Allocated(blk, req) \in Blocks
  BY <1>1 DEF Allocated, Blocks
<1>3. Rest(blk, req) \in Blocks
  BY <1>1 DEF Rest, Blocks
<1> QED
  BY <1>2, <1>3 DEF Split

PageWith(pg, s, b) == [pg EXCEPT !.size_of_allocated = s, !.blocks = b]

LEMMA PageUpdated ==
  ASSUME NEW pg \in Pages, NEW s \in Nat, NEW b \in Seq(Blocks)
  PROVE  /\ PageWith(pg, s, b) \in Pages
         /\ PageWith(pg, s, b).size_of_allocated = s
         /\ PageWith(pg, s, b).blocks = b
         /\ PageWith(pg, s, b).state = pg.state
         /\ PageWith(pg, s, b).owner = pg.owner
         /\ PageWith(pg, s, b).start_address = pg.start_address
         /\ PageWith(pg, s, b).end_address = pg.end_address
BY DEF Pages, PageWith

(* A page after a block was carved out of its open block.                  *)
LEMMA CarveProperties ==
  ASSUME NEW pg \in Pages, AssignedPage(pg), NEW req \in Requests,
         Fitting(pg, req) # {}
  PROVE  /\ Carve(pg, req) \in Pages
         /\ Carve(pg, req).state = pg.state
         /\ Carve(pg, req).owner = pg.owner
         /\ Carve(pg, req).start_address = pg.start_address
         /\ Carve(pg, req).end_address = pg.end_address
         /\ Carve(pg, req).size_of_allocated
              = pg.size_of_allocated + req.size + BlockHeader
         /\ Len(Carve(pg, req).blocks)
              = IF OpenBlock(pg).total_size = req.size
                  THEN Len(pg.blocks) ELSE Len(pg.blocks) + 1
         /\ \A j \in 1 .. Len(pg.blocks) - 1 :
              Carve(pg, req).blocks[j] = pg.blocks[j]
         /\ Carve(pg, req).blocks[Len(pg.blocks)]
              = Allocated(OpenBlock(pg), req)
         /\ OpenBlock(pg).total_size # req.size =>
              Carve(pg, req).blocks[Len(pg.blocks) + 1]
                = Rest(OpenBlock(pg), req)
<1> DEFINE n == Len(pg.blocks)
           two == Split(OpenBlock(pg), req)
           t == SubSeq(pg.blocks, 1, n - 1) \o two
                  \o SubSeq(pg.blocks, n + 1, n)
<1>1. First(pg, req) = n /\ n \in 1 .. n /\ OpenBlock(pg) \in Blocks
  BY OpenBlockIsCarved, AssignedPageNumbers
<1>2. /\ pg.blocks \in Seq(Blocks) /\ pg.size_of_allocated \in Nat
      /\ req.size \in Nat /\ BlockHeader \in Nat
  BY MemoryAssumption DEF Pages, Requests
<1>3. Carve(pg, req) =
        [pg EXCEPT !.size_of_allocated = @ + req.size + BlockHeader,
                   !.blocks = t]
  BY <1>1 DEF Carve, OpenBlock
<1>4. /\ two \in Seq(Blocks)
      /\ Len(two) = IF OpenBlock(pg).total_size = req.size THEN 1 ELSE 2
      /\ two[1] = Allocated(OpenBlock(pg), req)
      /\ OpenBlock(pg).total_size # req.size =>
           two[2] = Rest(OpenBlock(pg), req)
  BY <1>1, SplitProperties
<1> HIDE DEF two
<1>5. t = SubSeq(pg.blocks, 1, n - 1) \o two \o <<>>
            \o SubSeq(pg.blocks, n + 1, n)
  <2>1. \A j \in 1 .. n - 1 : pg.blocks[j] \in Blocks
    <3>1. n \in Nat
      BY <1>1
    <3> QED
      BY <1>2, <3>1, ElementOfSeq
  <2>2. SubSeq(pg.blocks, 1, n - 1) \in Seq(Blocks)
    BY <1>1, <2>1, SubSeqProperties
  <2>3. SubSeq(pg.blocks, 1, n - 1) \o two \in Seq(Blocks)
    BY <2>2, <1>4, ConcatProperties
  <2>4. SubSeq(pg.blocks, 1, n - 1) \o two \o <<>>
          = SubSeq(pg.blocks, 1, n - 1) \o two
    BY <2>3, ConcatEmptySeq
  <2> QED
    BY <2>4
<1>6. pg.blocks # <<>>
  BY <1>1
<1>7. PICK e \in Seq(Blocks) : e = <<>> /\ Len(e) = 0
  <2>1. <<>> \in Seq(Blocks) /\ Len(<<>>) = 0
    OBVIOUS
  <2> QED
    BY <2>1, Zenon
<1> HIDE DEF t
<1>8. /\ t \in Seq(Blocks)
      /\ Len(t) = n - 1 + Len(two) + 0
      /\ \A j \in 1 .. n - 1 : t[j] = pg.blocks[j]
      /\ \A j \in 1 .. Len(two) : t[n - 1 + j] = two[j]
  <2>1. t = ReplaceLast(pg.blocks, two, e)
    BY <1>5, <1>7 DEF ReplaceLast
  <2>5. /\ t \in Seq(Blocks)
        /\ Len(t) = n - 1 + Len(two) + Len(e)
        /\ \A j \in 1 .. n - 1 : t[j] = pg.blocks[j]
        /\ \A j \in 1 .. Len(two) : t[n - 1 + j] = two[j]
    <3>1. IsReplaced(Blocks, pg.blocks, two, e, t)
      BY <1>2, <1>4, <1>6, <1>7, <2>1, LastReplaced
    <3> QED
      BY <3>1 DEF IsReplaced
  <2> QED
    BY <2>5, <1>7, Zenon
<1>9. /\ t[n] = Allocated(OpenBlock(pg), req)
      /\ OpenBlock(pg).total_size # req.size =>
           t[n + 1] = Rest(OpenBlock(pg), req)
  <2>1. n - 1 + 1 = n /\ n - 1 + 2 = n + 1
    BY <1>1
  <2>2. 1 \in 1 .. Len(two)
    BY <1>4
  <2>3. OpenBlock(pg).total_size # req.size => 2 \in 1 .. Len(two)
    BY <1>4
  <2> QED
    BY <1>4, <1>8, <2>1, <2>2, <2>3
<1>10. Len(t) = IF OpenBlock(pg).total_size = req.size THEN n ELSE n + 1
  <2>1. n \in Nat
    BY <1>1
  <2>2. Len(t) = n - 1 + Len(two) + 0
    BY <1>8
  <2> HIDE DEF n
  <2>3. n - 1 + 1 + 0 = n /\ n - 1 + 2 + 0 = n + 1
    BY <2>1
  <2> QED
    BY <1>4, <2>2, <2>3
<1>11. /\ Carve(pg, req) \in Pages
       /\ Carve(pg, req).blocks = t
       /\ Carve(pg, req).state = pg.state
       /\ Carve(pg, req).owner = pg.owner
       /\ Carve(pg, req).start_address = pg.start_address
       /\ Carve(pg, req).end_address = pg.end_address
       /\ Carve(pg, req).size_of_allocated
            = pg.size_of_allocated + req.size + BlockHeader
  <2>1. pg.size_of_allocated + req.size + BlockHeader \in Nat
    BY <1>2
  <2>2. PICK s \in Nat : s = pg.size_of_allocated + req.size + BlockHeader
    BY <2>1
  <2>3. Carve(pg, req) = PageWith(pg, s, t)
    BY <1>3, <2>2 DEF PageWith
  <2>4. t \in Seq(Blocks)
    BY <1>8
  <2>5. /\ PageWith(pg, s, t) \in Pages
        /\ PageWith(pg, s, t).size_of_allocated = s
        /\ PageWith(pg, s, t).blocks = t
        /\ PageWith(pg, s, t).state = pg.state
        /\ PageWith(pg, s, t).owner = pg.owner
        /\ PageWith(pg, s, t).start_address = pg.start_address
        /\ PageWith(pg, s, t).end_address = pg.end_address
    BY <2>4, PageUpdated, Zenon
  <2> QED
    BY <2>2, <2>3, <2>5, Zenon
<1> QED
  BY <1>8, <1>9, <1>10, <1>11

(* The address x, the size z and the page (from b to e, with a header of   *)
(* p) of the open block, before and after size + BlockHeader is taken.     *)
LEMMA RestNumbers ==
  ASSUME NEW x \in Nat, NEW z \in Int, NEW b \in Nat, NEW e \in Nat,
         NEW p \in Nat, NEW size \in Nat, NEW header \in Nat,
         x + z = e + 1, b + p <= x
  PROVE  /\ (x + size + header) + (z - (size + header)) = e + 1
         /\ (x - b) + size + header = (x + size + header) - b
         /\ b + p <= x + size + header
OBVIOUS

(* With room for the header of the rest the page stays a page in use, and  *)
(* its open block is the rest.                                             *)
LEMMA CarveKeepsPage ==
  ASSUME NEW pg \in Pages, AssignedPage(pg), NEW req \in Requests,
         Fitting(pg, req) # {},
         BlockHeader <= OpenBlock(pg).total_size - (req.size + BlockHeader)
  PROVE  /\ AssignedPage(Carve(pg, req))
         /\ OpenBlock(Carve(pg, req)).address
              = OpenBlock(pg).address + BlockHeader + req.size
<1> DEFINE n == Len(pg.blocks)
           blk == OpenBlock(pg)
           a == Allocated(blk, req)
           r == Rest(blk, req)
<1>1. PICK c \in Pages : c = Carve(pg, req)
  BY CarveProperties
<1>2. /\ n \in 1 .. n /\ n \in Nat
      /\ blk.address \in Nat /\ blk.total_size \in Int
      /\ req.size \in Nat /\ BlockHeader \in Nat \ {0} /\ PageHeader \in Nat
      /\ pg.start_address \in Nat /\ pg.end_address \in Nat
  <2>1. n \in 1 .. n /\ blk \in Blocks
    BY AssignedPageNumbers
  <2>2. blk.address \in Nat /\ blk.total_size \in Int
    BY <2>1 DEF Blocks
  <2>3. n \in Nat
    BY <2>1
  <2>4. pg.start_address \in Nat /\ pg.end_address \in Nat
    BY DEF Pages
  <2>5. req.size \in Nat
    BY DEF Requests
  <2> QED
    BY <2>1, <2>2, <2>3, <2>4, <2>5, MemoryAssumption
<1>3. /\ blk.address + blk.total_size = pg.end_address + 1
      /\ pg.start_address + PageHeader <= blk.address
      /\ pg.size_of_allocated = blk.address - pg.start_address
  BY AssignedPageNumbers
<1>4. blk.total_size # req.size
  BY <1>2
<1>5. /\ c.start_address = pg.start_address
      /\ c.end_address = pg.end_address
      /\ c.size_of_allocated = pg.size_of_allocated + req.size + BlockHeader
      /\ Len(c.blocks) = n + 1
      /\ \A j \in 1 .. n - 1 : c.blocks[j] = pg.blocks[j]
      /\ c.blocks[n] = a /\ c.blocks[n + 1] = r
  BY <1>1, <1>4, CarveProperties, Zenon
<1>6. /\ a.state = "ALLOCATED" /\ a.address = blk.address
      /\ a.total_size = req.size + BlockHeader
  BY DEF Allocated
<1>7. /\ r.state = "UNALLOCATED"
      /\ r.address = blk.address + req.size + BlockHeader
      /\ r.total_size = blk.total_size - (req.size + BlockHeader)
  BY DEF Rest
<1>8. /\ pg.blocks[n] = blk
      /\ pg.blocks[1].address = pg.start_address + PageHeader
      /\ \A j \in 1 .. n - 1 :
           /\ pg.blocks[j].state = "ALLOCATED"
           /\ pg.blocks[j + 1].address
                = pg.blocks[j].address + pg.blocks[j].total_size
      /\ pg.end_address = pg.start_address + page_size - 1
      /\ \A j \in 1 .. n :
           pg.start_address + PageHeader <= pg.blocks[j].address
      /\ \A j \in 1 .. n - 1 :
           pg.blocks[j].address + BlockHeader <= blk.address
  BY DEF AssignedPage, BlocksTilePage, OpenBlock
<1>9. OpenBlock(c) = r
  BY <1>5 DEF OpenBlock
<1> HIDE DEF n, blk, a, r
<1>10. r.address = blk.address + BlockHeader + req.size
  BY <1>2, <1>7
<1>11. \A j \in 1 .. n : c.blocks[j].address = pg.blocks[j].address
  <2> TAKE j \in 1 .. n
  <2>1. j \in 1 .. n - 1 \/ j = n
    BY <1>2
  <2> QED
    BY <2>1, <1>5, <1>6, <1>8
<1>12. c.blocks[1].address = c.start_address + PageHeader
  <2>1. 1 \in 1 .. n
    BY <1>2
  <2> QED
    BY <2>1, <1>5, <1>8, <1>11
<1>13. \A j \in 1 .. n :
         /\ c.blocks[j].state = "ALLOCATED"
         /\ c.blocks[j + 1].address
              = c.blocks[j].address + c.blocks[j].total_size
  <2> TAKE j \in 1 .. n
  <2>1. CASE j = n
    <3>1. blk.address + req.size + BlockHeader
            = blk.address + (req.size + BlockHeader)
      BY <1>2
    <3> QED
      BY <2>1, <3>1, <1>5, <1>6, <1>7
  <2>2. CASE j # n
    <3>1. j \in 1 .. n - 1 /\ j + 1 \in 1 .. n
      BY <1>2, <2>2
    <3> QED
      BY <3>1, <1>5, <1>8, <1>11
  <2> QED
    BY <2>1, <2>2
<1> DEFINE end == blk.address + req.size + BlockHeader
<1>rest. /\ end + (blk.total_size - (req.size + BlockHeader))
            = pg.end_address + 1
       /\ (blk.address - pg.start_address) + req.size + BlockHeader
            = end - pg.start_address
       /\ pg.start_address + PageHeader <= end
  <2>1. PICK x \in Nat, z \in Int, b \in Nat, e \in Nat, size \in Nat :
          /\ x = blk.address /\ z = blk.total_size
          /\ b = pg.start_address /\ e = pg.end_address /\ size = req.size
    BY <1>2
  <2>2. x + z = e + 1 /\ b + PageHeader <= x
    BY <1>3, <2>1
  <2>3. /\ (x + size + BlockHeader) + (z - (size + BlockHeader)) = e + 1
        /\ (x - b) + size + BlockHeader = (x + size + BlockHeader) - b
        /\ b + PageHeader <= x + size + BlockHeader
    BY <1>2, <2>2, RestNumbers
  <2> HIDE DEF blk
  <2> QED
    BY <2>1, <2>3
<1>14. r.address + r.total_size = c.end_address + 1
  BY <1>5, <1>7, <1>rest, Zenon
<1>15. c.size_of_allocated = r.address - c.start_address
  BY <1>3, <1>5, <1>7, <1>rest, Zenon
<1>16. BlocksTilePage(c)
  <2>1. n + 1 - 1 = n /\ n + 1 > 0
    BY <1>2
  <2>2. Len(c.blocks) - 1 = n /\ Len(c.blocks) > 0
    BY <2>1, <1>2, <1>5
  <2>3. c.blocks[Len(c.blocks)] = r
    BY <1>5
  <2> QED
    BY <2>2, <2>3, <1>7, <1>12, <1>13, <1>14, <1>15 DEF BlocksTilePage
<1>17. \A j \in 1 .. n + 1 :
         c.start_address + PageHeader <= c.blocks[j].address
  <2> TAKE j \in 1 .. n + 1
  <2>1. CASE j = n + 1
    <3>1. c.blocks[j] = r
      BY <2>1, <1>5
    <3>2. c.start_address + PageHeader <= r.address
      BY <1>5, <1>7, <1>rest, Zenon
    <3> QED
      BY <3>1, <3>2
  <2>2. CASE j # n + 1
    <3>1. j \in 1 .. n
      BY <1>2, <2>2
    <3> QED
      BY <3>1, <1>5, <1>8, <1>11
  <2> QED
    BY <2>1, <2>2
<1>18. \A j \in 1 .. n : c.blocks[j].address + BlockHeader <= r.address
  <2> TAKE j \in 1 .. n
  <2>1. CASE j = n
    BY <2>1, <1>2, <1>5, <1>6, <1>7
  <2>2. CASE j # n
    <3>1. j \in 1 .. n - 1 /\ j \in 1 .. n
      BY <1>2, <2>2
    <3>2. c.blocks[j].address + BlockHeader <= blk.address
      BY <3>1, <1>8, <1>11
    <3>3. c.blocks[j].address \in Nat
      <4>1. j \in 1 .. Len(c.blocks)
        BY <1>2, <1>5
      <4>2. c.blocks \in Seq(Blocks)
        BY DEF Pages
      <4>3. c.blocks[j] \in Blocks
        BY <4>1, <4>2
      <4> QED
        BY <4>3 DEF Blocks
    <3> QED
      BY <3>2, <3>3, <1>2, <1>7
  <2> QED
    BY <2>1, <2>2
<1>19. BlockHeader <= r.total_size
  BY <1>7 DEF blk
<1>20. AssignedPage(c)
  <2>1. n + 1 - 1 = n
    BY <1>2
  <2>2. Len(c.blocks) = n + 1 /\ Len(c.blocks) - 1 = n
    BY <2>1, <1>2, <1>5
  <2>3. c.end_address = c.start_address + page_size - 1
    BY <1>5, <1>8
  <2> QED
    BY <2>2, <2>3, <1>9, <1>16, <1>17, <1>18, <1>19 DEF AssignedPage
<1> QED
  BY <1>1, <1>9, <1>10, <1>20 DEF blk

-----------------------------------------------------------------------------
(* The page list.                                                          *)

(* Pages follow one another, those in use first; the last one ends where   *)
(* memory does.                                                            *)
LaidOut(pgs) ==
  /\ \A i \in 1 .. Len(pgs) : pgs[i].start_address = PageStart(i)
  /\ \A i \in 1 .. Len(pgs) :
       pgs[i].state = "ASSIGNED" => AssignedPage(pgs[i])
  /\ \A i \in 1 .. Len(pgs) :
       pgs[i].state = "UNASSIGNED" => i = Len(pgs) /\ UnassignedPage(pgs[i])
  /\ pgs # <<>> => pgs[Len(pgs)].end_address = MemSize - 1

LEMMA PagesApart ==
  ASSUME NEW pgs \in Seq(Pages), LaidOut(pgs),
         NEW i \in 1 .. Len(pgs), NEW k \in 1 .. Len(pgs), i < k
  PROVE  /\ pgs[i].state = "ASSIGNED" /\ AssignedPage(pgs[i])
         /\ pgs[i].end_address + 1 <= pgs[k].start_address
         /\ pgs[i].end_address + 1 = PageStart(i + 1)
<1>1. Len(pgs) \in Nat /\ pgs[i] \in Pages /\ pgs[k] \in Pages
  BY LenProperties
<1>2. pgs[i].state = "ASSIGNED"
  <2>1. i # Len(pgs)
    BY <1>1
  <2> QED
    BY <1>1, <2>1 DEF LaidOut, Pages
<1>3. AssignedPage(pgs[i])
  BY <1>2 DEF LaidOut
<1>4. pgs[i].end_address = PageStart(i) + page_size - 1
  BY <1>3 DEF LaidOut, AssignedPage
<1>5. /\ PageStart(i) \in Nat /\ PageStart(i + 1) = PageStart(i) + page_size
      /\ PageStart(i) + page_size <= PageStart(k)
  <2>1. i \in Nat \ {0} /\ k \in Nat
    BY <1>1
  <2> QED
    BY <2>1, PageStartProperties
<1>6. pgs[i].end_address + 1 = PageStart(i) + page_size
  BY <1>4, <1>5, MemoryAssumption
<1>7. pgs[k].start_address = PageStart(k)
  BY DEF LaidOut
<1> QED
  BY <1>2, <1>3, <1>5, <1>6, <1>7

(* A page in use changes inside.                                           *)
LEMMA PageReplaced ==
  ASSUME NEW pgs \in Seq(Pages), LaidOut(pgs),
         NEW i \in 1 .. Len(pgs), pgs[i].state = "ASSIGNED",
         NEW c \in Pages, AssignedPage(c), c.state = "ASSIGNED",
         c.start_address = pgs[i].start_address,
         c.end_address = pgs[i].end_address
  PROVE  LaidOut([pgs EXCEPT ![i] = c])
<1> DEFINE t == [pgs EXCEPT ![i] = c]
<1>1. /\ t \in Seq(Pages) /\ Len(t) = Len(pgs)
      /\ \A j \in 1 .. Len(pgs) : t[j] = IF j = i THEN c ELSE pgs[j]
  BY ExceptSeq
<1>2. Len(pgs) \in Nat /\ Len(pgs) > 0
  BY LenProperties
<1>3. pgs # <<>>
  BY <1>2
<1> HIDE DEF t
<1>4. \A j \in 1 .. Len(t) : t[j].start_address = PageStart(j)
  BY <1>1 DEF LaidOut
<1>5. \A j \in 1 .. Len(t) : t[j].state = "ASSIGNED" => AssignedPage(t[j])
  BY <1>1 DEF LaidOut
<1>6. \A j \in 1 .. Len(t) :
        t[j].state = "UNASSIGNED" => j = Len(t) /\ UnassignedPage(t[j])
  BY <1>1 DEF LaidOut
<1>7. t[Len(t)].end_address = MemSize - 1
  <2>1. Len(t) \in 1 .. Len(pgs)
    BY <1>1, <1>2
  <2>2. pgs[Len(pgs)].end_address = MemSize - 1
    BY <1>3 DEF LaidOut
  <2> QED
    BY <2>1, <2>2, <1>1
<1>8. LaidOut(t)
  BY <1>4, <1>5, <1>6, <1>7 DEF LaidOut
<1> QED
  BY <1>8 DEF t

(* The page given to a requester is a page in use with one open block.     *)
LEMMA NewPageProperties ==
  ASSUME NEW pg \in Pages, NEW garbage \in Garbage, NEW req \in Requests
  PROVE  /\ req.owner \in Owners => Assigned(pg, garbage, req) \in Pages
         /\ Assigned(pg, garbage, req).state = "ASSIGNED"
         /\ Assigned(pg, garbage, req).owner = req.owner
         /\ Assigned(pg, garbage, req).size_of_allocated = PageHeader
         /\ Assigned(pg, garbage, req).start_address = pg.start_address
         /\ AssignedPage(Assigned(pg, garbage, req))
         /\ Len(Assigned(pg, garbage, req).blocks) = 1
         /\ Assigned(pg, garbage, req).blocks[1]
              = [state |-> "UNALLOCATED",
                 address |-> pg.start_address + PageHeader,
                 data_size |-> 0, total_size |-> page_size - PageHeader]
<1> DEFINE first == [state |-> "UNALLOCATED",
                     address |-> pg.start_address + PageHeader,
                     data_size |-> 0, total_size |-> page_size - PageHeader]
<1>1. PICK a : a = Assigned(pg, garbage, req)
  OBVIOUS
<1>2. /\ pg.start_address \in Nat /\ pg.end_address \in Nat
      /\ PageHeader \in Nat /\ BlockHeader \in Nat \ {0} /\ page_size \in Nat
      /\ PageHeader + BlockHeader <= page_size
  <2>1. pg.start_address \in Nat /\ pg.end_address \in Nat
    BY DEF Pages
  <2> QED
    BY <2>1, MemoryAssumption
<1>3. /\ first \in Blocks /\ first.state = "UNALLOCATED"
      /\ first.address = pg.start_address + PageHeader
      /\ first.total_size = page_size - PageHeader
  BY <1>2 DEF Blocks
<1>4. /\ a.state = "ASSIGNED" /\ a.owner = req.owner
      /\ a.size_of_allocated = PageHeader
      /\ a.start_address = pg.start_address
      /\ a.end_address = pg.start_address + page_size - 1
      /\ a.blocks = <<first>> /\ a.last_next = garbage
  BY <1>1 DEF Assigned
<1> HIDE DEF first
<1>5. /\ <<first>> \in Seq(Blocks) /\ Len(<<first>>) = 1
      /\ <<first>>[1] = first
  BY <1>3
<1>6. pg.start_address + page_size - 1 \in Nat
  BY <1>2
<1>7. req.owner \in Owners => a \in Pages
  <2> DEFINE e == pg.start_address + page_size - 1
  <2>1. a = [state |-> "ASSIGNED", owner |-> req.owner,
             size_of_allocated |-> PageHeader,
             start_address |-> pg.start_address,
             end_address |-> e, blocks |-> <<first>>, last_next |-> garbage]
    BY <1>1 DEF Assigned, first
  <2>2. e \in Nat
    BY <1>6
  <2> HIDE DEF e
  <2> QED
    BY <1>2, <1>5, <2>1, <2>2 DEF Pages
<1>8. OpenBlock(a) = first
  BY <1>4, <1>5 DEF OpenBlock
<1>9. BlocksTilePage(a)
  <2>1. first.address + first.total_size = a.end_address + 1
    BY <1>2, <1>3, <1>4
  <2>2. a.size_of_allocated = first.address - a.start_address
    BY <1>2, <1>3, <1>4
  <2>3. Len(a.blocks) = 1 /\ a.blocks[1] = first
    BY <1>4, <1>5
  <2>4. \A j \in 1 .. 1 - 1 : FALSE
    OBVIOUS
  <2>5. first.address = a.start_address + PageHeader
    BY <1>3, <1>4
  <2>6. 1 > 0
    OBVIOUS
  <2> QED
    BY <2>1, <2>2, <2>3, <2>4, <2>5, <2>6, <1>3 DEF BlocksTilePage
<1>10. AssignedPage(a)
  <2>1. Len(a.blocks) = 1 /\ a.blocks[1] = first
    BY <1>4, <1>5
  <2>2. BlockHeader <= first.total_size
    BY <1>2, <1>3
  <2>3. a.end_address = a.start_address + page_size - 1
    BY <1>4
  <2>4. \A j \in 1 .. 1 :
          a.start_address + PageHeader <= a.blocks[j].address
    BY <2>1, <1>2, <1>3, <1>4
  <2>5. \A j \in 1 .. 1 - 1 : FALSE
    OBVIOUS
  <2> QED
    BY <2>1, <2>2, <2>3, <2>4, <2>5, <1>8, <1>9 DEF AssignedPage
<1>11. Len(a.blocks) = 1 /\ a.blocks[1] = first
  BY <1>4, <1>5
<1> QED
  BY <1>1, <1>4, <1>7, <1>10, <1>11 DEF first

LEMMA UnassignedProperties ==
  ASSUME NEW start \in Nat, NEW end \in Nat
  PROVE  /\ Unassigned(start, end) \in Pages
         /\ Unassigned(start, end).state = "UNASSIGNED"
         /\ Unassigned(start, end).owner = Unknown
         /\ Unassigned(start, end).blocks = <<>>
         /\ Unassigned(start, end).start_address = start
         /\ Unassigned(start, end).end_address = end
<1>1. <<>> \in Seq(Blocks)
  OBVIOUS
<1>2. PageHeader \in Nat
  BY MemoryAssumption
<1>3. "NULL" \in Garbage
  BY DEF Garbage
<1> QED
  BY <1>1, <1>2, <1>3 DEF Unassigned, Pages

(* Only the last page can be unassigned, so it is the one assign_page      *)
(* takes; the pages before it stay as they are.                            *)
LEMMA LastPageIsTaken ==
  ASSUME NEW pgs \in Seq(Pages), LaidOut(pgs), FreePages(pgs) # {}
  PROVE  /\ pgs # <<>>
         /\ Least(FreePages(pgs)) = Len(pgs)
         /\ Len(pgs) \in 1 .. Len(pgs)
         /\ pgs[Len(pgs)] \in Pages
         /\ pgs[Len(pgs)].state = "UNASSIGNED"
         /\ UnassignedPage(pgs[Len(pgs)])
         /\ pgs[Len(pgs)].start_address = PageStart(Len(pgs))
         /\ pgs[Len(pgs)].end_address = MemSize - 1
<1>1. FreePages(pgs) \subseteq {Len(pgs)}
  BY DEF FreePages, Free, LaidOut
<1>2. FreePages(pgs) = {Len(pgs)}
  BY <1>1
<1>3. Len(pgs) \in 1 .. Len(pgs) /\ pgs[Len(pgs)].state = "UNASSIGNED"
  BY <1>2 DEF FreePages, Free
<1>4. Len(pgs) \in Nat /\ pgs # <<>>
  BY <1>3, LenProperties
<1>5. FreePages(pgs) \in SUBSET Nat
  BY <1>2, <1>4
<1>6. Least(FreePages(pgs)) = Len(pgs)
  BY <1>2, <1>5, LeastProperties
<1>7. pgs[Len(pgs)] \in Pages
  BY <1>3
<1> QED
  BY <1>3, <1>4, <1>6, <1>7 DEF LaidOut

IsTaken(pgs, n, garbage, req, t) ==
  /\ t \in Seq(Pages)
  /\ Len(t) = IF Size(pgs[n]) = page_size THEN n ELSE n + 1
  /\ \A j \in 1 .. n - 1 : t[j] = pgs[j]
  /\ t[n] = Assigned(pgs[n], garbage, req)
  /\ Size(pgs[n]) # page_size => t[n + 1] = Remainder(pgs[n])

LEMMA TakenProperties ==
  ASSUME NEW pgs \in Seq(Pages), LaidOut(pgs), FreePages(pgs) # {},
         NEW garbage \in Garbage, NEW req \in Requests, req.owner \in Owners
  PROVE  IsTaken(pgs, Len(pgs), garbage, req,
                 Taken(pgs, pgs, Len(pgs), garbage, req))
<1> DEFINE n == Len(pgs)
           t == Taken(pgs, pgs, n, garbage, req)
           a == <<Assigned(pgs[n], garbage, req)>>
           r == IF Size(pgs[n]) = page_size THEN <<>>
                ELSE <<Remainder(pgs[n])>>
<1>1. pgs[n] \in Pages /\ n \in 1 .. n /\ pgs # <<>>
  BY LastPageIsTaken
<1>2. Assigned(pgs[n], garbage, req) \in Pages
  BY <1>1, NewPageProperties
<1>3. Remainder(pgs[n]) \in Pages
  <2>1. /\ pgs[n].start_address \in Nat /\ pgs[n].end_address \in Nat
    BY <1>1 DEF Pages
  <2>2. pgs[n].start_address + page_size \in Nat
    BY <2>1, MemoryAssumption
  <2> QED
    BY <2>1, <2>2, UnassignedProperties DEF Remainder
<1>4. /\ a \in Seq(Pages) /\ Len(a) = 1
      /\ a[1] = Assigned(pgs[n], garbage, req)
  BY <1>2
<1>5. /\ r \in Seq(Pages)
      /\ Len(r) = IF Size(pgs[n]) = page_size THEN 0 ELSE 1
      /\ Size(pgs[n]) # page_size => r[1] = Remainder(pgs[n])
  BY <1>3
<1>6. t = ReplaceLast(pgs, a, r)
  BY DEF Taken, ReplaceLast
<1> HIDE DEF a, r, t
<1>7. IsReplaced(Pages, pgs, a, r, t)
  BY <1>1, <1>4, <1>5, <1>6, LastReplaced
<1>8. /\ t \in Seq(Pages)
      /\ Len(t) = n - 1 + 1 + Len(r)
      /\ \A j \in 1 .. n - 1 : t[j] = pgs[j]
      /\ t[n - 1 + 1] = a[1]
      /\ \A j \in 1 .. Len(r) : t[n - 1 + 1 + j] = r[j]
  <2>1. 1 \in 1 .. Len(a)
    BY <1>4
  <2> QED
    BY <2>1, <1>4, <1>7 DEF IsReplaced
<1>9. n \in Nat /\ n - 1 + 1 = n
  BY <1>1
<1>10. Len(t) = IF Size(pgs[n]) = page_size THEN n ELSE n + 1
  <2> HIDE DEF n
  <2>1. n + 0 = n
    BY <1>9
  <2> QED
    BY <2>1, <1>5, <1>8, <1>9
<1>11. Size(pgs[n]) # page_size => t[n + 1] = Remainder(pgs[n])
  <2> HAVE Size(pgs[n]) # page_size
  <2> HIDE DEF n
  <2>1. Len(r) = 1 /\ 1 \in 1 .. 1 /\ r[1] = Remainder(pgs[n])
    BY <1>5
  <2> QED
    BY <2>1, <1>8, <1>9
<1>12. t[n] = Assigned(pgs[n], garbage, req)
  BY <1>4, <1>8, <1>9
<1>13. IsTaken(pgs, n, garbage, req, t)
  BY <1>8, <1>10, <1>11, <1>12 DEF IsTaken
<1> QED
  BY <1>13 DEF t

(* The page list stays laid out when there is room for a header after the  *)
(* page taken.                                                             *)
LEMMA TakenIsLaidOut ==
  ASSUME NEW pgs \in Seq(Pages), LaidOut(pgs), FreePages(pgs) # {},
         NEW garbage \in Garbage, NEW req \in Requests, req.owner \in Owners,
         NEW t, IsTaken(pgs, Len(pgs), garbage, req, t),
         Size(pgs[Len(pgs)]) # page_size =>
           Remainder(pgs[Len(pgs)]).start_address + PageHeader <= MemSize
  PROVE  LaidOut(t)
<1> DEFINE n == Len(pgs)
           a == Assigned(pgs[n], garbage, req)
           r == Remainder(pgs[n])
           whole == Size(pgs[n]) = page_size
<1>1. /\ n \in 1 .. n /\ pgs[n] \in Pages
      /\ pgs[n].start_address = PageStart(n)
      /\ pgs[n].end_address = MemSize - 1
  BY LastPageIsTaken
<1>2. /\ t \in Seq(Pages)
      /\ Len(t) = IF whole THEN n ELSE n + 1
      /\ \A j \in 1 .. n - 1 : t[j] = pgs[j]
      /\ t[n] = a
      /\ ~whole => t[n + 1] = r
  BY DEF IsTaken
<1>3. /\ a.state = "ASSIGNED" /\ AssignedPage(a)
      /\ a.start_address = PageStart(n)
  BY <1>1, NewPageProperties
<1>4. a.end_address = PageStart(n) + page_size - 1
  BY <1>3 DEF AssignedPage
<1>5. /\ PageStart(n) \in Nat /\ PageStart(n + 1) = PageStart(n) + page_size
      /\ page_size \in Nat /\ MemSize \in Nat /\ MemSize - 1 \in Nat
  <2>1. n \in Nat \ {0}
    BY <1>1
  <2>2. pgs[n].end_address \in Nat
    BY <1>1 DEF Pages
  <2> QED
    BY <1>1, <2>1, <2>2, PageStartProperties, MemoryAssumption
<1>6. /\ r.state = "UNASSIGNED" /\ r.owner = Unknown /\ r.blocks = <<>>
      /\ r.start_address = PageStart(n + 1) /\ r.end_address = MemSize - 1
  <2>1. PageStart(n) + page_size \in Nat
    BY <1>5
  <2> QED
    BY <2>1, <1>1, <1>5, UnassignedProperties DEF Remainder
<1>7. whole => a.end_address = MemSize - 1
  <2>1. Size(pgs[n]) = MemSize - 1 - PageStart(n) + 1
    BY <1>1 DEF Size
  <2> QED
    BY <2>1, <1>4, <1>5
<1>8. ~whole => UnassignedPage(r)
  BY <1>6 DEF UnassignedPage
<1> HIDE DEF a, r, whole
<1>9. \A j \in 1 .. Len(t) :
        j \in 1 .. n - 1 \/ j = n \/ (~whole /\ j = n + 1)
  BY <1>2
<1>10. \A j \in 1 .. n - 1 :
         /\ j \in 1 .. Len(pgs) /\ t[j] = pgs[j]
         /\ t[j].state = "ASSIGNED" /\ AssignedPage(t[j])
         /\ t[j].start_address = PageStart(j)
  <2> TAKE j \in 1 .. n - 1
  <2>1. j \in 1 .. Len(pgs) /\ n \in 1 .. Len(pgs) /\ j < n
    BY <1>1
  <2>2. pgs[j].state = "ASSIGNED" /\ AssignedPage(pgs[j])
    BY <2>1, PagesApart
  <2>3. pgs[j].start_address = PageStart(j)
    BY <2>1 DEF LaidOut
  <2> QED
    BY <2>1, <2>2, <2>3, <1>2
<1>11. \A j \in 1 .. Len(t) : t[j].start_address = PageStart(j)
  BY <1>2, <1>3, <1>6, <1>9, <1>10
<1>12. \A j \in 1 .. Len(t) : t[j].state = "ASSIGNED" => AssignedPage(t[j])
  BY <1>2, <1>3, <1>6, <1>9, <1>10
<1>13. \A j \in 1 .. Len(t) :
         t[j].state = "UNASSIGNED" => j = Len(t) /\ UnassignedPage(t[j])
  BY <1>2, <1>3, <1>6, <1>8, <1>9, <1>10
<1>14. t[Len(t)].end_address = MemSize - 1
  BY <1>2, <1>6, <1>7
<1> QED
  BY <1>11, <1>12, <1>13, <1>14 DEF LaidOut

-----------------------------------------------------------------------------
(* The inductive invariant: while the process is alive the pages are laid  *)
(* out and every block in use lies below the open block of its page.       *)

RequestOwned == request # NoRequest => request.owner \in Owners

HeldIn(a, pg) ==
  /\ pg.state = "ASSIGNED" /\ pg.owner = a.owner
  /\ pg.start_address + PageHeader + BlockHeader <= a.address
  /\ a.address + a.size <= OpenBlock(pg).address

LiveHeld(l, pgs) == \A a \in l : \E i \in 1 .. Len(pgs) : HeldIn(a, pgs[i])

MemoryInvariant ==
  /\ TypeOK
  /\ RequestOwned
  /\ process = "alive" => LaidOut(pages) /\ LiveHeld(live, pages)

(* What a step of AllocateBlock that finds a block does, page i being the  *)
(* first that fits.                                                        *)
CarvedAt(i) ==
  /\ pages[i] \in Pages /\ pages[i].state = "ASSIGNED"
  /\ AssignedPage(pages[i]) /\ pages[i].owner = request.owner
  /\ request # NoRequest /\ request.owner \in Owners
  /\ Fitting(pages[i], request) # {}
  /\ pages' \in Carved(pages, i, pages[i], request)
  /\ live' = live \cup {Given(pages[i], request)}
  /\ request' = NoRequest
  /\ process' = IF NearFit(pages[i], request) THEN "clobbered" ELSE "alive"

LEMMA AllocateBlockStep ==
  ASSUME MemoryInvariant, AllocateBlock
  PROVE  \/ process' = "crashed" /\ UNCHANGED <<pages, request, live>>
         \/ \E i \in 1 .. Len(pages) : CarvedAt(i)
<1> DEFINE i == Least(Stops(pages, request))
<1>1. /\ LaidOut(pages) /\ pages \in Seq(Pages) /\ request \in Requests
      /\ request.owner \in Owners /\ Stops(pages, request) # {}
      /\ request # NoRequest
  BY DEF AllocateBlock, MemoryInvariant, TypeOK, RequestOwned
<1>2. i \in Stops(pages, request)
  <2>1. Stops(pages, request) \in SUBSET Nat
    <3>1. Len(pages) \in Nat
      BY <1>1, LenProperties
    <3> QED
      BY <3>1 DEF Stops
  <2> QED
    BY <1>1, <2>1, LeastProperties
<1>3. i \in 1 .. Len(pages) /\ pages[i].owner = request.owner
  BY <1>2 DEF Stops, Searched
<1>4. pages[i] \in Pages
  BY <1>1, <1>3
<1>5. pages[i].state = "ASSIGNED"
  <2>1. pages[i].owner # Unknown
    BY <1>1, <1>3, OwnerAssumption DEF Owners, Library, Unknown
  <2>2. pages[i].state # "UNASSIGNED"
    BY <1>1, <1>3, <2>1 DEF LaidOut, UnassignedPage
  <2> QED
    BY <1>4, <2>2 DEF Pages
<1>6. AssignedPage(pages[i])
  BY <1>1, <1>3, <1>5 DEF LaidOut
<1>7. CASE Fitting(pages[i], request) = {}
  BY <1>7 DEF AllocateBlock
<1>8. CASE Fitting(pages[i], request) # {}
  <2>1. /\ pages' \in Carved(pages, i, pages[i], request)
        /\ live' = live \cup {Given(pages[i], request)}
        /\ request' = NoRequest
        /\ process' = IF NearFit(pages[i], request) THEN "clobbered"
                                                    ELSE "alive"
    BY <1>8 DEF AllocateBlock
  <2> HIDE DEF i
  <2>2. CarvedAt(i)
    BY <1>1, <1>3, <1>4, <1>5, <1>6, <1>8, <2>1 DEF CarvedAt
  <2> QED
    BY <1>3, <2>2
<1> QED
  BY <1>7, <1>8

(* What a step of AssignPage that has a page to assign does.               *)
LastTaken(garbage) ==
  /\ FreePages(pages) # {} /\ Stops(pages, request) = {}
  /\ request # NoRequest /\ request.owner \in Owners
  /\ IsTaken(pages, Len(pages), garbage, request, pages')
  /\ request' = [request EXCEPT !.depth = @ + 1]
  /\ process' = IF /\ Size(pages[Len(pages)]) # page_size
                   /\ Remainder(pages[Len(pages)]).start_address
                        + PageHeader > MemSize
                  THEN "overrun" ELSE Recursed

(* What it does when there is none, or when a wild tmp_prev is followed.   *)
NoneTaken ==
  /\ Stops(pages, request) = {}
  /\ request # NoRequest /\ request.owner \in Owners
  /\ request' = [request EXCEPT !.depth = @ + 1]
  /\ UNCHANGED pages
  /\ process' = "crashed" \/ (FreePages(pages) = {} /\ process' = Recursed)

LEMMA AssignPageStep ==
  ASSUME MemoryInvariant, AssignPage
  PROVE  /\ UNCHANGED live
         /\ NoneTaken \/ \E garbage \in Garbage : LastTaken(garbage)
<1>1. /\ LaidOut(pages) /\ pages \in Seq(Pages) /\ request \in Requests
      /\ request.owner \in Owners /\ live' = live
      /\ request # NoRequest /\ Stops(pages, request) = {}
      /\ request' = [request EXCEPT !.depth = @ + 1]
  BY DEF AssignPage, MemoryInvariant, TypeOK, RequestOwned
<1>2. CASE FreePages(pages) = {}
  BY <1>1, <1>2 DEF AssignPage, NoneTaken
<1>3. CASE FreePages(pages) # {}
  <2>1. Least(FreePages(pages)) = Len(pages)
    BY <1>1, <1>3, LastPageIsTaken
  <2>2. PICK garbage \in Garbage :
          \/ process' = "crashed" /\ UNCHANGED pages
          \/ /\ pages' = Taken(pages, pages, Len(pages), garbage, request)
             /\ process' = IF /\ Size(pages[Len(pages)]) # page_size
                              /\ Remainder(pages[Len(pages)]).start_address
                                   + PageHeader > MemSize
                             THEN "overrun" ELSE Recursed
    BY <1>3, <2>1 DEF AssignPage
  <2>3. IsTaken(pages, Len(pages), garbage, request,
                Taken(pages, pages, Len(pages), garbage, request))
    BY <1>1, <1>3, TakenProperties
  <2> QED
    BY <1>1, <1>3, <2>2, <2>3 DEF LastTaken, NoneTaken
<1> QED
  BY <1>2, <1>3

LEMMA MyAllocateStep ==
  ASSUME MemoryInvariant, NEW owner \in Owners, NEW size \in Nat,
         my_allocate(owner, size)
  PROVE  /\ request' = [owner |-> owner, size |-> size, depth |-> 0]
         /\ request' \in Requests
         /\ pages' \in Seq(Pages) /\ LaidOut(pages')
         /\ pages # <<>> => pages' = pages
         /\ pages = <<>> => pages' = <<InitialPage>>
         /\ process = "alive" /\ UNCHANGED <<live, process>>
<1>1. /\ LaidOut(pages) /\ pages \in Seq(Pages) /\ process = "alive"
      /\ request' = [owner |-> owner, size |-> size, depth |-> 0]
      /\ UNCHANGED <<live, process>>
      /\ pages' = IF pages = <<>> THEN <<InitialPage>> ELSE pages
  BY DEF my_allocate, MemoryInvariant, TypeOK
<1>2. request' \in Requests
  BY <1>1 DEF Requests
<1>3. /\ InitialPage \in Pages /\ InitialPage.state = "UNASSIGNED"
      /\ InitialPage.owner = Unknown /\ InitialPage.blocks = <<>>
      /\ InitialPage.start_address = MetaSize
      /\ InitialPage.end_address = MemSize - 1
  <2>1. MetaSize \in Nat /\ MemSize - 1 \in Nat
    BY MemoryAssumption
  <2> QED
    BY <2>1, UnassignedProperties DEF InitialPage
<1>4. PageStart(1) = MetaSize
  <2>1. 0 * page_size = 0 /\ 1 - 1 = 0
    BY MemoryAssumption
  <2> QED
    BY <2>1, MemoryAssumption DEF PageStart
<1>5. UnassignedPage(InitialPage)
  BY <1>3, MemoryAssumption DEF UnassignedPage
<1>6. <<InitialPage>> \in Seq(Pages) /\ LaidOut(<<InitialPage>>)
  <2> DEFINE t == <<InitialPage>>
  <2>1. t \in Seq(Pages) /\ Len(t) = 1 /\ t[1] = InitialPage
    BY <1>3
  <2> HIDE DEF t
  <2>2. LaidOut(t)
    BY <2>1, <1>3, <1>4, <1>5 DEF LaidOut
  <2> QED
    BY <2>1, <2>2 DEF t
<1> QED
  BY <1>1, <1>2, <1>6

LEMMA InitMemory == Init => MemoryInvariant
<1> SUFFICES ASSUME Init PROVE MemoryInvariant
  OBVIOUS
<1>1. /\ pages = <<>> /\ request = NoRequest /\ live = {}
      /\ process = "alive"
  BY DEF Init
<1>2. TypeOK
  BY <1>1 DEF TypeOK, Requests, NoRequest
<1>3. RequestOwned
  BY <1>1 DEF RequestOwned
<1>4. LaidOut(pages)
  BY <1>1 DEF LaidOut
<1>5. LiveHeld(live, pages)
  BY <1>1 DEF LiveHeld
<1> QED
  BY <1>2, <1>3, <1>4, <1>5 DEF MemoryInvariant

(* A block in use stays in its page when the page list grows or a page     *)
(* keeps its place and its open block moves up.                            *)
LEMMA HeldStays ==
  ASSUME NEW l, NEW pgs, NEW new, LiveHeld(l, pgs),
         \A i \in 1 .. Len(pgs) : pgs[i].state = "ASSIGNED" =>
           /\ i \in 1 .. Len(new)
           /\ \A a \in l : HeldIn(a, pgs[i]) => HeldIn(a, new[i])
  PROVE  LiveHeld(l, new)
<1> SUFFICES ASSUME NEW a \in l
             PROVE  \E i \in 1 .. Len(new) : HeldIn(a, new[i])
  BY DEF LiveHeld
<1>1. PICK i \in 1 .. Len(pgs) : HeldIn(a, pgs[i])
  BY DEF LiveHeld
<1>2. pgs[i].state = "ASSIGNED"
  BY <1>1 DEF HeldIn
<1> QED
  BY <1>1, <1>2

(* The pages after an allocation: page i is carved, and of the others only *)
(* the header of the next may change, when the process does not survive.   *)
LEMMA CarvedPages ==
  ASSUME MemoryInvariant, NEW i \in 1 .. Len(pages), CarvedAt(i)
  PROVE  /\ pages' \in Seq(Pages) /\ Len(pages') = Len(pages)
         /\ pages'[i] = Carve(pages[i], request)
         /\ Carve(pages[i], request) \in Pages
         /\ \A j \in 1 .. Len(pages) :
              j # i => \/ pages'[j] = pages[j]
                       \/ /\ j = i + 1 /\ process' = "clobbered"
                          /\ pages'[j].blocks = pages[j].blocks
         /\ process' = "alive" =>
              pages' = [pages EXCEPT ![i] = Carve(pages[i], request)]
<1> DEFINE after == [pages EXCEPT ![i] = Carve(pages[i], request)]
<1>1. /\ pages \in Seq(Pages) /\ request \in Requests
      /\ pages[i] \in Pages /\ AssignedPage(pages[i])
      /\ Fitting(pages[i], request) # {}
      /\ pages' \in Carved(pages, i, pages[i], request)
      /\ process' = IF NearFit(pages[i], request) THEN "clobbered"
                                                  ELSE "alive"
  BY DEF MemoryInvariant, TypeOK, CarvedAt
<1>2. Carve(pages[i], request) \in Pages
  BY <1>1, CarveProperties
<1>3. /\ after \in Seq(Pages) /\ Len(after) = Len(pages)
      /\ \A j \in 1 .. Len(pages) :
           after[j] = IF j = i THEN Carve(pages[i], request) ELSE pages[j]
  BY <1>1, <1>2, ExceptSeq
<1>4. \/ pages' = after
      \/ process' = "clobbered" /\ pages' \in Overwritten(after, i)
  BY <1>1 DEF Carved
<1>5. CASE pages' = after
  BY <1>2, <1>3, <1>5
<1>6. ASSUME process' = "clobbered", pages' \in Overwritten(after, i),
             pages' # after
      PROVE  /\ pages' \in Seq(Pages) /\ Len(pages') = Len(pages)
             /\ pages'[i] = Carve(pages[i], request)
             /\ \A j \in 1 .. Len(pages) :
                  j # i => \/ pages'[j] = pages[j]
                           \/ j = i + 1 /\ pages'[j].blocks = pages[j].blocks
  <2> HIDE DEF after
  <2>1. i # Len(after)
    BY <1>6 DEF Overwritten
  <2>2. PICK o \in Owners \cup {Unknown}, st \in {"ASSIGNED", "UNASSIGNED"} :
          pages' = [after EXCEPT ![i + 1] = Reheaded(after[i + 1], o, st)]
    BY <1>6, <2>1 DEF Overwritten
  <2>3. i + 1 \in 1 .. Len(after) /\ i + 1 # i /\ i \in 1 .. Len(after)
    BY <1>3, <2>1, LenProperties
  <2>4. PICK pg \in Pages : pg = after[i + 1]
    BY <1>3, <2>3
  <2>5. PICK q : q = Reheaded(pg, o, st)
    OBVIOUS
  <2>6. q \in Pages /\ q.blocks = pg.blocks
    BY <2>5 DEF Pages, Reheaded
  <2>7. pages' = [after EXCEPT ![i + 1] = q]
    BY <2>2, <2>4, <2>5
  <2>8. /\ pages' \in Seq(Pages) /\ Len(pages') = Len(after)
        /\ \A j \in 1 .. Len(after) :
             pages'[j] = IF j = i + 1 THEN q ELSE after[j]
    BY <1>3, <2>3, <2>6, <2>7, ExceptSeq
  <2> QED
    BY <1>3, <2>3, <2>4, <2>6, <2>8
<1> HIDE DEF after
<1>7. process' = "alive" => pages' = after
  BY <1>4
<1> QED
  BY <1>2, <1>4, <1>5, <1>6, <1>7 DEF after

(* Where the block given out and the rest are.                             *)
LEMMA GivenProperties ==
  ASSUME MemoryInvariant, NEW i \in 1 .. Len(pages), CarvedAt(i)
  PROVE  /\ Given(pages[i], request)
              = [owner |-> pages[i].owner, size |-> request.size,
                 address |-> OpenBlock(pages[i]).address + BlockHeader]
         /\ Given(pages[i], request)
              \in [owner : Owners, address : Nat, size : Nat]
         /\ request.size \in Nat
         /\ OpenBlock(pages[i]).address \in Nat
         /\ OpenBlock(pages[i]).total_size \in Int
<1>1. request \in Requests /\ pages[i] \in Pages
  BY DEF MemoryInvariant, TypeOK, CarvedAt
<1>2. pages[i].blocks[First(pages[i], request)] = OpenBlock(pages[i])
  BY <1>1, OpenBlockIsCarved DEF OpenBlock, CarvedAt
<1>3. OpenBlock(pages[i]) \in Blocks
  BY <1>1, AssignedPageNumbers DEF CarvedAt
<1>4. /\ OpenBlock(pages[i]).address \in Nat
      /\ OpenBlock(pages[i]).total_size \in Int
      /\ OpenBlock(pages[i]).address + BlockHeader \in Nat
  BY <1>3, MemoryAssumption DEF Blocks
<1>5. request.size \in Nat
  BY <1>1 DEF Requests
<1>6. request.owner \in Owners
  BY DEF CarvedAt
<1>7. Given(pages[i], request)
        = [owner |-> pages[i].owner, size |-> request.size,
           address |-> OpenBlock(pages[i]).address + BlockHeader]
  BY <1>2 DEF Given, CarvedAt
<1>8. pages[i].owner \in Owners
  BY <1>6 DEF CarvedAt
<1> QED
  BY <1>4, <1>5, <1>7, <1>8

(* An allocation keeps the invariant: what it leaves alive has the block   *)
(* given out just below the page's new open block.                         *)
LEMMA CarvedKeepsInvariant ==
  ASSUME MemoryInvariant, process = "alive",
         NEW i \in 1 .. Len(pages), CarvedAt(i)
  PROVE  MemoryInvariant'
<1> DEFINE pg == pages[i]
           c == Carve(pages[i], request)
           g == Given(pages[i], request)
<1>1. /\ pages \in Seq(Pages) /\ request \in Requests /\ LaidOut(pages)
      /\ live \subseteq [owner : Owners, address : Nat, size : Nat]
      /\ LiveHeld(live, pages)
  BY DEF MemoryInvariant, TypeOK
<1>2. /\ pg \in Pages /\ pg.state = "ASSIGNED" /\ AssignedPage(pg)
      /\ live' = live \cup {g} /\ request' = NoRequest
      /\ Fitting(pg, request) # {}
      /\ process' = IF OpenBlock(pg).total_size
                         - (request.size + BlockHeader) < BlockHeader
                      THEN "clobbered" ELSE "alive"
  <2>1. pg \in Pages /\ AssignedPage(pg) /\ Fitting(pg, request) # {}
    BY DEF CarvedAt
  <2>2. pg.blocks[First(pg, request)] = OpenBlock(pg)
    BY <1>1, <2>1, OpenBlockIsCarved DEF OpenBlock
  <2> QED
    BY <2>1, <2>2 DEF CarvedAt, NearFit, Left
<1>3. /\ c \in Pages /\ c.state = pg.state /\ c.owner = pg.owner
      /\ c.start_address = pg.start_address
      /\ c.end_address = pg.end_address
  BY <1>1, <1>2, CarveProperties
<1>4. /\ pages' \in Seq(Pages) /\ Len(pages') = Len(pages)
      /\ pages'[i] = c
      /\ process' = "alive" => pages' = [pages EXCEPT ![i] = c]
      /\ process' = "alive" =>
           \A j \in 1 .. Len(pages) : j # i => pages'[j] = pages[j]
  BY CarvedPages
<1>5. /\ g = [owner |-> pg.owner, size |-> request.size,
              address |-> OpenBlock(pg).address + BlockHeader]
      /\ g \in [owner : Owners, address : Nat, size : Nat]
      /\ request.size \in Nat /\ OpenBlock(pg).address \in Nat
      /\ OpenBlock(pg).total_size \in Int
  BY GivenProperties
<1>6. request' \in Requests /\ RequestOwned'
  BY <1>2 DEF Requests, NoRequest, RequestOwned
<1>7. process' \in {"alive", "crashed", "overrun", "clobbered",
                      "exhausted"}
  BY <1>2
<1> HIDE DEF g, c
<1>8. TypeOK'
  BY <1>1, <1>2, <1>4, <1>5, <1>6, <1>7 DEF TypeOK
<1>9. ASSUME process' = "alive" PROVE LaidOut(pages') /\ LiveHeld(live', pages')
  <2>1. BlockHeader <= OpenBlock(pg).total_size
                         - (request.size + BlockHeader)
    <3>1. BlockHeader \in Nat
      BY MemoryAssumption
    <3> QED
      BY <3>1, <1>2, <1>5, <1>9
  <2>2. /\ AssignedPage(c)
        /\ OpenBlock(c).address
             = OpenBlock(pg).address + BlockHeader + request.size
    BY <1>1, <1>2, <2>1, CarveKeepsPage DEF c
  <2>3. LaidOut(pages')
    BY <1>1, <1>2, <1>3, <1>4, <1>9, <2>2, PageReplaced
  <2>4. LiveHeld(live, pages')
    <3>1. ASSUME NEW j \in 1 .. Len(pages), NEW a \in live,
                 HeldIn(a, pages[j])
          PROVE  HeldIn(a, pages'[j])
      <4>1. CASE j # i
        BY <4>1, <3>1, <1>4, <1>9
      <4>2. CASE j = i
        <5>1. /\ a.address \in Nat /\ a.size \in Nat
              /\ BlockHeader \in Nat
          BY <1>1, MemoryAssumption
        <5>2. a.address + a.size <= OpenBlock(c).address
          <6>1. a.address + a.size <= OpenBlock(pg).address
            BY <4>2, <3>1, Zenon DEF HeldIn
          <6>2. PICK x \in Nat, y \in Nat, z \in Nat :
                  /\ x = a.address + a.size /\ y = OpenBlock(pg).address
                  /\ z = request.size
            <7>1. /\ a.address + a.size \in Nat /\ request.size \in Nat
                  /\ OpenBlock(pg).address \in Nat
              BY <5>1, <1>5
            <7> QED
              BY <7>1, Zenon
          <6>3. x <= y /\ OpenBlock(c).address = y + BlockHeader + z
            BY <6>1, <6>2, <2>2
          <6>4. x <= y + BlockHeader + z
            BY <5>1, <6>3
          <6>5. x <= OpenBlock(c).address
            BY <6>3, <6>4
          <6>6. a.address + a.size = x
            BY <6>2
          <6> QED
            BY <6>5, <6>6
        <5> QED
          BY <5>2, <4>2, <3>1, <1>3, <1>4 DEF HeldIn
      <4> QED
        BY <4>1, <4>2
    <3> QED
      BY <1>1, <1>4, <3>1, HeldStays
  <2>5. HeldIn(g, c)
    <3>1. pg.start_address + PageHeader <= OpenBlock(pg).address
      BY <1>2, AssignedPageNumbers
    <3>2. /\ pg.start_address \in Nat /\ BlockHeader \in Nat
          /\ PageHeader \in Nat
      BY <1>2, MemoryAssumption DEF Pages
    <3>3. g.address = OpenBlock(pg).address + BlockHeader
      BY <1>5
    <3>4. pg.start_address + PageHeader + BlockHeader <= g.address
      BY <3>1, <3>2, <3>3, <1>5
    <3>5. g.address + g.size <= OpenBlock(c).address
      BY <3>2, <3>3, <2>2, <1>5
    <3>6. g.owner = c.owner
      BY <1>3, <1>5
    <3> QED
      BY <3>4, <3>5, <3>6, <1>2, <1>3 DEF HeldIn
  <2>6. pages'[i] = c /\ i \in 1 .. Len(pages')
    BY <1>4
  <2>7. LiveHeld(live', pages')
    BY <1>2, <2>4, <2>5, <2>6 DEF LiveHeld
  <2> QED
    BY <2>3, <2>7
<1> QED
  BY <1>6, <1>8, <1>9 DEF MemoryInvariant

LEMMA TakenKeepsInvariant ==
  ASSUME MemoryInvariant, process = "alive", UNCHANGED live,
         NEW garbage \in Garbage, LastTaken(garbage)
  PROVE  MemoryInvariant'
<1> DEFINE n == Len(pages)
<1>1. /\ pages \in Seq(Pages) /\ request \in Requests /\ LaidOut(pages)
      /\ live \subseteq [owner : Owners, address : Nat, size : Nat]
      /\ LiveHeld(live, pages)
  BY DEF MemoryInvariant, TypeOK
<1>2. /\ FreePages(pages) # {} /\ request.owner \in Owners
      /\ IsTaken(pages, n, garbage, request, pages')
      /\ request' = [request EXCEPT !.depth = @ + 1]
      /\ process' = IF /\ Size(pages[n]) # page_size
                       /\ Remainder(pages[n]).start_address
                            + PageHeader > MemSize
                      THEN "overrun" ELSE Recursed
  BY DEF LastTaken
<1>3. /\ n \in 1 .. n /\ pages[n] \in Pages /\ pages[n].state = "UNASSIGNED"
  BY <1>1, <1>2, LastPageIsTaken
<1>4. request' \in Requests /\ request'.owner = request.owner
  BY <1>1, <1>2 DEF Requests
<1>5. RequestOwned'
  BY <1>2, <1>4 DEF RequestOwned
<1>6. TypeOK'
  <2>1. pages' \in Seq(Pages)
    BY <1>2 DEF IsTaken
  <2>2. process' \in {"alive", "crashed", "overrun", "clobbered",
                      "exhausted"}
    BY <1>2 DEF Recursed
  <2> QED
    BY <1>1, <1>4, <2>1, <2>2 DEF TypeOK
<1>7. ASSUME process' = "alive" PROVE LaidOut(pages')
  <2>1. Size(pages[n]) # page_size =>
          Remainder(pages[n]).start_address + PageHeader <= MemSize
    <3>1. pages[n].start_address \in Nat /\ pages[n].end_address \in Nat
      BY <1>3 DEF Pages
    <3>2. pages[n].start_address + page_size \in Nat
      BY <3>1, MemoryAssumption
    <3>3. Remainder(pages[n]).start_address \in Nat
      BY <3>1, <3>2, UnassignedProperties DEF Remainder
    <3>4. ~(Size(pages[n]) # page_size
              /\ Remainder(pages[n]).start_address + PageHeader > MemSize)
      BY <1>2, <1>7
    <3> QED
      BY <3>3, <3>4, MemoryAssumption
  <2> QED
    BY <1>1, <1>2, <2>1, TakenIsLaidOut
<1>8. LiveHeld(live', pages')
  <2>1. ASSUME NEW j \in 1 .. Len(pages), pages[j].state = "ASSIGNED"
        PROVE  j \in 1 .. Len(pages') /\ pages'[j] = pages[j]
    <3>1. j # n
      BY <1>3, <2>1
    <3>2. n \in Nat /\ j \in 1 .. n - 1
      BY <1>3, <3>1
    <3>3. Len(pages') = n \/ Len(pages') = n + 1
      BY <1>2 DEF IsTaken
    <3>4. j \in 1 .. Len(pages')
      BY <3>2, <3>3
    <3> QED
      BY <3>2, <3>4, <1>2 DEF IsTaken
  <2> QED
    BY <1>1, <2>1, HeldStays
<1> QED
  BY <1>5, <1>6, <1>7, <1>8 DEF MemoryInvariant

LEMMA NoneTakenKeepsInvariant ==
  ASSUME MemoryInvariant, process = "alive", UNCHANGED live, NoneTaken
  PROVE  MemoryInvariant'
<1>1. /\ LaidOut(pages) /\ LiveHeld(live, pages) /\ request \in Requests
      /\ UNCHANGED <<pages, live>>
      /\ request' = [request EXCEPT !.depth = @ + 1]
      /\ request.owner \in Owners
      /\ process' \in {"alive", "crashed", "overrun", "clobbered",
                       "exhausted"}
  BY DEF NoneTaken, Recursed, MemoryInvariant, TypeOK
<1>2. request' \in Requests /\ request'.owner = request.owner
  BY <1>1 DEF Requests
<1>3. TypeOK'
  BY <1>1, <1>2 DEF MemoryInvariant, TypeOK
<1>4. RequestOwned'
  BY <1>1, <1>2 DEF RequestOwned
<1> QED
  BY <1>1, <1>3, <1>4 DEF MemoryInvariant

LEMMA NextMemory == MemoryInvariant /\ [Next]_vars => MemoryInvariant'
<1> SUFFICES ASSUME MemoryInvariant, [Next]_vars PROVE MemoryInvariant'
  OBVIOUS
<1>1. ASSUME NEW owner \in Owners, NEW size \in Nat, my_allocate(owner, size)
      PROVE  MemoryInvariant'
  <2>1. /\ request' = [owner |-> owner, size |-> size, depth |-> 0]
        /\ request' \in Requests
        /\ pages' \in Seq(Pages) /\ LaidOut(pages')
        /\ pages # <<>> => pages' = pages
        /\ process = "alive" /\ UNCHANGED <<live, process>>
    BY <1>1, MyAllocateStep, Zenon
  <2>2. TypeOK'
    BY <2>1 DEF TypeOK, MemoryInvariant
  <2>3. RequestOwned'
    BY <1>1, <2>1 DEF RequestOwned
  <2>4. LiveHeld(live', pages')
    BY <2>1 DEF LiveHeld, MemoryInvariant
  <2> QED
    BY <2>1, <2>2, <2>3, <2>4 DEF MemoryInvariant
<1>2. ASSUME AllocateBlock PROVE MemoryInvariant'
  <2>1. CASE process' = "crashed" /\ UNCHANGED <<pages, request, live>>
    BY <2>1 DEF MemoryInvariant, TypeOK, RequestOwned
  <2>2. ASSUME NEW i \in 1 .. Len(pages), CarvedAt(i) PROVE MemoryInvariant'
    <3>1. process = "alive"
      BY <1>2 DEF AllocateBlock
    <3> QED
      BY <2>2, <3>1, CarvedKeepsInvariant
  <2> QED
    BY <1>2, <2>1, <2>2, AllocateBlockStep
<1>3. ASSUME AssignPage PROVE MemoryInvariant'
  <2>1. /\ UNCHANGED live
        /\ NoneTaken \/ \E garbage \in Garbage : LastTaken(garbage)
    BY <1>3, AssignPageStep
  <2>2. CASE NoneTaken
    <3>1. process = "alive"
      BY <1>3 DEF AssignPage
    <3> QED
      BY <2>1, <2>2, <3>1, NoneTakenKeepsInvariant
  <2>3. ASSUME NEW garbage \in Garbage, LastTaken(garbage)
        PROVE  MemoryInvariant'
    <3>1. process = "alive"
      BY <1>3 DEF AssignPage
    <3> QED
      BY <2>1, <2>3, <3>1, TakenKeepsInvariant
  <2> QED
    BY <2>1, <2>2, <2>3
<1>4. CASE UNCHANGED vars
  BY <1>4 DEF vars, MemoryInvariant, TypeOK, RequestOwned
<1>5. /\ LibrarySizes \subseteq Nat /\ ThreadSizes \subseteq Nat
      /\ Library \in Owners /\ Tids \subseteq Owners
  BY MemoryAssumption DEF Owners
<1> QED
  BY <1>1, <1>2, <1>3, <1>4, <1>5 DEF Next

LEMMA SpecMemory == Spec => []MemoryInvariant
BY InitMemory, NextMemory, PTL DEF Spec

-----------------------------------------------------------------------------
(* The theorems.                                                           *)

(* The allocator of memory_manager.c never leaves its types: in particular *)
(* no address it computes is negative, also by the request that reaches    *)
(* out of its page.                                                        *)
THEOREM MemoryTypeCorrect == Spec => []TypeOK
<1>1. MemoryInvariant => TypeOK
  BY DEF MemoryInvariant
<1> QED
  BY <1>1, SpecMemory, PTL

(* The page list built by init_memory_metadata and assign_page             *)
(* (memory_manager.c:99-241) always covers PHYSICAL_MEMORY behind the      *)
(* metadata, whatever its size and that of a page.                         *)
THEOREM PagesTileHolds == Spec => []PagesTile
<1>1. MemoryInvariant => PagesTile
  <2> SUFFICES ASSUME MemoryInvariant, process = "alive", pages # <<>>
               PROVE  /\ pages[1].start_address = MetaSize
                      /\ pages[Len(pages)].end_address = MemSize - 1
                      /\ \A i \in 1 .. Len(pages) - 1 :
                           /\ pages[i + 1].start_address
                                = pages[i].end_address + 1
                           /\ pages[i].state = "ASSIGNED"
    BY DEF PagesTile
  <2>1. pages \in Seq(Pages) /\ LaidOut(pages)
    BY DEF MemoryInvariant, TypeOK
  <2>2. Len(pages) \in Nat /\ Len(pages) > 0
    BY <2>1, EmptySeq, LenProperties
  <2>3. pages[1].start_address = MetaSize
    <3>1. PageStart(1) = MetaSize
      <4>1. 0 * page_size = 0 /\ 1 - 1 = 0
        BY MemoryAssumption
      <4> QED
        BY <4>1, MemoryAssumption DEF PageStart
    <3>2. 1 \in 1 .. Len(pages)
      BY <2>2
    <3> QED
      BY <2>1, <3>1, <3>2 DEF LaidOut
  <2>4. pages[Len(pages)].end_address = MemSize - 1
    BY <2>1 DEF LaidOut
  <2>5. ASSUME NEW i \in 1 .. Len(pages) - 1
        PROVE  /\ pages[i + 1].start_address = pages[i].end_address + 1
               /\ pages[i].state = "ASSIGNED"
    <3>1. i \in 1 .. Len(pages) /\ i + 1 \in 1 .. Len(pages) /\ i < i + 1
      BY <2>2
    <3>2. /\ pages[i].state = "ASSIGNED"
          /\ pages[i].end_address + 1 = PageStart(i + 1)
      BY <2>1, <3>1, PagesApart
    <3>3. pages[i + 1].start_address = PageStart(i + 1)
      BY <2>1, <3>1 DEF LaidOut
    <3> QED
      BY <3>2, <3>3
  <2> QED
    BY <2>3, <2>4, <2>5
<1> QED
  BY <1>1, SpecMemory, PTL

(* The blocks allocate_block (memory_manager.c:243-319) cuts out of a page *)
(* always tile it, and its counter of allocated bytes agrees with them.    *)
THEOREM BlocksTileHolds == Spec => []BlocksTile
<1>1. MemoryInvariant => BlocksTile
  BY DEF MemoryInvariant, BlocksTile, LaidOut, AssignedPage
<1> QED
  BY <1>1, SpecMemory, PTL

(* What my_allocate hands out lies in a page of whoever asked: behind its  *)
(* header and before its end.                                              *)
THEOREM LiveInOwnPageHolds == Spec => []LiveInOwnPage
<1>1. MemoryInvariant => LiveInOwnPage
  <2> SUFFICES ASSUME MemoryInvariant, process = "alive", NEW a \in live
               PROVE  \E i \in 1 .. Len(pages) :
                        /\ pages[i].owner = a.owner
                        /\ pages[i].start_address + PageHeader + BlockHeader
                             <= a.address
                        /\ a.address + a.size <= pages[i].end_address + 1
    BY DEF LiveInOwnPage, InOwnPages
  <2>1. /\ pages \in Seq(Pages) /\ LaidOut(pages) /\ LiveHeld(live, pages)
        /\ a \in [owner : Owners, address : Nat, size : Nat]
    BY DEF MemoryInvariant, TypeOK
  <2>2. PICK i \in 1 .. Len(pages) : HeldIn(a, pages[i])
    BY <2>1 DEF LiveHeld
  <2>3. pages[i] \in Pages /\ AssignedPage(pages[i])
    BY <2>1, <2>2 DEF LaidOut, HeldIn
  <2>4. /\ OpenBlock(pages[i]) \in Blocks
        /\ OpenBlock(pages[i]).address + BlockHeader
             <= pages[i].end_address + 1
    BY <2>3, AssignedPageNumbers
  <2>5. /\ OpenBlock(pages[i]).address \in Nat
        /\ pages[i].end_address \in Nat /\ BlockHeader \in Nat
        /\ a.address \in Nat /\ a.size \in Nat
    BY <2>1, <2>3, <2>4, MemoryAssumption DEF Blocks, Pages
  <2>6. a.address + a.size <= OpenBlock(pages[i]).address
    BY <2>2 DEF HeldIn
  <2>7. a.address + a.size <= pages[i].end_address + 1
    BY <2>4, <2>5, <2>6
  <2> QED
    BY <2>2, <2>7 DEF HeldIn
<1> QED
  BY <1>1, SpecMemory, PTL

(* A page assign_page has given away (memory_manager.c:99-205) keeps its   *)
(* place and its owner, unless allocate_block (252-306) carves a block out *)
(* of the page before it and leaves no room there for the header behind.   *)
THEOREM PagesStayAssignedHolds == Spec => PagesStayAssigned
<1> DEFINE Stays ==
      \A i \in 1 .. Len(pages) :
        pages[i].state = "ASSIGNED" =>
          \/ /\ pages'[i].state = "ASSIGNED"
             /\ pages'[i].owner = pages[i].owner
             /\ pages'[i].start_address = pages[i].start_address
             /\ pages'[i].end_address = pages[i].end_address
          \/ /\ i > 1 /\ process' = "clobbered"
             /\ pages'[i - 1].blocks # pages[i - 1].blocks
<1>1. MemoryInvariant /\ [Next]_vars => [Stays]_vars
  <2> SUFFICES ASSUME MemoryInvariant, Next PROVE Stays
    OBVIOUS
  <2>1. ASSUME pages' = pages PROVE Stays
    BY <2>1
  <2>2. ASSUME NEW owner \in Owners, NEW size \in Nat,
               my_allocate(owner, size)
        PROVE  Stays
    <3>1. CASE pages = <<>>
      BY <3>1
    <3>2. CASE pages # <<>>
      BY <2>1, <2>2, <3>2 DEF my_allocate
    <3> QED
      BY <3>1, <3>2
  <2>3. ASSUME NEW i \in 1 .. Len(pages), CarvedAt(i) PROVE Stays
    <3>1. /\ pages \in Seq(Pages) /\ request \in Requests
          /\ pages[i] \in Pages /\ AssignedPage(pages[i])
          /\ Fitting(pages[i], request) # {}
      BY <2>3 DEF CarvedAt, MemoryInvariant, TypeOK
    <3>2. /\ Carve(pages[i], request).state = pages[i].state
          /\ Carve(pages[i], request).owner = pages[i].owner
          /\ Carve(pages[i], request).start_address = pages[i].start_address
          /\ Carve(pages[i], request).end_address = pages[i].end_address
      BY <3>1, CarveProperties
    <3>3. Carve(pages[i], request).blocks # pages[i].blocks
      <4>1. PICK n \in Nat : n = Len(pages[i].blocks)
        BY <3>1, LenProperties DEF Pages
      <4>2. Carve(pages[i], request).blocks[n].state = "ALLOCATED"
        <5>1. Carve(pages[i], request).blocks[n]
                = Allocated(OpenBlock(pages[i]), request)
          BY <3>1, <4>1, CarveProperties
        <5> QED
          BY <5>1 DEF Allocated
      <4>3. pages[i].blocks[n].state = "UNALLOCATED"
        BY <3>1, <4>1 DEF AssignedPage, BlocksTilePage
      <4> QED
        BY <4>2, <4>3
    <3>4. /\ pages'[i] = Carve(pages[i], request)
          /\ \A j \in 1 .. Len(pages) :
               j # i => \/ pages'[j] = pages[j]
                        \/ j = i + 1 /\ process' = "clobbered"
      BY <2>3, CarvedPages
    <3>5. i > 0 /\ (i + 1) - 1 = i /\ i + 1 > 1
      BY <3>1, LenProperties
    <3>6. ASSUME NEW j \in 1 .. Len(pages), j = i + 1,
                 process' = "clobbered"
          PROVE  /\ j > 1 /\ process' = "clobbered"
                 /\ pages'[j - 1].blocks # pages[j - 1].blocks
      BY <3>3, <3>4, <3>5, <3>6
    <3> QED
      BY <3>2, <3>4, <3>6
  <2>4. ASSUME process = "alive", NEW garbage \in Garbage, LastTaken(garbage)
        PROVE  Stays
    <3>1. /\ pages \in Seq(Pages) /\ LaidOut(pages)
          /\ FreePages(pages) # {}
          /\ IsTaken(pages, Len(pages), garbage, request, pages')
      BY <2>4 DEF LastTaken, MemoryInvariant, TypeOK
    <3>2. /\ Len(pages) \in 1 .. Len(pages)
          /\ pages[Len(pages)].state = "UNASSIGNED"
      BY <3>1, LastPageIsTaken
    <3>3. \A i \in 1 .. Len(pages) : pages[i].state = "ASSIGNED" =>
            i \in 1 .. Len(pages) - 1
      BY <3>2
    <3> QED
      BY <3>1, <3>3 DEF IsTaken
  <2>5. CASE AllocateBlock
    <3> HIDE DEF Stays
    <3> QED
      BY <2>1, <2>3, <2>5, AllocateBlockStep
  <2>6. CASE AssignPage
    <3>1. process = "alive"
      BY <2>6 DEF AssignPage
    <3> HIDE DEF Stays
    <3> QED
      BY <2>1, <2>4, <2>6, <3>1, AssignPageStep DEF NoneTaken
  <2>7. /\ LibrarySizes \subseteq Nat /\ ThreadSizes \subseteq Nat
        /\ Library \in Owners /\ Tids \subseteq Owners
    BY MemoryAssumption DEF Owners
  <2> HIDE DEF Stays
  <2> QED
    BY <2>2, <2>5, <2>6, <2>7 DEF Next
<1>2. Spec => [][Stays]_vars
  <2> HIDE DEF Stays
  <2> QED
    BY <1>1, SpecMemory, PTL DEF Spec
<1> QED
  BY <1>2 DEF PagesStayAssigned

(* assign_page writes the header of what remains (memory_manager.c:99-205) *)
(* beyond the end of PHYSICAL_MEMORY only when the pages in use leave no   *)
(* room for one more and that header.                                      *)
THEOREM OverrunOnlyWhenFullHolds == Spec => []OverrunOnlyWhenFull
<1>1. Init => OverrunOnlyWhenFull
  BY DEF Init, OverrunOnlyWhenFull
<1>2. MemoryInvariant /\ OverrunOnlyWhenFull /\ [Next]_vars
      => OverrunOnlyWhenFull'
  <2> SUFFICES ASSUME MemoryInvariant, OverrunOnlyWhenFull, [Next]_vars,
                      process' = "overrun"
               PROVE  MetaSize + PageHeader
                        + page_size * Cardinality(
                            {i \in 1 .. Len(pages') :
                               pages'[i].state = "ASSIGNED"}) > MemSize
    BY DEF OverrunOnlyWhenFull
  <2>1. CASE UNCHANGED vars
    BY <2>1 DEF vars, OverrunOnlyWhenFull
  <2>2. ASSUME NEW owner \in Owners, NEW size \in Nat,
               my_allocate(owner, size)
        PROVE  FALSE
    BY <2>2 DEF my_allocate
  <2>3. CASE AllocateBlock
    BY <2>3, AllocateBlockStep DEF CarvedAt
  <2>4. CASE AssignPage
    <3>1. PICK garbage \in Garbage : LastTaken(garbage)
      BY <2>4, AssignPageStep DEF NoneTaken, Recursed
    <3>2. PICK n \in Nat : n = Len(pages)
      BY LenProperties DEF MemoryInvariant, TypeOK
    <3>3. /\ pages \in Seq(Pages) /\ request \in Requests /\ LaidOut(pages)
          /\ FreePages(pages) # {}
          /\ IsTaken(pages, n, garbage, request, pages')
          /\ Size(pages[n]) # page_size
          /\ Remainder(pages[n]).start_address + PageHeader > MemSize
      BY <2>4, <3>1, <3>2
         DEF AssignPage, LastTaken, Recursed, MemoryInvariant, TypeOK
    <3>4. /\ n \in 1 .. n /\ pages[n] \in Pages
          /\ pages[n].start_address = PageStart(n)
      BY <3>2, <3>3, LastPageIsTaken
    <3>5. /\ PageStart(n) \in Nat
          /\ PageStart(n) + page_size = MetaSize + page_size * n
      <4>1. n \in Nat \ {0}
        BY <3>4
      <4> QED
        BY <4>1, PageStartProperties
    <3>6. /\ Remainder(pages[n]).state = "UNASSIGNED"
          /\ Remainder(pages[n]).start_address = PageStart(n) + page_size
      <4>1. pages[n].end_address \in Nat /\ PageStart(n) + page_size \in Nat
        BY <3>4, <3>5, MemoryAssumption DEF Pages
      <4> QED
        BY <4>1, <3>4, UnassignedProperties DEF Remainder
    <3>7. /\ Len(pages') = n + 1
          /\ \A j \in 1 .. n - 1 : pages'[j] = pages[j]
          /\ pages'[n] = Assigned(pages[n], garbage, request)
          /\ pages'[n + 1] = Remainder(pages[n])
      BY <3>3 DEF IsTaken
    <3>8. pages'[n].state = "ASSIGNED"
      BY <3>7 DEF Assigned
    <3>9. \A j \in 1 .. n - 1 : pages'[j].state = "ASSIGNED"
      <4> TAKE j \in 1 .. n - 1
      <4>1. j \in 1 .. Len(pages) /\ n \in 1 .. Len(pages) /\ j < n
        BY <3>2, <3>4
      <4> QED
        BY <4>1, <3>3, <3>7, PagesApart
    <3>10. {i \in 1 .. Len(pages') : pages'[i].state = "ASSIGNED"} = 1 .. n
      <4>1. \A i \in 1 .. Len(pages') : i \in 1 .. n - 1 \/ i = n \/ i = n + 1
        BY <3>7
      <4>2. \A i \in 1 .. n : i \in 1 .. n - 1 \/ i = n
        OBVIOUS
      <4>3. 1 .. n \subseteq 1 .. Len(pages') /\ n + 1 \notin 1 .. n
        BY <3>7
      <4> QED
        BY <4>1, <4>2, <4>3, <3>6, <3>7, <3>8, <3>9
    <3>11. Cardinality(1 .. n) = n
      <4>1. Cardinality(1 .. n) = IF 1 > n THEN 0 ELSE n - 1 + 1
        BY FS_Interval
      <4> QED
        BY <4>1, <3>4
    <3>12. MetaSize + page_size * n + PageHeader > MemSize
      BY <3>3, <3>5, <3>6
    <3>13. MetaSize + PageHeader + page_size * n > MemSize
      <4>1. page_size * n \in Int /\ MetaSize \in Nat /\ PageHeader \in Nat
        BY MemoryAssumption
      <4> QED
        BY <4>1, <3>12
    <3> QED
      BY <3>10, <3>11, <3>13
  <2>5. /\ LibrarySizes \subseteq Nat /\ ThreadSizes \subseteq Nat
        /\ Library \in Owners /\ Tids \subseteq Owners
    BY MemoryAssumption DEF Owners
  <2> QED
    BY <2>1, <2>2, <2>3, <2>4, <2>5 DEF Next
<1> QED
  BY <1>1, <1>2, SpecMemory, PTL DEF Spec

(* As long as there is a page to assign, the depth of the recursion counts *)
(* pages that are in use.                                                  *)
DepthReached ==
  (process = "alive" /\ FreePages(pages) # {}) =>
    \/ request.depth = 0
    \/ /\ request.depth \in 1 .. Len(pages)
       /\ pages[request.depth].state = "ASSIGNED"

(* A request that fits an empty page with all headers finds its block once *)
(* a page was assigned for it.                                             *)
ModestServed ==
  (/\ process = "alive" /\ request # NoRequest /\ FreePages(pages) # {}
   /\ Modest(request.size) /\ request.depth > 0) =>
    Stops(pages, request) # {}

LEMMA InitRecursion == Init => DepthReached /\ ModestServed
BY DEF Init, DepthReached, ModestServed, NoRequest

LEMMA NextDepth ==
  MemoryInvariant /\ DepthReached /\ [Next]_vars => DepthReached'
<1> SUFFICES ASSUME MemoryInvariant, DepthReached, [Next]_vars
             PROVE  DepthReached'
  OBVIOUS
<1>1. CASE UNCHANGED vars
  BY <1>1 DEF vars, DepthReached
<1>2. ASSUME NEW owner \in Owners, NEW size \in Nat, my_allocate(owner, size)
      PROVE  DepthReached'
  BY <1>2 DEF my_allocate, DepthReached
<1>3. CASE AllocateBlock
  <2>1. CASE process' = "crashed"
    BY <2>1 DEF DepthReached
  <2>2. CASE request' = NoRequest
    BY <2>2 DEF DepthReached, NoRequest
  <2> QED
    BY <1>3, <2>1, <2>2, AllocateBlockStep DEF CarvedAt
<1>4. CASE AssignPage
  <2>1. CASE NoneTaken
    BY <2>1 DEF DepthReached, NoneTaken
  <2>2. ASSUME NEW garbage \in Garbage, LastTaken(garbage)
        PROVE  DepthReached'
    <3>1. PICK n \in Nat : n = Len(pages)
      BY LenProperties DEF MemoryInvariant, TypeOK
    <3>2. PICK d \in Nat : d = request.depth
      BY DEF MemoryInvariant, TypeOK, Requests
    <3>3. /\ pages \in Seq(Pages) /\ LaidOut(pages) /\ process = "alive"
          /\ FreePages(pages) # {}
          /\ IsTaken(pages, n, garbage, request, pages')
          /\ request' = [request EXCEPT !.depth = @ + 1]
          /\ request \in Requests
      BY <1>4, <2>2, <3>1 DEF AssignPage, LastTaken, MemoryInvariant, TypeOK
    <3>4. n \in 1 .. n /\ pages[n].state = "UNASSIGNED"
      BY <3>1, <3>3, LastPageIsTaken
    <3>5. request'.depth = d + 1
      BY <3>2, <3>3 DEF Requests
    <3>6. /\ Len(pages') = n \/ Len(pages') = n + 1
          /\ \A j \in 1 .. n - 1 : pages'[j] = pages[j]
          /\ pages'[n].state = "ASSIGNED"
      BY <3>3 DEF IsTaken, Assigned
    <3>7. d + 1 \in 1 .. n
      BY <3>1, <3>2, <3>3, <3>4 DEF DepthReached
    <3>8. pages'[d + 1].state = "ASSIGNED"
      <4>1. CASE d + 1 = n
        BY <4>1, <3>6
      <4>2. CASE d + 1 # n
        <5>1. /\ d + 1 \in 1 .. n - 1 /\ d + 1 \in 1 .. Len(pages)
              /\ n \in 1 .. Len(pages) /\ d + 1 < n
          BY <4>2, <3>1, <3>7
        <5>2. pages[d + 1].state = "ASSIGNED"
          BY <5>1, <3>3, PagesApart
        <5> QED
          BY <5>1, <5>2, <3>6
      <4> QED
        BY <4>1, <4>2
    <3>9. d + 1 \in 1 .. Len(pages')
      BY <3>6, <3>7
    <3> QED
      BY <3>5, <3>8, <3>9 DEF DepthReached
  <2> QED
    BY <1>4, <2>1, <2>2, AssignPageStep
<1>5. /\ LibrarySizes \subseteq Nat /\ ThreadSizes \subseteq Nat
      /\ Library \in Owners /\ Tids \subseteq Owners
  BY MemoryAssumption DEF Owners
<1> QED
  BY <1>1, <1>2, <1>3, <1>4, <1>5 DEF Next

LEMMA NextServed ==
  MemoryInvariant /\ ModestServed /\ [Next]_vars => ModestServed'
<1> SUFFICES ASSUME MemoryInvariant, ModestServed, [Next]_vars
             PROVE  ModestServed'
  OBVIOUS
<1>1. CASE UNCHANGED vars
  BY <1>1 DEF vars, ModestServed
<1>2. ASSUME NEW owner \in Owners, NEW size \in Nat, my_allocate(owner, size)
      PROVE  ModestServed'
  BY <1>2 DEF my_allocate, ModestServed
<1>3. CASE AllocateBlock
  BY <1>3, AllocateBlockStep DEF CarvedAt, ModestServed
<1>4. CASE AssignPage
  <2>1. CASE NoneTaken
    BY <2>1 DEF ModestServed, NoneTaken
  <2>2. ASSUME NEW garbage \in Garbage, LastTaken(garbage)
        PROVE  ModestServed'
    <3>1. PICK n \in Nat : n = Len(pages)
      BY LenProperties DEF MemoryInvariant, TypeOK
    <3>2. /\ pages \in Seq(Pages) /\ LaidOut(pages) /\ process = "alive"
          /\ FreePages(pages) # {} /\ request \in Requests
          /\ IsTaken(pages, n, garbage, request, pages')
          /\ request' = [request EXCEPT !.depth = @ + 1]
      BY <1>4, <2>2, <3>1 DEF AssignPage, LastTaken, MemoryInvariant, TypeOK
    <3>3. n \in 1 .. n /\ pages[n] \in Pages
      BY <3>1, <3>2, LastPageIsTaken
    <3>4. PICK a : a = Assigned(pages[n], garbage, request)
      OBVIOUS
    <3>5. /\ a.owner = request.owner /\ a.size_of_allocated = PageHeader
          /\ Len(a.blocks) = 1
          /\ a.blocks[1].state = "UNALLOCATED"
          /\ a.blocks[1].total_size = page_size - PageHeader
      <4>1. /\ Assigned(pages[n], garbage, request).blocks[1]
                 = [state |-> "UNALLOCATED",
                    address |-> pages[n].start_address + PageHeader,
                    data_size |-> 0, total_size |-> page_size - PageHeader]
            /\ Len(Assigned(pages[n], garbage, request).blocks) = 1
        BY <3>2, <3>3, NewPageProperties
      <4>2. a.owner = request.owner /\ a.size_of_allocated = PageHeader
        BY <3>4 DEF Assigned
      <4> QED
        BY <4>1, <4>2, <3>4
    <3>6. request'.owner = request.owner /\ request'.size = request.size
      BY <3>2 DEF Requests
    <3>7. /\ request.size \in Nat /\ PageHeader \in Nat
          /\ BlockHeader \in Nat \ {0} /\ page_size \in Nat
          /\ PageHeader + BlockHeader <= page_size
      BY <3>2, MemoryAssumption DEF Requests
    <3>8. ASSUME Modest(request.size) PROVE n \in Stops(pages', request')
      <4>1. request.size + 2 * BlockHeader <= page_size - PageHeader
        BY <3>8 DEF Modest
      <4>2. ~Full(a, request')
        BY <4>1, <3>5, <3>6, <3>7 DEF Full
      <4>3. Fits(a.blocks[1], request')
        BY <4>1, <3>5, <3>6, <3>7 DEF Fits
      <4>4. Fitting(a, request') # {}
        <5>1. 1 \in 1 .. Len(a.blocks)
          BY <3>5
        <5> QED
          BY <5>1, <4>3 DEF Fitting
      <4>5. Searched(a, request')
        BY <4>2, <3>5, <3>6 DEF Searched
      <4>6. n \in 1 .. Len(pages') /\ pages'[n] = a
        BY <3>2, <3>3, <3>4 DEF IsTaken
      <4> QED
        BY <4>4, <4>5, <4>6 DEF Stops
    <3> QED
      BY <3>6, <3>8 DEF ModestServed
  <2> QED
    BY <1>4, <2>1, <2>2, AssignPageStep
<1>5. /\ LibrarySizes \subseteq Nat /\ ThreadSizes \subseteq Nat
      /\ Library \in Owners /\ Tids \subseteq Owners
  BY MemoryAssumption DEF Owners
<1> QED
  BY <1>1, <1>2, <1>3, <1>4, <1>5 DEF Next

LEMMA RecursionHolds == Spec => [](DepthReached /\ ModestServed)
BY InitRecursion, NextDepth, NextServed, SpecMemory, PTL DEF Spec

(* How deep a request may be, while c pages make up all of memory.         *)
Shallow(c) ==
  FreePages(pages) # {} =>
    /\ request.depth <= c
    /\ Modest(request.size) => request.depth <= 1

(* A page is still there to be assigned: the depth so far counts others,   *)
(* and a modest request has not had one yet.                               *)
LEMMA DepthLeft ==
  ASSUME MemoryInvariant, DepthReached, ModestServed, AssignPage,
         FreePages(pages) # {},
         NEW c \in Nat, MemSize = c * page_size
  PROVE  /\ request.depth + 1 <= c
         /\ Modest(request.size) => request.depth = 0
<1>1. PICK n \in Nat : n = Len(pages)
  BY LenProperties DEF MemoryInvariant, TypeOK
<1>2. PICK d \in Nat : d = request.depth
  BY DEF MemoryInvariant, TypeOK, Requests
<1>3. /\ pages \in Seq(Pages) /\ LaidOut(pages) /\ process = "alive"
      /\ Stops(pages, request) = {} /\ request # NoRequest
  BY DEF AssignPage, MemoryInvariant, TypeOK
<1>4. /\ n \in 1 .. n /\ pages[n].state = "UNASSIGNED"
      /\ pages[n].start_address = PageStart(n)
      /\ UnassignedPage(pages[n])
  BY <1>1, <1>3, LastPageIsTaken
<1>5. Modest(request.size) => d = 0
  BY <1>2, <1>3 DEF ModestServed
<1>6. d + 1 <= n
  BY <1>1, <1>2, <1>3, <1>4 DEF DepthReached
<1>7. n <= c
  <2>1. MetaSize + (n - 1) * page_size + PageHeader <= c * page_size
    BY <1>4 DEF UnassignedPage, PageStart
  <2>2. (n - 1) * page_size < c * page_size
    <3>1. (n - 1) * page_size \in Int /\ c * page_size \in Int
      BY <1>4, MemoryAssumption
    <3> QED
      BY <2>1, <3>1, MemoryAssumption
  <2>3. ASSUME n > c PROVE FALSE
    <3>1. PICK e \in Nat : n - 1 = c + e
      BY <1>4, <2>3
    <3>2. (n - 1) * page_size = c * page_size + e * page_size
      BY <3>1, MemoryAssumption
    <3>3. e * page_size \in Nat /\ c * page_size \in Nat
      BY MemoryAssumption
    <3> QED
      BY <2>2, <3>2, <3>3
  <2> QED
    BY <2>3
<1> QED
  BY <1>2, <1>5, <1>6, <1>7

(* While a page is left to assign, my_allocate calls itself                *)
(* (memory_manager.c:321-371) at most once for a request that fits an      *)
(* empty page with all headers, and for any other no more often than       *)
(* memory has pages; so the recursion exhausts the stack only in such      *)
(* another request or with no page left.  As the C code has it, memory is  *)
(* a whole number of pages, one of which the metadata makes incomplete.    *)
THEOREM RecursionBoundedHolds ==
  ASSUME MemSize % page_size = 0
  PROVE  Spec => []RecursionBounded
<1> DEFINE Exhausted ==
      process = "exhausted" =>
        ~Modest(request.size) \/ FreePages(pages) = {}
<1>1. PICK c \in Nat : c = MemSize \div page_size /\ MemSize = c * page_size
  <2>1. /\ MemSize \in Nat /\ page_size \in Nat /\ page_size > 0
    BY MemoryAssumption
  <2> QED
    BY <2>1
<1>2. Init => Shallow(c) /\ Exhausted
  BY DEF Init, NoRequest, Shallow
<1>3. MemoryInvariant /\ DepthReached /\ ModestServed /\ Shallow(c)
      /\ Exhausted /\ [Next]_vars => Shallow(c)' /\ Exhausted'
  <2> SUFFICES ASSUME MemoryInvariant, DepthReached, ModestServed,
                      Shallow(c), Exhausted, [Next]_vars
               PROVE  Shallow(c)' /\ Exhausted'
    OBVIOUS
  <2>1. ASSUME UNCHANGED <<pages, request>>,
               process' = process \/ process' # "exhausted"
        PROVE  Shallow(c)' /\ Exhausted'
    BY <2>1 DEF Shallow
  <2>2. ASSUME request'.depth = 0, process' # "exhausted"
        PROVE  Shallow(c)' /\ Exhausted'
    BY <2>2 DEF Shallow
  <2>3. ASSUME NEW owner \in Owners, NEW size \in Nat,
               my_allocate(owner, size)
        PROVE  Shallow(c)' /\ Exhausted'
    BY <2>2, <2>3 DEF my_allocate
  <2>4. CASE AllocateBlock
    <3>1. /\ UNCHANGED <<pages, request>> \/ request' = NoRequest
          /\ process' # "exhausted"
      BY <2>4, AllocateBlockStep DEF CarvedAt
    <3>2. request' = NoRequest => request'.depth = 0
      BY DEF NoRequest
    <3> HIDE DEF Exhausted
    <3> QED
      BY <2>1, <2>2, <3>1, <3>2
  <2>5. CASE AssignPage
    <3>1. PICK d \in Nat : d = request.depth
      BY DEF MemoryInvariant, TypeOK, Requests
    <3>2. /\ request'.depth = d + 1 /\ request'.size = request.size
      BY <2>5, <3>1 DEF AssignPage, MemoryInvariant, TypeOK, Requests
    <3>3. /\ FreePages(pages') # {} => FreePages(pages) # {}
          /\ process' = "exhausted" =>
               /\ Recursed = "exhausted"
               /\ FreePages(pages) = {} => FreePages(pages') = {}
      BY <2>5, AssignPageStep DEF LastTaken, NoneTaken
    <3>4. FreePages(pages) # {} =>
            d + 1 <= c /\ (Modest(request.size) => d = 0)
      BY <1>1, <2>5, <3>1, DepthLeft
    <3>5. Shallow(c)'
      BY <3>2, <3>3, <3>4 DEF Shallow
    <3>6. Recursed = "exhausted" => d > 1
      BY <3>1, StackAssumption DEF Recursed
    <3>7. Exhausted'
      BY <3>2, <3>3, <3>4, <3>6
    <3> QED
      BY <3>5, <3>7
  <2>6. CASE UNCHANGED vars
    BY <2>1, <2>6 DEF vars
  <2>7. /\ LibrarySizes \subseteq Nat /\ ThreadSizes \subseteq Nat
        /\ Library \in Owners /\ Tids \subseteq Owners
    BY MemoryAssumption DEF Owners
  <2> HIDE DEF Exhausted
  <2> QED
    BY <2>3, <2>4, <2>5, <2>6, <2>7 DEF Next
<1>4. Shallow(c) /\ Exhausted => RecursionBounded
  BY <1>1 DEF RecursionBounded, Shallow
<1> HIDE DEF Exhausted
<1> QED
  BY <1>2, <1>3, <1>4, SpecMemory, RecursionHolds, PTL DEF Spec

(* A block in use and a block header at address h do not overlap.          *)
Clear(a, h) == a.address + a.size <= h \/ h + BlockHeader <= a.address

(* Where a block in use is, seen from page i: below its open block, or     *)
(* behind the headers of a later page.                                     *)
LEMMA HeldAround ==
  ASSUME MemoryInvariant, process = "alive", NEW a \in live,
         NEW i \in 1 .. Len(pages), AssignedPage(pages[i])
  PROVE  \/ a.address + a.size <= OpenBlock(pages[i]).address
         \/ pages[i].end_address + 1 + PageHeader + BlockHeader <= a.address
<1>1. /\ pages \in Seq(Pages) /\ LaidOut(pages) /\ LiveHeld(live, pages)
      /\ a \in [owner : Owners, address : Nat, size : Nat]
  BY DEF MemoryInvariant, TypeOK
<1>2. PICK k \in 1 .. Len(pages) : HeldIn(a, pages[k])
  BY <1>1 DEF LiveHeld
<1>3. pages[k] \in Pages /\ pages[i] \in Pages /\ AssignedPage(pages[k])
  BY <1>1, <1>2 DEF LaidOut, HeldIn
<1>4. /\ OpenBlock(pages[k]) \in Blocks /\ OpenBlock(pages[i]) \in Blocks
      /\ OpenBlock(pages[k]).address + BlockHeader
           <= pages[k].end_address + 1
      /\ pages[i].start_address + PageHeader <= OpenBlock(pages[i]).address
  BY <1>3, AssignedPageNumbers
<1>5. /\ OpenBlock(pages[k]).address \in Nat
      /\ OpenBlock(pages[i]).address \in Nat
      /\ pages[k].start_address \in Nat /\ pages[k].end_address \in Nat
      /\ pages[i].start_address \in Nat /\ pages[i].end_address \in Nat
  BY <1>3, <1>4 DEF Blocks, Pages
<1>6. /\ a.address \in Nat /\ a.size \in Nat
      /\ BlockHeader \in Nat /\ PageHeader \in Nat
  BY <1>1, MemoryAssumption
<1>7. /\ a.address + a.size <= OpenBlock(pages[k]).address
      /\ pages[k].start_address + PageHeader + BlockHeader <= a.address
  BY <1>2 DEF HeldIn
<1>8. CASE k = i
  BY <1>7, <1>8
<1>9. CASE k < i
  <2>1. pages[k].end_address + 1 <= pages[i].start_address
    BY <1>1, <1>9, PagesApart
  <2>2. ASSUME NEW x \in Nat, NEW ok \in Nat, NEW ek \in Nat,
               NEW si \in Nat, NEW oi \in Nat,
               x <= ok, ok + BlockHeader <= ek + 1, ek + 1 <= si,
               si + PageHeader <= oi
        PROVE  x <= oi
    BY <1>6, <2>2
  <2>3. a.address + a.size \in Nat
    BY <1>6
  <2> QED
    BY <2>1, <2>2, <2>3, <1>4, <1>5, <1>7
<1>10. CASE i < k
  <2>1. pages[i].end_address + 1 <= pages[k].start_address
    BY <1>1, <1>10, PagesApart
  <2>2. ASSUME NEW ei \in Nat, NEW sk \in Nat, NEW x \in Nat,
               ei + 1 <= sk, sk + PageHeader + BlockHeader <= x
        PROVE  ei + 1 + PageHeader + BlockHeader <= x
    BY <1>6, <2>2
  <2> QED
    BY <2>1, <2>2, <1>5, <1>6, <1>7
<1>11. k \in Int /\ i \in Int
  BY <1>1, LenProperties
<1> QED
  BY <1>8, <1>9, <1>10, <1>11

(* Where a block header is, seen from page i: not above the header of its  *)
(* open block, or behind the header of a later page.                       *)
LEMMA HeadersAround ==
  ASSUME MemoryInvariant, process = "alive",
         NEW i \in 1 .. Len(pages), AssignedPage(pages[i]),
         NEW m \in 1 .. Len(pages), NEW j \in 1 .. Len(pages[m].blocks)
  PROVE  /\ pages[m].blocks[j].address \in Nat
         /\ \/ pages[m].blocks[j].address <= OpenBlock(pages[i]).address
            \/ pages[i].end_address + 1 + PageHeader
                 <= pages[m].blocks[j].address
<1>1. pages \in Seq(Pages) /\ LaidOut(pages)
  BY DEF MemoryInvariant, TypeOK
<1>2. pages[m] \in Pages /\ pages[i] \in Pages
  BY <1>1
<1>3. AssignedPage(pages[m])
  <2>1. pages[m].blocks # <<>>
    OBVIOUS
  <2>2. pages[m].state # "UNASSIGNED"
    BY <1>1, <2>1 DEF LaidOut, UnassignedPage
  <2> QED
    BY <1>1, <1>2, <2>2 DEF LaidOut, Pages
<1>4. PICK h \in Nat : h = pages[m].blocks[j].address
  <2>1. pages[m].blocks \in Seq(Blocks)
    BY <1>2 DEF Pages
  <2>2. pages[m].blocks[j] \in Blocks
    BY <2>1
  <2> QED
    BY <2>2 DEF Blocks
<1>5. /\ OpenBlock(pages[m]) \in Blocks /\ OpenBlock(pages[i]) \in Blocks
      /\ OpenBlock(pages[m]).address + BlockHeader
           <= pages[m].end_address + 1
      /\ pages[i].start_address + PageHeader <= OpenBlock(pages[i]).address
      /\ Len(pages[m].blocks) \in 1 .. Len(pages[m].blocks)
  BY <1>2, <1>3, AssignedPageNumbers
<1>6. /\ OpenBlock(pages[m]).address \in Nat
      /\ OpenBlock(pages[i]).address \in Nat
      /\ pages[m].start_address \in Nat /\ pages[m].end_address \in Nat
      /\ pages[i].start_address \in Nat /\ pages[i].end_address \in Nat
      /\ BlockHeader \in Nat /\ PageHeader \in Nat
  <2>1. /\ pages[m].start_address \in Nat /\ pages[m].end_address \in Nat
        /\ pages[i].start_address \in Nat /\ pages[i].end_address \in Nat
    BY <1>2 DEF Pages
  <2> QED
    BY <2>1, <1>5, MemoryAssumption DEF Blocks
<1>7. pages[m].start_address + PageHeader <= h
  BY <1>3, <1>4 DEF AssignedPage
<1>8. h <= OpenBlock(pages[m]).address
  <2>1. j = Len(pages[m].blocks) \/ j \in 1 .. Len(pages[m].blocks) - 1
    BY <1>5
  <2>2. CASE j = Len(pages[m].blocks)
    BY <2>2, <1>4, <1>6 DEF OpenBlock
  <2>3. CASE j \in 1 .. Len(pages[m].blocks) - 1
    <3>1. h + BlockHeader <= OpenBlock(pages[m]).address
      BY <2>3, <1>3, <1>4 DEF AssignedPage
    <3> QED
      BY <3>1, <1>6
  <2> QED
    BY <2>1, <2>2, <2>3
<1>9. CASE m = i
  BY <1>4, <1>8, <1>9
<1>10. CASE m < i
  <2>1. pages[m].end_address + 1 <= pages[i].start_address
    BY <1>1, <1>10, PagesApart
  <2>2. ASSUME NEW om \in Nat, NEW em \in Nat,
               NEW si \in Nat, NEW oi \in Nat,
               h <= om, om + BlockHeader <= em + 1, em + 1 <= si,
               si + PageHeader <= oi
        PROVE  h <= oi
    BY <1>6, <2>2
  <2> QED
    BY <2>1, <2>2, <1>4, <1>5, <1>6, <1>8
<1>11. CASE i < m
  <2>1. pages[i].end_address + 1 <= pages[m].start_address
    BY <1>1, <1>11, PagesApart
  <2>2. ASSUME NEW ei \in Nat, NEW sm \in Nat,
               ei + 1 <= sm, sm + PageHeader <= h
        PROVE  ei + 1 + PageHeader <= h
    BY <1>6, <2>2
  <2> QED
    BY <2>1, <2>2, <1>4, <1>6, <1>7
<1>12. m \in Int /\ i \in Int
  BY <1>1, LenProperties
<1> QED
  BY <1>4, <1>9, <1>10, <1>11, <1>12

(* DataSpared, said with Clear.                                            *)
AllClear(l, pgs) ==
  \A a \in l, i \in 1 .. Len(pgs) : \A j \in 1 .. Len(pgs[i].blocks) :
    Clear(a, pgs[i].blocks[j].address)

LEMMA SparedIsClear == DataSpared <=> Disjoint(live) /\ AllClear(live, pages)
BY DEF DataSpared, AllClear, Clear

(* The block given out and the header of the rest, up to which the request *)
(* may reach out of its page, stay clear of everything else as long as the *)
(* header of a block is no longer than that of a page.                     *)
LEMMA CarvedSparesData ==
  ASSUME BlockHeader <= PageHeader, MemoryInvariant, process = "alive",
         Disjoint(live), AllClear(live, pages),
         NEW i \in 1 .. Len(pages), CarvedAt(i)
  PROVE  Disjoint(live') /\ AllClear(live', pages')
<1> DEFINE pg == pages[i]
           g == Given(pages[i], request)
           c == Carve(pages[i], request)
<1>1. /\ pages \in Seq(Pages) /\ request \in Requests
      /\ live \subseteq [owner : Owners, address : Nat, size : Nat]
      /\ pg \in Pages /\ AssignedPage(pg) /\ Fitting(pg, request) # {}
      /\ live' = live \cup {g}
  BY DEF MemoryInvariant, TypeOK, CarvedAt
<1>2. PICK A \in Nat, s \in Nat, e \in Nat :
        /\ A = OpenBlock(pg).address /\ s = request.size
        /\ e = pg.end_address
  BY <1>1, GivenProperties DEF Pages
<1>3. A + s <= e + 1
  <2>1. /\ request.size <= OpenBlock(pg).total_size
        /\ OpenBlock(pg).address + OpenBlock(pg).total_size
             = pg.end_address + 1
        /\ OpenBlock(pg).total_size \in Int
    BY <1>1, OpenBlockIsCarved, AssignedPageNumbers, GivenProperties
  <2> QED
    BY <2>1, <1>2
<1>4. BlockHeader \in Nat /\ PageHeader \in Nat /\ BlockHeader <= PageHeader
  BY MemoryAssumption
<1>5. g.address = A + BlockHeader /\ g.size = s
  <2>1. g = [owner |-> pg.owner, size |-> request.size,
             address |-> OpenBlock(pg).address + BlockHeader]
    BY GivenProperties
  <2> HIDE DEF g
  <2> QED
    BY <1>2, <2>1
<1>6. \A a \in live :
        /\ a.address \in Nat /\ a.size \in Nat
        /\ \/ a.address + a.size <= A
           \/ e + 1 + PageHeader + BlockHeader <= a.address
  <2> TAKE a \in live
  <2>1. a.address \in Nat /\ a.size \in Nat
    BY <1>1
  <2> QED
    BY <2>1, <1>1, <1>2, HeldAround
<1>7. /\ c.blocks \in Seq(Blocks)
      /\ \A j \in 1 .. Len(c.blocks) :
           \/ /\ j \in 1 .. Len(pg.blocks)
              /\ c.blocks[j].address = pg.blocks[j].address
           \/ c.blocks[j].address = A + s + BlockHeader
  <2>1. PICK n \in Nat : n = Len(pg.blocks) /\ n \in 1 .. n
    BY <1>1, AssignedPageNumbers
  <2>2. /\ c \in Pages
        /\ Len(c.blocks) = IF OpenBlock(pg).total_size = request.size
                             THEN n ELSE n + 1
        /\ \A j \in 1 .. n - 1 : c.blocks[j] = pg.blocks[j]
        /\ c.blocks[n] = Allocated(OpenBlock(pg), request)
        /\ OpenBlock(pg).total_size # request.size =>
             c.blocks[n + 1] = Rest(OpenBlock(pg), request)
    BY <1>1, <2>1, CarveProperties
  <2>3. pg.blocks[n] = OpenBlock(pg)
    BY <2>1 DEF OpenBlock
  <2>4. /\ Allocated(OpenBlock(pg), request).address = A
        /\ Rest(OpenBlock(pg), request).address = A + s + BlockHeader
    BY <1>2 DEF Allocated, Rest
  <2>5. \A j \in 1 .. Len(c.blocks) :
          j \in 1 .. n - 1 \/ j = n
            \/ (OpenBlock(pg).total_size # request.size /\ j = n + 1)
    BY <2>1, <2>2
  <2>6. c.blocks \in Seq(Blocks)
    BY <2>2 DEF Pages
  <2>7. 1 .. n - 1 \subseteq 1 .. n
    BY <2>1
  <2> HIDE DEF pg, c
  <2> QED
    BY <1>2, <2>1, <2>2, <2>3, <2>4, <2>5, <2>6, <2>7
<1>8. /\ Len(pages') = Len(pages) /\ pages'[i] = c
      /\ \A m \in 1 .. Len(pages) :
           m # i => pages'[m].blocks = pages[m].blocks
  BY CarvedPages
<1>9. ASSUME NEW m \in 1 .. Len(pages'), NEW j \in 1 .. Len(pages'[m].blocks)
      PROVE  \/ pages'[m].blocks[j].address = A + s + BlockHeader
             \/ /\ m \in 1 .. Len(pages) /\ j \in 1 .. Len(pages[m].blocks)
                /\ pages'[m].blocks[j].address = pages[m].blocks[j].address
  <2>1. m \in 1 .. Len(pages)
    BY <1>8
  <2>2. CASE m = i
    <3>1. pages'[m] = c
      BY <1>8, <2>1, <2>2
    <3> HIDE DEF c
    <3> QED
      BY <1>7, <2>1, <2>2, <3>1
  <2>3. CASE m # i
    BY <1>8, <2>1, <2>3
  <2> QED
    BY <2>2, <2>3
<1> HIDE DEF g, c
<1>10. Disjoint(live')
  <2>1. ASSUME NEW a \in live
        PROVE  \/ a.address + a.size <= g.address
               \/ g.address + g.size <= a.address
    <3>1. PICK x \in Nat, y \in Nat : x = a.address /\ y = a.size
      BY <1>6
    <3>2. x + y <= A \/ e + 1 + PageHeader + BlockHeader <= x
      BY <1>6, <3>1
    <3>3. x + y <= A + BlockHeader \/ A + BlockHeader + s <= x
      BY <1>3, <1>4, <3>2
    <3> QED
      BY <1>5, <3>1, <3>3
  <2>2. ASSUME NEW a \in live', NEW b \in live', a # b
        PROVE  \/ a.address + a.size <= b.address
               \/ b.address + b.size <= a.address
    <3>1. CASE a \in live /\ b \in live
      BY <2>2, <3>1 DEF Disjoint
    <3>2. CASE a = g /\ b \in live
      BY <2>1, <3>2
    <3>3. CASE b = g /\ a \in live
      BY <2>1, <3>3
    <3> QED
      BY <1>1, <2>2, <3>1, <3>2, <3>3
  <2> QED
    BY <2>2 DEF Disjoint
<1>11. AllClear(live', pages')
  <2> SUFFICES ASSUME NEW a \in live', NEW m \in 1 .. Len(pages'),
                      NEW j \in 1 .. Len(pages'[m].blocks)
               PROVE  Clear(a, pages'[m].blocks[j].address)
    BY DEF AllClear
  <2>1. CASE pages'[m].blocks[j].address = A + s + BlockHeader
    <3>1. CASE a = g
      <4>1. g.address + g.size <= A + s + BlockHeader
        BY <1>4, <1>5
      <4> QED
        BY <2>1, <3>1, <4>1 DEF Clear
    <3>2. CASE a \in live
      <4>1. PICK x \in Nat, y \in Nat : x = a.address /\ y = a.size
        BY <1>6, <3>2
      <4>2. x + y <= A \/ e + 1 + PageHeader + BlockHeader <= x
        BY <1>6, <3>2, <4>1
      <4>3. \/ x + y <= A + s + BlockHeader
            \/ A + s + BlockHeader + BlockHeader <= x
        BY <1>3, <1>4, <4>2
      <4> QED
        BY <2>1, <4>1, <4>3 DEF Clear
    <3> QED
      BY <1>1, <3>1, <3>2
  <2>2. ASSUME m \in 1 .. Len(pages), j \in 1 .. Len(pages[m].blocks),
               pages'[m].blocks[j].address = pages[m].blocks[j].address
        PROVE  Clear(a, pages'[m].blocks[j].address)
    <3>1. CASE a \in live
      BY <2>2, <3>1 DEF AllClear
    <3>2. CASE a = g
      <4>1. PICK h \in Nat : h = pages[m].blocks[j].address
        BY <1>1, <2>2, HeadersAround
      <4>2. h <= A \/ e + 1 + PageHeader <= h
        BY <1>1, <1>2, <2>2, <4>1, HeadersAround
      <4>3. A + BlockHeader + s <= h \/ h + BlockHeader <= A + BlockHeader
        BY <1>3, <1>4, <4>2
      <4> QED
        BY <1>5, <2>2, <3>2, <4>1, <4>3 DEF Clear
    <3> QED
      BY <1>1, <3>1, <3>2
  <2> QED
    BY <1>9, <2>1, <2>2
<1> QED
  BY <1>10, <1>11

(* The header of a new page's open block lies behind all blocks in use.    *)
LEMMA TakenSparesData ==
  ASSUME MemoryInvariant, process = "alive", AllClear(live, pages),
         NEW garbage \in Garbage, LastTaken(garbage)
  PROVE  AllClear(live, pages')
<1>1. PICK n \in Nat : n = Len(pages)
  BY LenProperties DEF MemoryInvariant, TypeOK
<1>2. /\ pages \in Seq(Pages) /\ LaidOut(pages) /\ LiveHeld(live, pages)
      /\ live \subseteq [owner : Owners, address : Nat, size : Nat]
      /\ FreePages(pages) # {} /\ request \in Requests
      /\ IsTaken(pages, n, garbage, request, pages')
  BY <1>1 DEF LastTaken, MemoryInvariant, TypeOK
<1>3. /\ n \in 1 .. n /\ pages[n] \in Pages
      /\ pages[n].state = "UNASSIGNED"
  BY <1>1, <1>2, LastPageIsTaken
<1>4. pages[n].start_address \in Nat /\ pages[n].end_address \in Nat
  BY <1>3 DEF Pages
<1>5. /\ \A j \in 1 .. n - 1 : pages'[j] = pages[j]
      /\ Len(pages') = IF Size(pages[n]) = page_size THEN n ELSE n + 1
      /\ Size(pages[n]) # page_size => pages'[n + 1] = Remainder(pages[n])
  BY <1>2 DEF IsTaken
<1>6. /\ Len(pages'[n].blocks) = 1
      /\ pages'[n].blocks[1].address = pages[n].start_address + PageHeader
  <2>1. /\ Len(Assigned(pages[n], garbage, request).blocks) = 1
        /\ Assigned(pages[n], garbage, request).blocks[1]
             = [state |-> "UNALLOCATED",
                address |-> pages[n].start_address + PageHeader,
                data_size |-> 0, total_size |-> page_size - PageHeader]
    BY <1>2, <1>3, NewPageProperties
  <2>2. pages'[n] = Assigned(pages[n], garbage, request)
    BY <1>2 DEF IsTaken
  <2> QED
    BY <2>1, <2>2
<1>7. Len(Remainder(pages[n]).blocks) = 0
  BY DEF Remainder, Unassigned
<1>8. ASSUME NEW a \in live
      PROVE  a.address + a.size <= pages[n].start_address + PageHeader
  <2>1. PICK k \in 1 .. Len(pages) : HeldIn(a, pages[k])
    BY <1>2 DEF LiveHeld
  <2>2. k \in 1 .. n /\ k # n
    BY <1>1, <1>3, <2>1 DEF HeldIn
  <2>3. pages[k].end_address + 1 <= pages[n].start_address
    <3>1. k < n /\ n \in 1 .. Len(pages)
      BY <1>1, <1>3, <2>2
    <3> QED
      BY <1>2, <3>1, PagesApart
  <2>4. pages[k] \in Pages /\ AssignedPage(pages[k])
    BY <1>2, <2>1 DEF LaidOut, HeldIn
  <2>5. /\ OpenBlock(pages[k]) \in Blocks
        /\ OpenBlock(pages[k]).address + BlockHeader
             <= pages[k].end_address + 1
    BY <2>4, AssignedPageNumbers
  <2>6. /\ OpenBlock(pages[k]).address \in Nat
        /\ pages[k].end_address \in Nat
    BY <2>4, <2>5 DEF Blocks, Pages
  <2>7. a.address + a.size \in Nat
    <3>1. a.address \in Nat /\ a.size \in Nat
      BY <1>2
    <3> QED
      BY <3>1
  <2>8. a.address + a.size <= OpenBlock(pages[k]).address
    BY <2>1 DEF HeldIn
  <2>9. ASSUME NEW x \in Nat, NEW o \in Nat, NEW e \in Nat, NEW s \in Nat,
               x <= o, o + BlockHeader <= e + 1, e + 1 <= s
        PROVE  x <= s + PageHeader
    BY <2>9, MemoryAssumption
  <2> QED
    BY <1>4, <2>3, <2>5, <2>6, <2>7, <2>8, <2>9
<1> SUFFICES ASSUME NEW a \in live, NEW m \in 1 .. Len(pages'),
                    NEW j \in 1 .. Len(pages'[m].blocks)
             PROVE  Clear(a, pages'[m].blocks[j].address)
  BY DEF AllClear
<1>9. m \in 1 .. n - 1 \/ m = n \/ (Size(pages[n]) # page_size /\ m = n + 1)
  BY <1>5
<1>10. CASE m \in 1 .. n - 1
  <2>1. pages'[m] = pages[m] /\ m \in 1 .. Len(pages)
    BY <1>1, <1>5, <1>10
  <2> QED
    BY <2>1 DEF AllClear
<1>11. CASE m = n
  <2>1. j = 1
    <3>1. j \in 1 .. Len(pages'[n].blocks)
      BY <1>11
    <3>2. j \in 1 .. 1
      BY <3>1, <1>6
    <3> QED
      BY <3>2
  <2> QED
    BY <1>6, <1>8, <1>11, <2>1 DEF Clear
<1>12. CASE Size(pages[n]) # page_size /\ m = n + 1
  BY <1>5, <1>7, <1>12
<1> QED
  BY <1>9, <1>10, <1>11, <1>12

(* No request ever spoils data in use, not even the one that reaches out   *)
(* of its page (memory_manager.c:252 compares the block with the bytes     *)
(* asked for and counts no header): what lies behind the page is the       *)
(* header of the next one, and it is no shorter than that of a block.      *)
THEOREM DataSparedHolds ==
  ASSUME BlockHeader <= PageHeader
  PROVE  Spec => []DataSpared
<1>1. Init => DataSpared
  BY DEF Init, DataSpared, Disjoint
<1>2. MemoryInvariant /\ DataSpared /\ [Next]_vars => DataSpared'
  <2> SUFFICES ASSUME MemoryInvariant, DataSpared, [Next]_vars
               PROVE  DataSpared'
    OBVIOUS
  <2>1. Disjoint(live) /\ AllClear(live, pages)
    BY SparedIsClear
  <2>2. ASSUME Disjoint(live'), AllClear(live', pages') PROVE DataSpared'
    BY <2>2 DEF DataSpared, AllClear, Clear
  <2>3. CASE UNCHANGED <<pages, live>>
    BY <2>3 DEF DataSpared
  <2>4. ASSUME NEW owner \in Owners, NEW size \in Nat,
               my_allocate(owner, size)
        PROVE  DataSpared'
    <3>1. CASE pages # <<>>
      BY <2>3, <2>4, <3>1 DEF my_allocate
    <3>2. CASE pages = <<>>
      <4>1. live = {}
        BY <2>4, <3>2 DEF my_allocate, MemoryInvariant, LiveHeld
      <4>2. live' = {}
        BY <2>4, <4>1 DEF my_allocate
      <4> QED
        BY <2>2, <4>2 DEF Disjoint, AllClear
    <3> QED
      BY <3>1, <3>2
  <2>5. CASE AllocateBlock
    <3>1. process = "alive"
      BY <2>5 DEF AllocateBlock
    <3>2. ASSUME NEW i \in 1 .. Len(pages), CarvedAt(i) PROVE DataSpared'
      BY <2>1, <2>2, <3>1, <3>2, CarvedSparesData
    <3> QED
      BY <2>3, <2>5, <3>2, AllocateBlockStep
  <2>6. CASE AssignPage
    <3>1. process = "alive" /\ UNCHANGED live
      BY <2>6, AssignPageStep DEF AssignPage
    <3>2. ASSUME NEW garbage \in Garbage, LastTaken(garbage)
          PROVE  DataSpared'
      <4>1. AllClear(live, pages')
        BY <2>1, <3>1, <3>2, TakenSparesData
      <4> QED
        BY <2>1, <2>2, <3>1, <4>1
    <3> QED
      BY <2>3, <2>6, <3>1, <3>2, AssignPageStep DEF NoneTaken
  <2>7. CASE UNCHANGED vars
    BY <2>3, <2>7 DEF vars
  <2>8. /\ LibrarySizes \subseteq Nat /\ ThreadSizes \subseteq Nat
        /\ Library \in Owners /\ Tids \subseteq Owners
    BY MemoryAssumption DEF Owners
  <2> QED
    BY <2>4, <2>5, <2>6, <2>7, <2>8 DEF Next
<1> QED
  BY <1>1, <1>2, SpecMemory, PTL DEF Spec
=============================================================================
