------------------------- MODULE H2cTransferProofs -------------------------
(***************************************************************************)
(* Theorems about one call of xpcie_h2c_write().                           *)
(*                                                                         *)
(* First the mapper by itself, for every page size and every buffer: the   *)
(* scatterlist that sgm_get_user_pages() builds describes the buffer       *)
(* exactly, fits the arrays of its mapper, trips no BUG_ON, and no page    *)
(* stays pinned.                                                           *)
(*                                                                         *)
(* Then the composition: the call uses the mapper as SgMapper specifies    *)
(* it, so that what is proved of the mapper holds of the call; no          *)
(* descriptor is made for a page that is not pinned; the chain builder     *)
(* gets a list as it needs one, so that what XdmaTransferProofs proves of  *)
(* it holds of the call; and the chain stores the user buffer.             *)
(***************************************************************************)
EXTENDS H2cTransfer, ArithmeticFacts

XP == INSTANCE XdmaTransferProofs WITH pc <- xpc, sgl <- dsgl, i <- xi, SGLs <- {}

(* The buffer ends in its last page: nr_pages pages are needed and enough. *)
LEMMA Geometry ==
  ASSUME start \in Nat, len \in Nat \ {0}
  PROVE  /\ first \in Nat
         /\ nr_pages \in Nat \ {0}
         /\ offset_in_page \in 0..PAGE_SIZE - 1
         /\ start = PAGE_SIZE * first + offset_in_page
         /\ PAGE_SIZE * (nr_pages - 1) < offset_in_page + len
         /\ offset_in_page + len <= PAGE_SIZE * nr_pages
         /\ MaxPages(len) \in Nat
         /\ nr_pages <= MaxPages(len)
  <1>1. len \div PAGE_SIZE \in Nat
    BY DivMod, PageSizeAssumption
  <1> DEFINE n == (start + len - 1) \div PAGE_SIZE - start \div PAGE_SIZE + 1
             o == start % PAGE_SIZE
  <1>2. /\ start \div PAGE_SIZE \in Nat
        /\ o \in 0..PAGE_SIZE - 1
        /\ start = PAGE_SIZE * (start \div PAGE_SIZE) + o
        /\ n \in Nat \ {0}
        /\ PAGE_SIZE * (n - 1) < o + len
        /\ o + len <= PAGE_SIZE * n
        /\ n <= len \div PAGE_SIZE + 2
    BY Span, PageSizeAssumption, Zenon
  <1>3. n = nr_pages /\ o = offset_in_page /\ first = start \div PAGE_SIZE
    BY DEF first, last, nr_pages, offset_in_page
  <1>4. MaxPages(len) = len \div PAGE_SIZE + 2
    BY DEF MaxPages
  <1> HIDE DEF n, o
  <1> QED
    BY <1>1, <1>2, <1>3, <1>4

(* What the reference PartOfBuffer says of the first page.                 *)
LEMMA PartFirst ==
  ASSUME start \in Nat, len \in Nat \ {0}
  PROVE  PartOfBuffer(0) =
           [page |-> 0, offset |-> offset_in_page,
            length |-> IF nr_pages > 1 THEN PAGE_SIZE - offset_in_page
                                       ELSE len]
  <1> DEFINE fP == PAGE_SIZE * first
             x  == offset_in_page + len
  <1>1. /\ fP \in Int /\ start = fP + offset_in_page
        /\ offset_in_page \in 0..PAGE_SIZE - 1
        /\ nr_pages \in Nat \ {0}
    BY Geometry, PageSizeAssumption
  <1>2. PageBase(0) = fP /\ PageBase(0 + 1) = fP + PAGE_SIZE
    BY Geometry, PageSizeAssumption DEF PageBase
  <1>3. nr_pages > 1 => PAGE_SIZE < x
    <2> SUFFICES ASSUME nr_pages > 1
                 PROVE  PAGE_SIZE < x
      OBVIOUS
    <2>1. 1 * PAGE_SIZE < x
      BY PageBoundary, Geometry, PageSizeAssumption, <1>1
    <2> QED
      BY <2>1, PageSizeAssumption
  <1>4. ~(nr_pages > 1) => x <= PAGE_SIZE
    <2>1. ~(nr_pages > 1) => nr_pages = 1
      BY <1>1
    <2> QED
      BY <2>1, Geometry, PageSizeAssumption
  <1> HIDE DEF fP
  <1>5. Larger(start, PageBase(0)) = start
    BY <1>1, <1>2 DEF Larger
  <1>6. Smaller(start + len, PageBase(0 + 1)) =
          IF nr_pages > 1 THEN fP + PAGE_SIZE ELSE start + len
    BY <1>1, <1>2, <1>3, <1>4, PageSizeAssumption DEF Smaller
  <1>7. /\ start - PageBase(0) = offset_in_page
        /\ fP + PAGE_SIZE - start = PAGE_SIZE - offset_in_page
        /\ start + len - start = len
    BY <1>1, <1>2, PageSizeAssumption
  <1>8. PartOfBuffer(0) =
          [page |-> 0, offset |-> start - PageBase(0),
           length |-> (IF nr_pages > 1 THEN fP + PAGE_SIZE ELSE start + len)
                        - start]
    BY <1>5, <1>6, Zenon DEF PartOfBuffer
  <1>9. (IF nr_pages > 1 THEN fP + PAGE_SIZE ELSE start + len) - start =
          IF nr_pages > 1 THEN PAGE_SIZE - offset_in_page ELSE len
    BY <1>1, <1>7, PageSizeAssumption
  <1> QED
    BY <1>7, <1>8, <1>9, Zenon

(* ... and of the others.                                                  *)
LEMMA PartRest ==
  ASSUME start \in Nat, len \in Nat \ {0}, NEW k \in 1..nr_pages - 1
  PROVE  /\ PartOfBuffer(k) =
              [page |-> k, offset |-> 0,
               length |-> IF k < nr_pages - 1
                            THEN PAGE_SIZE
                            ELSE offset_in_page + len - k * PAGE_SIZE]
         /\ k * PAGE_SIZE \in Int
         /\ k < nr_pages - 1 => k * PAGE_SIZE + PAGE_SIZE < offset_in_page + len
         /\ ~(k < nr_pages - 1) => offset_in_page + len <= k * PAGE_SIZE + PAGE_SIZE
  <1> DEFINE kP == k * PAGE_SIZE
             fP == PAGE_SIZE * first
             x  == offset_in_page + len
  <1>1. /\ fP \in Int /\ start = fP + offset_in_page
        /\ offset_in_page \in 0..PAGE_SIZE - 1
        /\ nr_pages \in Nat \ {0}
    BY Geometry, PageSizeAssumption
  <1>2. PageBase(k) = fP + kP /\ PageBase(k + 1) = fP + kP + PAGE_SIZE
    BY Geometry, PageSizeAssumption DEF PageBase
  <1>3. /\ kP \in Int /\ kP >= PAGE_SIZE
        /\ k < nr_pages - 1 => kP + PAGE_SIZE < x
        /\ ~(k < nr_pages - 1) => x <= kP + PAGE_SIZE
    BY PageBoundary, Geometry, PageSizeAssumption, <1>1
  <1> HIDE DEF fP, kP
  <1>4. Larger(start, PageBase(k)) = PageBase(k)
    BY <1>1, <1>2, <1>3, PageSizeAssumption DEF Larger
  <1>5. Smaller(start + len, PageBase(k + 1)) =
          IF k < nr_pages - 1 THEN PageBase(k) + PAGE_SIZE ELSE start + len
    BY <1>1, <1>2, <1>3, PageSizeAssumption DEF Smaller
  <1>6. /\ PageBase(k) - PageBase(k) = 0
        /\ PageBase(k) + PAGE_SIZE - PageBase(k) = PAGE_SIZE
        /\ start + len - PageBase(k) = x - kP
    BY <1>1, <1>2, <1>3, PageSizeAssumption
  <1>7. start + len - PageBase(k) = offset_in_page + len - k * PAGE_SIZE
    <2>1. k \in Int /\ PAGE_SIZE \in Int
      BY <1>1, PageSizeAssumption
    <2> QED
      BY <1>1, <1>6, <2>1 DEF kP
  <1>8. /\ k * PAGE_SIZE \in Int
        /\ k < nr_pages - 1 => k * PAGE_SIZE + PAGE_SIZE < offset_in_page + len
        /\ ~(k < nr_pages - 1) => offset_in_page + len <= k * PAGE_SIZE + PAGE_SIZE
    BY <1>3 DEF kP
  <1>9. PartOfBuffer(k) =
          [page |-> k, offset |-> 0,
           length |-> IF k < nr_pages - 1
                        THEN PAGE_SIZE
                        ELSE offset_in_page + len - k * PAGE_SIZE]
    <2>1. PartOfBuffer(k) =
            [page |-> k, offset |-> PageBase(k) - PageBase(k),
             length |-> (IF k < nr_pages - 1 THEN PageBase(k) + PAGE_SIZE
                                             ELSE start + len) - PageBase(k)]
      BY <1>4, <1>5, Zenon DEF PartOfBuffer
    <2>2. (IF k < nr_pages - 1 THEN PageBase(k) + PAGE_SIZE
                               ELSE start + len) - PageBase(k) =
            IF k < nr_pages - 1 THEN PAGE_SIZE ELSE x - kP
      BY <1>1, <1>2, <1>3, <1>6, PageSizeAssumption
    <2>3. x - kP = offset_in_page + len - k * PAGE_SIZE
      BY <1>6, <1>7, Zenon
    <2> QED
      BY <1>6, <2>1, <2>2, <2>3, Zenon
  <1> QED
    BY <1>8, <1>9
-----------------------------------------------------------------------------
(***************************************************************************)
(* The inductive invariant.  Its heart is the fill loop: with i entries    *)
(* filled, the bytes left are those from the start of page i to the end of *)
(* the buffer.                                                             *)
(***************************************************************************)
Filling ==
  pc = "fill" =>
    /\ mapped_pages = nr_pages
    /\ i \in 1..nr_pages - 1
    /\ count = offset_in_page + len - i * PAGE_SIZE
    /\ \A k \in 0..i - 1 : sgl[k] = PartOfBuffer(k)

Entering ==
  /\ pc = "create" => heap = {}
  /\ pc \in {"create", "get", "out_unmap", "first"} => count = len /\ i = 0
  /\ pc \in {"create", "get", "oops", "destroy"} => mapped_pages = 0
  /\ pc = "first" => mapped_pages = nr_pages
  /\ pc \notin {"create", "oops"} =>
       len # 0 /\ max_pages = MaxPages(len) /\ i \in 0..nr_pages - 1

IInv == TypeOK /\ Entering /\ Filling /\ SglExact /\ PinsCounted /\ NoBug

(* A call that has not made its mapper yet satisfies the invariant.        *)
THEOREM InitIInv == Init => IInv
  BY BufferAssumption
     DEF Init, IInv, TypeOK, Entering, Filling, SglExact, PinsCounted, NoBug

(* The geometry of a buffer is fixed when the call starts.                 *)
LEMMA SameGeometry ==
  ASSUME UNCHANGED <<start, len>>
  PROVE  /\ nr_pages' = nr_pages
         /\ offset_in_page' = offset_in_page
         /\ \A k : PartOfBuffer(k)' = PartOfBuffer(k)
  BY DEF nr_pages, first, last, offset_in_page, PartOfBuffer, PageBase

(* Every step keeps the invariant.                                         *)
THEOREM StepIInv == IInv /\ [Next]_vars => IInv'
  <1> SUFFICES ASSUME IInv, [Next]_vars
               PROVE  IInv'
    OBVIOUS
  <1> USE PageSizeAssumption DEF IInv
  <1>1. CASE CreateMapper
    <2>1. start \in Nat /\ (len # 0 => len \in Nat \ {0})
      BY DEF TypeOK
    <2>2. UNCHANGED <<start, len>>
      BY <1>1 DEF CreateMapper, call
    <2>3. MaxPages(len)' = MaxPages(len)
      BY <2>2 DEF MaxPages
    <2>4. CASE pc' = "oops"
      <3>1. /\ pc = "create" /\ heap = {} /\ heap' = {} /\ mapped_pages = 0
            /\ UNCHANGED <<kernel, start, len, count, i, max_pages,
                           mapped_pages, sgl, pinned>>
        <4>1. \A got \in 0..2 : Allocated(got) \ FreedOnError(got) = {}
          BY DEF Allocated, FreedOnError
        <4> QED
          BY <1>1, <2>4, <4>1 DEF CreateMapper, call, Entering
      <3>2. TypeOK'
        BY <3>1, <2>4 DEF TypeOK
      <3>3. Entering' /\ Filling' /\ SglExact' /\ NoBug'
        BY <3>1, <2>4 DEF Entering, Filling, SglExact, NoBug
      <3>4. PinsCounted'
        BY <3>1, <2>4 DEF PinsCounted, TypeOK
      <3> QED
        BY <3>2, <3>3, <3>4
    <2>5. CASE pc' = "get" /\ len # 0
      <3>1. nr_pages' \in Nat \ {0} /\ MaxPages(len) \in Nat
        BY <2>1, <2>2, <2>5, Geometry, SameGeometry
      <3>2. TypeOK'
        BY <1>1, <2>5, <3>1 DEF CreateMapper, call, TypeOK, EmptyEntry, Objects
      <3>3. /\ pc = "create" /\ count = len /\ i = 0 /\ mapped_pages = 0
            /\ max_pages' = MaxPages(len)
            /\ UNCHANGED <<kernel, len, count, i, mapped_pages, pinned>>
        BY <1>1, <2>5 DEF CreateMapper, call, Entering
      <3>4. Entering'
        <4>1. i' \in 0..nr_pages' - 1
          <5>1. i' = 0 /\ nr_pages' = nr_pages
            BY <3>3, <2>2, SameGeometry, Zenon
          <5>2. nr_pages \in Nat \ {0}
            BY <3>1, <5>1, Zenon
          <5>3. 0 \in 0..nr_pages - 1
            BY <5>2
          <5> QED
            BY <5>1, <5>3, Zenon
        <4> QED
          BY <2>3, <2>5, <3>3, <4>1 DEF Entering
      <3>5. Filling' /\ SglExact' /\ NoBug' /\ PinsCounted'
        BY <2>5, <3>3 DEF Filling, SglExact, PinsCounted, NoBug, TypeOK
      <3> QED
        BY <3>2, <3>4, <3>5
    <2> QED
      BY <1>1, <2>4, <2>5 DEF CreateMapper
  <1>2. ASSUME pc \notin {"create", "oops"}, UNCHANGED <<call, max_pages>>
        PROVE  /\ start \in Nat /\ len \in Nat \ {0} /\ max_pages = MaxPages(len)
               /\ nr_pages \in Nat \ {0} /\ nr_pages <= max_pages
               /\ MaxPages(len)' = max_pages'
               /\ nr_pages' = nr_pages /\ offset_in_page' = offset_in_page
               /\ \A k : PartOfBuffer(k)' = PartOfBuffer(k)
               /\ offset_in_page \in 0..PAGE_SIZE - 1
    BY <1>2, Geometry, SameGeometry DEF TypeOK, Entering, call, MaxPages
  <1>3. CASE GetUserPages
    <2>1. /\ pc \notin {"create", "oops"} /\ UNCHANGED <<call, max_pages>>
          /\ pc' \in {"out_unmap", "first"}
      BY <1>3 DEF GetUserPages
    <2>2. sgl' \in [0..max_pages - 1 -> [page : Int, offset : Int, length : Int]]
      BY <1>3, <2>1 DEF GetUserPages, InitTable, EmptyEntry, TypeOK
    <2>3. TypeOK'
      BY <1>3, <1>2, <2>1, <2>2 DEF GetUserPages, TypeOK, call, Objects
    <2>4. PinsCounted'
      <3>1. PICK rc \in -1..nr_pages :
              /\ pinned' = 0..rc - 1
              /\ mapped_pages' = IF rc < nr_pages
                                   THEN IF rc > 0 THEN rc ELSE mapped_pages
                                   ELSE rc
        BY <1>3 DEF GetUserPages
      <3>2. mapped_pages = 0 /\ ~kernel' /\ nr_pages \in Nat
        BY <1>3, <1>2, <2>1 DEF GetUserPages, Entering, call
      <3>3. pinned' = 0..mapped_pages' - 1
        BY <3>1, <3>2
      <3> QED
        BY <2>1, <3>2, <3>3 DEF PinsCounted
    <2>5. Entering'
      BY <1>3, <1>2, <2>1 DEF GetUserPages, call, Entering
    <2>6. Filling' /\ SglExact' /\ NoBug'
      BY <2>1 DEF Filling, SglExact, NoBug
    <2> QED
      BY <2>3, <2>4, <2>5, <2>6
  <1>4. CASE OutUnmap
    <2>1. pc \notin {"create", "oops"} /\ UNCHANGED <<call, max_pages>>
      BY <1>4 DEF OutUnmap
    <2> QED
      BY <1>4, <1>2, <2>1 DEF OutUnmap, TypeOK, call, Entering, Filling,
         SglExact, PinsCounted, NoBug
  <1>5. CASE KernelPages
    <2>1. pc \notin {"create", "oops"} /\ UNCHANGED <<call, max_pages>>
      BY <1>5 DEF KernelPages
    <2>2. sgl' \in [0..max_pages - 1 -> [page : Int, offset : Int, length : Int]]
      BY <1>5, <2>1 DEF KernelPages, InitTable, EmptyEntry, TypeOK
    <2>3. TypeOK'
      BY <1>5, <1>2, <2>1, <2>2 DEF KernelPages, TypeOK, call, Objects
    <2> QED
      BY <1>5, <1>2, <2>1, <2>3 DEF KernelPages, TypeOK, call, Entering,
         Filling, SglExact, PinsCounted, NoBug
  <1>6. CASE FillFirst
    <2>1. /\ pc \notin {"create", "oops"} /\ UNCHANGED <<call, max_pages>>
          /\ pc = "first" /\ count = len /\ i = 0 /\ mapped_pages = nr_pages
      BY <1>6 DEF FillFirst, Entering
    <2>2. /\ sgl' = [sgl EXCEPT ![0] = PartOfBuffer(0)]
          /\ PartOfBuffer(0) \in [page : Int, offset : Int, length : Int]
      <3>1. /\ PartOfBuffer(0) =
                 [page |-> 0, offset |-> offset_in_page,
                  length |-> IF nr_pages > 1 THEN PAGE_SIZE - offset_in_page
                                             ELSE count]
        BY <1>2, <2>1, PartFirst
      <3>2. sgl' = [sgl EXCEPT ![0] = PartOfBuffer(0)]
        BY <1>6, <3>1, Zenon DEF FillFirst
      <3>3. (IF nr_pages > 1 THEN PAGE_SIZE - offset_in_page ELSE count) \in Int
        BY <1>2, <2>1
      <3> QED
        BY <3>1, <3>2, <3>3, <1>2, <2>1
    <2>3. sgl'[0] = PartOfBuffer(0)
      BY <2>2, <1>2, <2>1 DEF TypeOK
    <2>4. TypeOK'
      BY <1>6, <1>2, <2>1, <2>2 DEF FillFirst, TypeOK, call, Objects
    <2>5. CASE nr_pages > 1
      <3>1. /\ pc' = "fill" /\ i' = 1
            /\ UNCHANGED <<kernel, len, max_pages, mapped_pages, pinned>>
            /\ count' = len - (PAGE_SIZE - offset_in_page)
        BY <1>6, <2>1, <2>5 DEF FillFirst, call
      <3>2. count' = offset_in_page' + len' - i' * PAGE_SIZE
        BY <1>2, <2>1, <3>1
      <3>3. \A k \in 0..i' - 1 : sgl'[k] = PartOfBuffer(k)'
        BY <1>2, <2>1, <2>3, <3>1
      <3>4. i' \in 1..nr_pages' - 1 /\ mapped_pages' = nr_pages'
        BY <1>2, <2>1, <2>5, <3>1
      <3>5. Filling'
        BY <3>2, <3>3, <3>4 DEF Filling
      <3>6. Entering'
        BY <1>2, <2>1, <3>1, <3>4 DEF Entering
      <3> QED
        BY <2>1, <2>4, <3>1, <3>5, <3>6 DEF SglExact, PinsCounted, NoBug
    <2>6. CASE ~(nr_pages > 1)
      BY <1>6, <1>2, <2>1, <2>3, <2>4, <2>6 DEF FillFirst, TypeOK, call,
         Entering, Filling, SglExact, PinsCounted, NoBug
    <2> QED
      BY <2>5, <2>6
  <1>7. CASE FillNext
    <2>1. /\ pc \notin {"create", "oops"} /\ UNCHANGED <<call, max_pages>>
          /\ pc = "fill" /\ mapped_pages = nr_pages /\ i \in 1..nr_pages - 1
          /\ count = offset_in_page + len - i * PAGE_SIZE
          /\ \A k \in 0..i - 1 : sgl[k] = PartOfBuffer(k)
          /\ i < nr_pages - 1
      BY <1>7 DEF FillNext, Filling
    <2>2. /\ i * PAGE_SIZE \in Int
          /\ i * PAGE_SIZE + PAGE_SIZE < offset_in_page + len
          /\ PartOfBuffer(i) = [page |-> i, offset |-> 0, length |-> PAGE_SIZE]
      BY <1>2, <2>1, PartRest
    <2>3. ~(count < PAGE_SIZE)
      BY <1>2, <2>1, <2>2
    <2>4. sgl' = [sgl EXCEPT ![i] = PartOfBuffer(i)] /\ i' = i + 1
          /\ count' = count - PAGE_SIZE /\ pc' = pc
      BY <1>7, <2>2, <2>3 DEF FillNext
    <2>5. TypeOK'
      <3>1. PartOfBuffer(i) \in [page : Int, offset : Int, length : Int]
        BY <2>1, <2>2, <1>2
      <3>2. i' \in Nat /\ count' \in Int
        BY <2>1, <2>4 DEF TypeOK
      <3>3. UNCHANGED <<kernel, start, len, heap, max_pages, mapped_pages, pinned>>
        BY <1>7 DEF FillNext, call
      <3> QED
        BY <2>4, <3>1, <3>2, <3>3 DEF TypeOK
    <2>6. \A k \in 0..i' - 1 : sgl'[k] = PartOfBuffer(k)
      BY <1>2, <2>1, <2>4 DEF TypeOK
    <2>7. count' = offset_in_page + len - i' * PAGE_SIZE
      <3>1. i' * PAGE_SIZE = i * PAGE_SIZE + PAGE_SIZE
        BY <2>1, <2>4, <1>2
      <3> QED
        BY <3>1, <2>1, <2>2, <2>4, <1>2
    <2>8. Filling'
      BY <1>7, <1>2, <2>1, <2>4, <2>6, <2>7 DEF FillNext, Filling, call
    <2>9. UNCHANGED <<kernel, len, max_pages, mapped_pages, pinned>>
      BY <1>7 DEF FillNext, call
    <2>10. Entering'
      <3>1. i' \in 0..nr_pages' - 1
        BY <1>2, <2>1, <2>4
      <3> QED
        BY <1>2, <2>1, <2>4, <2>9, <3>1 DEF Entering
    <2> QED
      BY <2>1, <2>4, <2>5, <2>8, <2>9, <2>10 DEF SglExact, PinsCounted, NoBug
  <1>8. CASE FillLast
    <2>1. /\ pc \notin {"create", "oops"} /\ UNCHANGED <<call, max_pages>>
          /\ pc = "fill" /\ mapped_pages = nr_pages /\ i \in 1..nr_pages - 1
          /\ count = offset_in_page + len - i * PAGE_SIZE
          /\ \A k \in 0..i - 1 : sgl[k] = PartOfBuffer(k)
          /\ ~(i < nr_pages - 1)
      BY <1>8, <1>2 DEF FillLast, Filling
    <2>2. /\ i * PAGE_SIZE \in Int
          /\ offset_in_page + len <= i * PAGE_SIZE + PAGE_SIZE
          /\ PartOfBuffer(i) = [page |-> i, offset |-> 0, length |-> count]
      BY <1>2, <2>1, PartRest
    <2>3. ~(count > PAGE_SIZE)
      BY <1>2, <2>1, <2>2
    <2>4. sgl' = [sgl EXCEPT ![i] = PartOfBuffer(i)] /\ pc' = "returned"
      BY <1>8, <2>2, <2>3 DEF FillLast
    <2>5. PartOfBuffer(i) \in [page : Int, offset : Int, length : Int]
      BY <2>1, <2>2, <1>2 DEF TypeOK
    <2>6. TypeOK'
      BY <1>8, <1>2, <2>1, <2>4, <2>5 DEF FillLast, TypeOK, call, Objects
    <2>7. \A k \in 0..nr_pages - 1 : sgl'[k] = PartOfBuffer(k)
      BY <1>2, <2>1, <2>4 DEF TypeOK
    <2>8. SglExact'
      BY <1>8, <1>2, <2>1, <2>7 DEF FillLast, SglExact
    <2>9. UNCHANGED <<kernel, len, i, max_pages, mapped_pages, pinned>>
      BY <1>8 DEF FillLast, call
    <2>10. Entering'
      <3>1. i' \in 0..nr_pages' - 1
        BY <1>2, <2>1, <2>9
      <3> QED
        BY <1>2, <2>1, <2>4, <2>9, <3>1 DEF Entering
    <2> QED
      BY <2>1, <2>4, <2>6, <2>8, <2>9, <2>10 DEF Filling, PinsCounted, NoBug
  <1>9. CASE CheckMapped
    <2>1. pc \notin {"create", "oops"} /\ UNCHANGED <<call, max_pages>>
      BY <1>9 DEF CheckMapped
    <2> QED
      BY <1>9, <1>2, <2>1 DEF CheckMapped, TypeOK, call, Entering, Filling,
         SglExact, PinsCounted, NoBug
  <1>10. CASE PutUserPages
    <2>1. pc \notin {"create", "oops"} /\ UNCHANGED <<call, max_pages>>
      BY <1>10 DEF PutUserPages
    <2> QED
      BY <1>10, <1>2, <2>1 DEF PutUserPages, TypeOK, call, Entering, Filling,
         SglExact, PinsCounted, NoBug
  <1>11. CASE DestroyMapper
    <2>1. pc \notin {"create", "oops"} /\ UNCHANGED <<call, max_pages>>
      BY <1>11 DEF DestroyMapper
    <2> QED
      BY <1>11, <1>2, <2>1 DEF DestroyMapper, TypeOK, call, Entering, Filling,
         SglExact, PinsCounted, NoBug
  <1>12. CASE UNCHANGED vars
    <2>1. /\ UNCHANGED <<start, len>>
          /\ MaxPages(len)' = MaxPages(len)
      BY <1>12 DEF vars, MaxPages
    <2> QED
      BY <1>12, <2>1, SameGeometry DEF vars, TypeOK, Entering, Filling,
         SglExact, PinsCounted, NoBug
  <1> QED
    BY <1>1, <1>3, <1>4, <1>5, <1>6, <1>7, <1>8, <1>9, <1>10, <1>11, <1>12
       DEF Next
-----------------------------------------------------------------------------
(* The properties of SgMapper hold for every page size and every buffer:   *)
(* exact scatterlist, arrays large enough, no BUG_ON, references balanced. *)
THEOREM Safety == Spec => [](TypeOK /\ SglExact /\ TableFits /\ NoBug /\ PinsCounted)
  <1>1. IInv => TypeOK /\ SglExact /\ TableFits /\ NoBug /\ PinsCounted
    <2> SUFFICES ASSUME IInv
                 PROVE  TableFits
      BY DEF IInv
    <2> QED
      BY Geometry DEF IInv, TypeOK, Entering, TableFits
  <1> QED
    BY <1>1, InitIInv, StepIInv, PTL DEF Spec

(* The variables of the mapper keep their types on every path of a call.   *)
COROLLARY MapperTypes == Spec => []TypeOK
  BY Safety, PTL

(* The arrays of the mapper hold every page of every buffer.               *)
COROLLARY ArraysSuffice == Spec => []TableFits
  BY Safety, PTL

(* No BUG_ON on the bytes left or on pages still mapped fires.             *)
COROLLARY NoAssertionFires == Spec => []NoBug
  BY Safety, PTL

(* Every reference taken on a page is accounted for on every path.         *)
COROLLARY ReferencesBalance == Spec => []PinsCounted
  BY Safety, PTL
----------------------------------------------------------------------------
(***************************************************************************)
(* The composition implements SgMapper: neither pci_map_sg() nor the chain *)
(* builder touches the mapper, and the mapper is released in its turn.     *)
(***************************************************************************)
THEOREM UsesMapper == WriteSpec => Spec
  <1>1. WriteInit => Init
    BY DEF WriteInit
  <1>2. [WriteNext]_allVars => [Next]_vars
    <2> SUFFICES ASSUME [WriteNext]_allVars
                 PROVE  [Next]_vars
      OBVIOUS
    <2>1. CASE MapperStep
      BY <2>1 DEF MapperStep, Next
    <2>2. CASE MapSg
      BY <2>2 DEF MapSg
    <2>3. CASE BuildChain
      BY <2>3 DEF BuildChain
    <2>4. CASE Release
      BY <2>4 DEF Release, Next
    <2>5. CASE UNCHANGED allVars
      BY <2>5 DEF allVars
    <2> QED
      BY <2>1, <2>2, <2>3, <2>4, <2>5 DEF WriteNext
  <1> QED
    BY <1>1, <1>2, PTL DEF WriteSpec, Spec

(* What is proved of the mapper for every page size and every buffer holds *)
(* of the mapper inside a call of xpcie_h2c_write().                       *)
THEOREM MapperInCall ==
  WriteSpec => [](SglExact /\ TableFits /\ NoBug /\ PinsCounted)
  BY UsesMapper, Safety, PTL
----------------------------------------------------------------------------
(***************************************************************************)
(* PinnedWhileBuilt is inductive together with where the mapper is while   *)
(* the chain is built.                                                     *)
(***************************************************************************)
HasMapper ==
  /\ pc \in {"get", "out_unmap", "first", "fill", "returned", "mapped"}
       => heap = Objects
  /\ pc = "mapped" => ~kernel
Building == xpc \notin {"map_sg", "started"} => pc = "mapped"

WInv == HasMapper /\ Building /\ PinnedWhileBuilt

(* A call begins before pci_map_sg(), without a mapper and without a chain. *)
LEMMA InitWInv == WriteInit => WInv
  BY DEF WriteInit, Init, WInv, HasMapper, Building, PinnedWhileBuilt

(* The steps of the chain builder, seen from the mapper.                   *)
LEMMA ChainSteps ==
  ASSUME BuildChain
  PROVE  xpc \notin {"map_sg", "started"} /\ UNCHANGED <<vars, frame>>
  BY DEF BuildChain, X!DescAlloc, X!BuildEntry, X!BuildLast, X!Terminate,
     X!Adjacent, X!Start

(* Every step of xpcie_h2c_write() keeps the pages of a chain under        *)
(* construction pinned.                                                    *)
LEMMA StepWInv == PinsCounted /\ WInv /\ [WriteNext]_allVars => WInv'
  <1> SUFFICES ASSUME PinsCounted, WInv, [WriteNext]_allVars
               PROVE  WInv'
    OBVIOUS
  <1> USE DEF WInv
  <1>1. CASE MapperStep
    <2>1. UNCHANGED <<frame, xpc>>
      BY <1>1 DEF MapperStep, chain
    <2>2. pc # "mapped"
      BY <1>1 DEF MapperStep, CreateMapper, GetUserPages, OutUnmap,
         KernelPages, FillFirst, FillNext, FillLast, CheckMapped, DestroyMapper
    <2>3. HasMapper'
      BY <1>1 DEF MapperStep, CreateMapper, GetUserPages, OutUnmap,
         KernelPages, FillFirst, FillNext, FillLast, CheckMapped,
         DestroyMapper, HasMapper, call
    <2> QED
      BY <2>1, <2>2, <2>3 DEF Building, PinnedWhileBuilt
  <1>2. CASE MapSg
    <2>1. pc = "mapped" /\ UNCHANGED vars /\ DOMAIN frame' = Pages
      BY <1>2 DEF MapSg
    <2>2. pinned = Pages /\ heap = Objects
      BY <2>1 DEF PinsCounted, HasMapper, Pages
    <2> QED
      BY <2>1, <2>2 DEF HasMapper, Building, PinnedWhileBuilt, vars, call
  <1>3. CASE BuildChain
    BY <1>3, ChainSteps DEF HasMapper, Building, PinnedWhileBuilt, vars, call
  <1>4. CASE Release
    BY <1>4 DEF Release, PutUserPages, HasMapper, Building, PinnedWhileBuilt,
       chain, call
  <1>5. CASE UNCHANGED allVars
    BY <1>5 DEF allVars, chain, vars, call, HasMapper, Building,
       PinnedWhileBuilt
  <1> QED
    BY <1>1, <1>2, <1>3, <1>4, <1>5 DEF WriteNext

(***************************************************************************)
(* For every page size, every buffer, every placement of its pages and     *)
(* every failure: from pci_map_sg() to the start of the engine all pages   *)
(* the chain names are pinned, also in a thread that died in between.      *)
(***************************************************************************)
THEOREM BuiltOnPinnedPages == WriteSpec => []PinnedWhileBuilt
  <1>1. WInv => PinnedWhileBuilt
    BY DEF WInv
  <1> QED
    BY <1>1, InitWInv, StepWInv, MapperInCall, PTL DEF WriteSpec
----------------------------------------------------------------------------
(***************************************************************************)
(* From the pages to the list of bus addresses.  The pages of the buffer   *)
(* begin PAGE_SIZE apart, the first before the buffer and the last in it.  *)
(***************************************************************************)
LEMMA PageBases ==
  ASSUME start \in Nat, len \in Nat \ {0}
  PROVE  /\ \A k \in Int : PageBase(k) \in Int
         /\ \A k, m \in Int : k < m => PageBase(k) + PAGE_SIZE <= PageBase(m)
         /\ PageBase(0) + offset_in_page = start
         /\ start < PageBase(1)
         /\ PageBase(nr_pages - 1) < start + len
         /\ start + len <= PageBase(nr_pages)
  <1>1. PAGE_SIZE \in Nat \ {0} /\ first \in Nat /\ nr_pages \in Nat \ {0}
        /\ offset_in_page \in 0..PAGE_SIZE - 1
    BY Geometry, PageSizeAssumption
  <1>2. ASSUME NEW k \in Int
        PROVE  PageBase(k) = PAGE_SIZE * first + PAGE_SIZE * k
               /\ PageBase(k) \in Int
    BY <1>1 DEF PageBase
  <1>3. PAGE_SIZE * first \in Int
    BY <1>1
  <1>4. ASSUME NEW k \in Int, NEW m \in Int, k < m
        PROVE  PageBase(k) + PAGE_SIZE <= PageBase(m)
    <2> DEFINE f == PAGE_SIZE * first
               a == PAGE_SIZE * k
               b == PAGE_SIZE * m
    <2>1. a + PAGE_SIZE <= b
      BY <1>1, <1>4, MulMono
    <2>2. f \in Int /\ a \in Int /\ b \in Int
      BY <1>1
    <2>3. PageBase(k) = f + a /\ PageBase(m) = f + b
      BY <1>2
    <2> HIDE DEF f, a, b
    <2> QED
      BY <1>1, <2>1, <2>2, <2>3
  <1>5. /\ start = PAGE_SIZE * first + offset_in_page
        /\ PAGE_SIZE * (nr_pages - 1) < offset_in_page + len
        /\ offset_in_page + len <= PAGE_SIZE * nr_pages
    BY Geometry
  <1>6. PageBase(0) + offset_in_page = start /\ start < PageBase(1)
    <2>1. PageBase(0) = PAGE_SIZE * first
          /\ PageBase(1) = PAGE_SIZE * first + PAGE_SIZE
      BY <1>1 DEF PageBase
    <2> QED
      BY <2>1, <1>1, <1>3, <1>5
  <1>7. PageBase(nr_pages - 1) < start + len /\ start + len <= PageBase(nr_pages)
    <2>1. nr_pages - 1 \in Int /\ nr_pages \in Int
      BY <1>1
    <2>2. PageBase(nr_pages - 1) = PAGE_SIZE * first + PAGE_SIZE * (nr_pages - 1)
          /\ PageBase(nr_pages) = PAGE_SIZE * first + PAGE_SIZE * nr_pages
      BY <1>2, <2>1
    <2> QED
      BY <2>1, <2>2, <1>1, <1>3, <1>5
  <1> QED
    BY <1>2, <1>4, <1>6, <1>7

(* Where the part of the buffer in page k begins and ends.                 *)
Begin(k) == IF k = 0 THEN start ELSE PageBase(k)
End(k)   == IF k < nr_pages - 1 THEN PageBase(k + 1) ELSE start + len

(* The part of the buffer in page k, as PartOfBuffer() puts it, is that.   *)
LEMMA PageParts ==
  ASSUME start \in Nat, len \in Nat \ {0}, NEW k \in 0..nr_pages - 1
  PROVE  LET p == PartOfBuffer(k)
         IN  /\ p.offset \in Nat /\ p.length \in Int
             /\ PageBase(k) + p.offset = Begin(k)
             /\ PageBase(k) + p.offset + p.length = End(k)
  <1>1. /\ PAGE_SIZE \in Nat \ {0} /\ nr_pages \in Nat \ {0}
        /\ offset_in_page \in 0..PAGE_SIZE - 1
    BY Geometry, PageSizeAssumption
  <1> DEFINE n == nr_pages
             B == [x \in Int |-> PageBase(x)]
  <1>2. B \in [Int -> Int] /\ \A x, y \in Int : x < y => B[x] + PAGE_SIZE <= B[y]
    BY PageBases
  <1>3. /\ B[0] + offset_in_page = start /\ start < B[1]
        /\ B[n - 1] < start + len /\ start + len <= B[n]
    BY PageBases, <1>1
  <1>4. PageBase(k) = B[k] /\ PageBase(k + 1) = B[k + 1]
    BY <1>1
  <1> HIDE DEF B
  <1>5. Larger(start, PageBase(k)) = Begin(k) /\ Begin(k) \in Int
        /\ Begin(k) >= B[k]
    BY <1>1, <1>2, <1>3, <1>4 DEF Larger, Begin
  <1>6. Smaller(start + len, PageBase(k + 1)) = End(k) /\ End(k) \in Int
    <2>1. CASE k < n - 1
      <3>1. B[k + 1] <= B[n - 1]
        BY <2>1, <1>1, <1>2
      <3> QED
        BY <2>1, <3>1, <1>1, <1>2, <1>3, <1>4 DEF Smaller, End
    <2>2. CASE ~(k < n - 1)
      <3>1. k + 1 = n
        BY <2>2, <1>1
      <3> QED
        BY <2>2, <3>1, <1>1, <1>3, <1>4 DEF Smaller, End
    <2> QED
      BY <2>1, <2>2
  <1>7. /\ PartOfBuffer(k).offset = Begin(k) - B[k]
        /\ PartOfBuffer(k).length = End(k) - Begin(k)
    BY <1>4, <1>5, <1>6 DEF PartOfBuffer
  <1>8. B[k] \in Int
    BY <1>2
  <1> QED
    BY <1>4, <1>5, <1>6, <1>7, <1>8

(* The part of a page ends after the part of any page before it begins.    *)
LEMMA PartsOrdered ==
  ASSUME start \in Nat, len \in Nat \ {0},
         NEW k \in 0..nr_pages - 1, NEW m \in 0..nr_pages - 1, k <= m
  PROVE  /\ PageBase(k) \in Int /\ PageBase(m) \in Int
         /\ Begin(k) \in Int /\ Begin(k) >= start /\ Begin(k) >= PageBase(k)
         /\ End(m) \in Int /\ Begin(k) < End(m)
  <1>1. /\ PAGE_SIZE \in Nat \ {0} /\ nr_pages \in Nat \ {0}
        /\ offset_in_page \in 0..PAGE_SIZE - 1
    BY Geometry, PageSizeAssumption
  <1> DEFINE n == nr_pages
             B == [x \in Int |-> PageBase(x)]
  <1>2. B \in [Int -> Int] /\ \A x, y \in Int : x < y => B[x] + PAGE_SIZE <= B[y]
    BY PageBases
  <1>3. /\ B[0] + offset_in_page = start /\ start < B[1]
        /\ B[n - 1] < start + len /\ start + len <= B[n]
    BY PageBases, <1>1
  <1>4. PageBase(k) = B[k] /\ PageBase(m) = B[m] /\ PageBase(m + 1) = B[m + 1]
    BY <1>1
  <1> HIDE DEF B
  <1>5. /\ B[k] \in Int /\ B[m] \in Int /\ B[m + 1] \in Int
        /\ Begin(k) \in Int /\ Begin(k) >= start /\ Begin(k) >= B[k]
    BY <1>1, <1>2, <1>3, <1>4 DEF Begin
  <1>6. End(m) \in Int /\ Begin(k) < End(m)
    <2>1. CASE m < n - 1
      <3>1. B[k] < B[m + 1] /\ start < B[m + 1]
        BY <2>1, <1>1, <1>2, <1>3
      <3> QED
        BY <2>1, <3>1, <1>4, <1>5 DEF Begin, End
    <2>2. CASE ~(m < n - 1)
      <3>1. B[k] <= B[n - 1] /\ B[n - 1] \in Int
        BY <1>1, <1>2
      <3> QED
        BY <2>2, <3>1, <1>3, <1>4, <1>5 DEF Begin, End
    <2> QED
      BY <2>1, <2>2
  <1> QED
    BY <1>4, <1>5, <1>6

(***************************************************************************)
(* The entry of pages that follow each other in bus memory stands for the  *)
(* bytes of the buffer from the beginning of the first page's part to the  *)
(* end of the last page's.                                                 *)
(***************************************************************************)
LEMMA EntryFacts ==
  ASSUME start \in Nat, len \in Nat \ {0},
         NEW at \in [0..nr_pages - 1 -> Nat],
         NEW k \in 0..nr_pages - 1, NEW m \in 0..nr_pages - 1, k <= m,
         sgl[k] = PartOfBuffer(k), sgl[m] = PartOfBuffer(m),
         at[m] = at[k] + (m - k)
  PROVE  LET x == Entry(at, k, m)
         IN  /\ x \in [addr : Nat, len : Nat \ {0}, pos : Nat]
             /\ x.pos = Begin(k) - start
             /\ x.pos + x.len = End(m) - start
             /\ x.addr = at[k] * PAGE_SIZE + (Begin(k) - PageBase(k))
  <1>1. PAGE_SIZE \in Nat \ {0} /\ nr_pages \in Nat \ {0} /\ first \in Nat
    BY Geometry, PageSizeAssumption
  <1> DEFINE F == at[k] * PAGE_SIZE
             T == at[m] * PAGE_SIZE
             K == PageBase(k)
             M == PageBase(m)
             ko == sgl[k].offset
             mo == sgl[m].offset
             ml == sgl[m].length
             e == Entry(at, k, m)
  <1>2. /\ K \in Int /\ M \in Int
        /\ Begin(k) \in Int /\ Begin(k) >= start /\ Begin(k) >= K
        /\ End(m) \in Int /\ Begin(k) < End(m)
    BY PartsOrdered
  <1>3. F \in Nat /\ T = F + (M - K)
    <2>1. at[k] \in Nat /\ at[m] \in Nat
      OBVIOUS
    <2>2. T = F + (m - k) * PAGE_SIZE
      BY <1>1, <2>1
    <2>3. M - K = (m - k) * PAGE_SIZE
      BY <1>1 DEF PageBase
    <2>4. F \in Nat
      BY <1>1, <2>1
    <2> QED
      BY <2>2, <2>3, <2>4
  <1>4. ko \in Nat /\ K + ko = Begin(k)
    BY PageParts
  <1>5. mo \in Nat /\ ml \in Int /\ M + mo + ml = End(m)
    BY PageParts
  <1>6. e = [addr |-> F + ko, len |-> (T + mo + ml) - (F + ko),
             pos |-> IF k = 0 THEN 0 ELSE K - start]
    BY DEF Entry
  <1> HIDE DEF F, T, K, M, ko, mo, ml, e
  <1>7. F + ko = F + (Begin(k) - K) /\ F + ko \in Nat
    BY <1>2, <1>3, <1>4
  <1>8. (T + mo + ml) - (F + ko) = End(m) - Begin(k)
        /\ End(m) - Begin(k) \in Nat \ {0}
    BY <1>2, <1>3, <1>4, <1>5
  <1>9. (IF k = 0 THEN 0 ELSE K - start) = Begin(k) - start
        /\ Begin(k) - start \in Nat
    BY <1>2 DEF Begin, K
  <1>10. e = [addr |-> F + (Begin(k) - K), len |-> End(m) - Begin(k),
              pos |-> Begin(k) - start]
    BY <1>6, <1>7, <1>8, <1>9, Zenon
  <1>11. /\ e.addr = F + (Begin(k) - K) /\ e.len = End(m) - Begin(k)
         /\ e.pos = Begin(k) - start
    BY <1>10
  <1>12. e \in [addr : Nat, len : Nat \ {0}, pos : Nat]
    <2>1. F + (Begin(k) - K) \in Nat
      BY <1>7
    <2> QED
      BY <2>1, <1>8, <1>9, <1>10
  <1>13. e.pos + e.len = End(m) - start
    BY <1>2, <1>11
  <1> QED
    BY <1>11, <1>12, <1>13 DEF e, F, K

(* An entry has a page, and its pages follow each other.                   *)
LEMMA CutFacts ==
  ASSUME mapped_pages \in Nat, NEW at \in [Pages -> Frames],
         NEW n \in 1..mapped_pages, NEW head \in Cuts(at, n),
         NEW e \in 0..n - 1
  PROVE  /\ head[e] \in Pages /\ LastPage(n, head, e) \in Pages
         /\ head[e] <= LastPage(n, head, e)
         /\ \A q \in head[e]..LastPage(n, head, e) :
              at[q] = at[head[e]] + (q - head[e])
  <1>1. /\ head \in [0..n - 1 -> Pages]
        /\ \A d, x \in 0..n - 1 : d < x => head[d] < head[x]
        /\ \A q \in head[e]..LastPage(n, head, e) :
             at[q] = at[head[e]] + (q - head[e])
    BY DEF Cuts
  <1>2. \A d \in 0..n - 1 : head[d] \in 0..mapped_pages - 1
    BY <1>1 DEF Pages
  <1>3. n \in Nat /\ e \in Nat
    OBVIOUS
  <1>4. CASE e < n - 1
    <2>1. e + 1 \in 0..n - 1 /\ LastPage(n, head, e) = head[e + 1] - 1
      BY <1>3, <1>4 DEF LastPage
    <2>2. head[e] < head[e + 1] /\ head[e] \in 0..mapped_pages - 1
          /\ head[e + 1] \in 0..mapped_pages - 1
      BY <1>1, <1>2, <1>3, <2>1
    <2> QED
      BY <1>1, <2>1, <2>2 DEF Pages
  <1>5. CASE ~(e < n - 1)
    <2>1. LastPage(n, head, e) = mapped_pages - 1
      BY <1>5 DEF LastPage
    <2>2. head[e] \in 0..mapped_pages - 1
      BY <1>2
    <2> QED
      BY <1>1, <2>1, <2>2 DEF Pages
  <1> QED
    BY <1>4, <1>5

(* Byte b of the buffer, which lies in the pages k to m of one entry, is   *)
(* found in bus memory as far behind page k as in the buffer.              *)
LEMMA ByteInEntry ==
  ASSUME start \in Nat, len \in Nat \ {0},
         NEW at \in [0..nr_pages - 1 -> Nat],
         NEW k \in 0..nr_pages - 1, NEW m \in 0..nr_pages - 1, k <= m,
         \A q \in k..m : at[q] = at[k] + (q - k),
         NEW b \in Nat, Begin(k) <= start + b, start + b < End(m)
  PROVE  at[((start + b) \div PAGE_SIZE) - first] * PAGE_SIZE
           + ((start + b) % PAGE_SIZE)
         = at[k] * PAGE_SIZE + ((start + b) - PageBase(k))
  <1> DEFINE P == PAGE_SIZE
             a == start + b
             p == a \div P
             r == a % P
             q == p - first
  <1>1. P \in Nat \ {0} /\ nr_pages \in Nat \ {0} /\ first \in Nat
    BY Geometry, PageSizeAssumption
  <1>2. a \in Nat
    OBVIOUS
  <1>3. p \in Nat /\ r \in 0..P - 1 /\ a = P * p + r
    BY <1>1, <1>2, DivMod
  <1>4. PageBase(k) <= a /\ PageBase(k) \in Int
    BY <1>2, PartsOrdered
  <1>5. a < PageBase(m + 1) /\ PageBase(m + 1) \in Int
    <2>1. /\ start + len <= PageBase(nr_pages)
          /\ \A x \in Int : PageBase(x) \in Int
      BY PageBases
    <2>2. CASE m < nr_pages - 1
      BY <2>1, <2>2, <1>1 DEF End
    <2>3. CASE ~(m < nr_pages - 1)
      <3>1. m + 1 = nr_pages
        BY <2>3, <1>1
      <3>2. a < start + len
        BY <2>3 DEF End
      <3>3. PageBase(nr_pages) \in Int
        BY <2>1, <1>1
      <3> QED
        BY <2>1, <3>1, <3>2, <3>3, <1>2
    <2> QED
      BY <2>2, <2>3
  <1>6. /\ PageBase(k) = P * (first + k) /\ PageBase(m + 1) = P * (first + m + 1)
        /\ P * p \in Int
    BY <1>1, <1>3 DEF PageBase
  <1> HIDE DEF a, p, r
  <1>7. first + k <= p
    <2>1. P * (first + k) < P * (p + 1)
      <3>1. P * (p + 1) = P * p + P
        BY <1>1, <1>3
      <3>2. P * (p + 1) \in Int /\ P * (first + k) \in Int
        BY <1>1, <1>3
      <3> DEFINE u == P * p
                 v == P * (p + 1)
                 w == P * (first + k)
      <3>3. a = u + r /\ u \in Int /\ v = u + P /\ w <= a
        BY <1>3, <1>4, <1>6, <3>1
      <3>4. v \in Int /\ w \in Int
        BY <3>2
      <3> HIDE DEF u, v, w
      <3>5. w < v
        BY <1>1, <1>3, <3>3, <3>4
      <3> QED
        BY <3>5 DEF v, w
    <2>2. first + k < p + 1
      BY <2>1, <1>1, <1>3, MulCancel
    <2> QED
      BY <2>2, <1>1, <1>3
  <1>8. p < first + m + 1
    <2>1. P * p < P * (first + m + 1)
      <3> DEFINE u == P * p
                 w == P * (first + m + 1)
      <3>1. a = u + r /\ u \in Int /\ a < w
        BY <1>3, <1>5, <1>6
      <3>2. w \in Int
        BY <1>1
      <3> HIDE DEF u, w
      <3>3. u < w
        BY <1>1, <1>3, <3>1, <3>2
      <3> QED
        BY <3>3 DEF u, w
    <2> QED
      BY <2>1, <1>1, <1>3, MulCancel
  <1>9. q \in k..m /\ first + q = p
    BY <1>1, <1>3, <1>7, <1>8
  <1> HIDE DEF q
  <1>10. at[q] = at[k] + (q - k) /\ at[k] \in Nat /\ q \in Int
    BY <1>9
  <1>11. at[q] * P = at[k] * P + (P * p - P * (first + k))
    <2>1. q - k = p - (first + k)
      BY <1>1, <1>3, <1>9, <1>10
    <2>2. at[q] = at[k] + (p - (first + k))
      BY <2>1, <1>10
    <2> QED
      BY <2>2, <1>1, <1>3, <1>10
  <1>12. at[q] * P + r = at[k] * P + (a - PageBase(k))
    <2>1. at[k] * P \in Int /\ P * (first + k) \in Int
      BY <1>1, <1>10
    <2> QED
      BY <2>1, <1>2, <1>3, <1>6, <1>11
  <1> QED
    BY <1>12 DEF q, p, r, a

(* Byte b of the buffer is in entry x.                                     *)
Holds(x, b) == x.pos <= b /\ b < x.pos + x.len

(***************************************************************************)
(* However pci_map_sg() places and merges the pages of a filled table, its *)
(* entries follow each other from the first byte of the buffer to the last *)
(* and lead each byte to where its page was placed.                        *)
(***************************************************************************)
LEMMA ListMade ==
  ASSUME start \in Nat, len \in Nat \ {0}, mapped_pages = nr_pages,
         \A x \in 0..nr_pages - 1 : sgl[x] = PartOfBuffer(x),
         NEW at \in [Pages -> Frames], NEW n \in 1..mapped_pages,
         NEW head \in Cuts(at, n)
  PROVE  LET L == Mapped(at, n, head)
         IN  /\ L \in [0..n - 1 -> [addr : Nat, len : Nat \ {0}, pos : Nat]]
             /\ L[0].pos = 0
             /\ \A e \in 0..n - 2 : L[e + 1].pos = L[e].pos + L[e].len
             /\ L[n - 1].pos + L[n - 1].len = len
             /\ \A e \in 0..n - 1, b \in Nat : Holds(L[e], b) =>
                  at[((start + b) \div PAGE_SIZE) - first] * PAGE_SIZE
                    + ((start + b) % PAGE_SIZE) = L[e].addr + (b - L[e].pos)
  <1> DEFINE L  == Mapped(at, n, head)
             m(e) == LastPage(n, head, e)
             R  == [addr : Nat, len : Nat \ {0}, pos : Nat]
  <1>1. nr_pages \in Nat \ {0} /\ n \in Nat \ {0}
    BY Geometry
  <1>2. at \in [0..nr_pages - 1 -> Nat]
    BY TransferAssumption DEF Pages
  <1>3. \A e \in 0..n - 1 : L[e] = Entry(at, head[e], m(e))
    BY DEF Mapped
  <1>4. DOMAIN L = 0..n - 1 /\ L = [e \in 0..n - 1 |-> L[e]]
    BY DEF Mapped
  <1> HIDE DEF L
  <1>5. ASSUME NEW e \in 0..n - 1
        PROVE  /\ head[e] \in 0..nr_pages - 1 /\ m(e) \in 0..nr_pages - 1
               /\ head[e] <= m(e)
               /\ \A q \in head[e]..m(e) : at[q] = at[head[e]] + (q - head[e])
    <2>1. /\ head[e] \in Pages /\ m(e) \in Pages /\ head[e] <= m(e)
          /\ \A q \in head[e]..m(e) : at[q] = at[head[e]] + (q - head[e])
      BY <1>1, CutFacts
    <2> QED
      BY <2>1 DEF Pages
  <1>6. ASSUME NEW e \in 0..n - 1
        PROVE  /\ L[e] \in R /\ L[e].pos = Begin(head[e]) - start
               /\ L[e].pos + L[e].len = End(m(e)) - start
               /\ L[e].addr = at[head[e]] * PAGE_SIZE
                               + (Begin(head[e]) - PageBase(head[e]))
    <2> DEFINE k == head[e]
               l == m(e)
    <2>1. k \in 0..nr_pages - 1 /\ l \in 0..nr_pages - 1 /\ k <= l
          /\ at[l] = at[k] + (l - k)
      BY <1>5
    <2>2. L[e] = Entry(at, k, l)
      BY <1>3
    <2> HIDE DEF m, k, l
    <2>3. sgl[k] = PartOfBuffer(k) /\ sgl[l] = PartOfBuffer(l)
      BY <2>1
    <2>4. /\ Entry(at, k, l) \in R
          /\ Entry(at, k, l).pos = Begin(k) - start
          /\ Entry(at, k, l).pos + Entry(at, k, l).len = End(l) - start
          /\ Entry(at, k, l).addr = at[k] * PAGE_SIZE + (Begin(k) - PageBase(k))
      BY <1>2, <2>1, <2>3, EntryFacts
    <2> QED
      BY <2>2, <2>4 DEF k, l
  <1>7. L \in [0..n - 1 -> R]
    BY <1>4, <1>6
  <1>8. head[0] = 0 /\ L[0].pos = 0
    <2>1. head[0] = 0
      BY DEF Cuts
    <2>2. L[0].pos = Begin(0) - start
      BY <1>1, <1>6, <2>1
    <2> QED
      BY <2>1, <2>2 DEF Begin
  <1>9. ASSUME NEW e \in 0..n - 2
        PROVE  L[e + 1].pos = L[e].pos + L[e].len
    <2>1. e \in 0..n - 1 /\ e + 1 \in 0..n - 1 /\ 0 \in 0..n - 1 /\ 0 < e + 1
          /\ m(e) = head[e + 1] - 1
      BY <1>1 DEF LastPage
    <2>2. head[e + 1] \in 0..nr_pages - 1 /\ head[0] < head[e + 1]
      BY <2>1, <1>5 DEF Cuts
    <2>3. Begin(head[e + 1]) = PageBase(head[e + 1])
      BY <2>2, <1>8 DEF Begin
    <2>4. End(m(e)) = PageBase(head[e + 1])
      BY <2>1, <2>2, <1>1 DEF End
    <2> QED
      BY <2>1, <2>3, <2>4, <1>6
  <1>10. L[n - 1].pos + L[n - 1].len = len
    <2>1. n - 1 \in 0..n - 1 /\ m(n - 1) = nr_pages - 1
      BY <1>1 DEF LastPage
    <2>2. End(m(n - 1)) = start + len
      BY <2>1, <1>1 DEF End
    <2> QED
      BY <2>1, <2>2, <1>6
  <1>11. ASSUME NEW e \in 0..n - 1, NEW b \in Nat, Holds(L[e], b)
         PROVE  at[((start + b) \div PAGE_SIZE) - first] * PAGE_SIZE
                  + ((start + b) % PAGE_SIZE) = L[e].addr + (b - L[e].pos)
    <2> DEFINE k == head[e]
               F == at[k] * PAGE_SIZE
               l == m(e)
               B == Begin(k)
               K == PageBase(k)
               E == End(l)
    <2>1. k \in 0..nr_pages - 1 /\ l \in 0..nr_pages - 1 /\ k <= l
          /\ \A q \in k..l : at[q] = at[k] + (q - k)
      BY <1>5
    <2>2. B \in Int /\ K \in Int /\ E \in Int
      BY <2>1, PartsOrdered
    <2>3. /\ L[e].pos = B - start /\ L[e].pos + L[e].len = E - start
          /\ L[e].addr = F + (B - K)
      BY <1>6
    <2>4. F \in Int
      BY <1>2, <2>1, PageSizeAssumption
    <2> HIDE DEF m, F, k, l
    <2>5. B <= start + b /\ start + b < E
      BY <1>11, <2>2, <2>3 DEF Holds
    <2>6. at[((start + b) \div PAGE_SIZE) - first] * PAGE_SIZE
            + ((start + b) % PAGE_SIZE) = F + ((start + b) - K)
      BY <1>2, <2>1, <2>5, ByteInEntry DEF F
    <2>7. L[e].addr + (b - L[e].pos) = F + ((start + b) - K)
      <3> HIDE DEF B, K, E
      <3> QED
        BY <2>2, <2>3, <2>4
    <2> QED
      BY <2>6, <2>7
  <1> QED
    BY <1>7, <1>8, <1>9, <1>10, <1>11 DEF L
----------------------------------------------------------------------------
(***************************************************************************)
(* The invariant of the whole call: the table stays filled until it is     *)
(* mapped; the chain is not begun before; from then on the list leads to   *)
(* the buffer, and the chain builder is in a state its own proof allows.   *)
(***************************************************************************)
Filled ==
  /\ len \in Counts
  /\ pc = "mapped" =>
       /\ len # 0 /\ mapped_pages = nr_pages /\ mapped_pages <= MaxPages(len)
       /\ \A k \in 0..nr_pages - 1 : sgl[k] = PartOfBuffer(k)

NotBegun ==
  xpc = "map_sg" =>
    /\ ppos \in Nat /\ ep_addr = ppos /\ xi = 0 /\ j = 0
    /\ addr = 0 /\ cont_addr = 0 /\ cont_len = 0
    /\ desc = XP!NoDescs /\ desc_bus = 0 /\ desc_num = 0
    /\ first_desc = XP!NoFirst

Placed ==
  xpc # "map_sg" =>
    /\ \E n \in 1..MaxEntries : /\ DOMAIN dsgl = 0..n - 1
                                /\ dsgl[n - 1].pos + dsgl[n - 1].len = len
    /\ \A e \in DOMAIN dsgl, b \in 0..len - 1 :
         Holds(dsgl[e], b) => BusByte(b) = dsgl[e].addr + (b - dsgl[e].pos)

CInv == Filled /\ NotBegun /\ Placed /\ (xpc # "map_sg" => XP!IInv)

(* A call begins with no list, no chain and a position it may write to.    *)
LEMMA InitCInv == WriteInit => CInv
  BY TransferAssumption
     DEF WriteInit, Init, CInv, Filled, NotBegun, Placed, X!NoDescs, XP!NoDescs,
     X!NoFirst, XP!NoFirst, X!Split, XP!Split

(* pci_map_sg() gives the chain builder a list it can work with.           *)
LEMMA MapSgCInv ==
  ASSUME IInv, CInv, MapSg
  PROVE  CInv'
  <1>1. /\ pc = "mapped" /\ xpc = "map_sg" /\ xpc' = "alloc"
        /\ UNCHANGED <<vars, ppos, ep_addr, xi, j, addr, cont_addr, cont_len,
                       desc, desc_bus, desc_num, first_desc>>
    BY DEF MapSg, build
  <1>2. PICK at \in [Pages -> Frames] : frame' = at
    BY DEF MapSg
  <1>2a. PICK n \in 1..mapped_pages : \E head \in Cuts(at, n) :
          dsgl' = Mapped(at, n, head) /\ sgl_nents' \in {0, n}
    BY <1>2 DEF MapSg
  <1>3. PICK head \in Cuts(at, n) :
          dsgl' = Mapped(at, n, head) /\ sgl_nents' \in {0, n}
    BY <1>2a
  <1>4. /\ start \in Nat /\ len \in Nat \ {0} /\ len \in Counts
        /\ mapped_pages = nr_pages /\ mapped_pages <= MaxPages(len)
        /\ \A k \in 0..nr_pages - 1 : sgl[k] = PartOfBuffer(k)
    BY <1>1 DEF IInv, TypeOK, CInv, Filled
  <1>5. n \in 1..MaxEntries /\ n \in Nat
    <2>1. MaxPages(len) <= MaxEntries /\ MaxEntries \in Nat
      BY <1>4, TransferAssumption
    <2>2. mapped_pages \in Nat /\ MaxPages(len) \in Nat
      BY <1>4, Geometry
    <2> QED
      BY <1>4, <2>1, <2>2
  <1>6. /\ dsgl' \in [0..n - 1 -> [addr : Nat, len : Nat \ {0}, pos : Nat]]
        /\ dsgl'[0].pos = 0
        /\ \A e \in 0..n - 2 : dsgl'[e + 1].pos = dsgl'[e].pos + dsgl'[e].len
        /\ dsgl'[n - 1].pos + dsgl'[n - 1].len = len
        /\ \A e \in 0..n - 1, b \in Nat : Holds(dsgl'[e], b) =>
             frame'[((start + b) \div PAGE_SIZE) - first] * PAGE_SIZE
               + ((start + b) % PAGE_SIZE) = dsgl'[e].addr + (b - dsgl'[e].pos)
    <2> DEFINE L == Mapped(at, n, head)
    <2>1. /\ L \in [0..n - 1 -> [addr : Nat, len : Nat \ {0}, pos : Nat]]
          /\ L[0].pos = 0
          /\ \A e \in 0..n - 2 : L[e + 1].pos = L[e].pos + L[e].len
          /\ L[n - 1].pos + L[n - 1].len = len
          /\ \A e \in 0..n - 1, b \in Nat : Holds(L[e], b) =>
               at[((start + b) \div PAGE_SIZE) - first] * PAGE_SIZE
                 + ((start + b) % PAGE_SIZE) = L[e].addr + (b - L[e].pos)
      BY <1>4, ListMade, Zenon
    <2>2. frame' = at /\ dsgl' = L
      BY <1>2, <1>3
    <2> HIDE DEF L
    <2> QED
      BY <2>1, <2>2, Zenon
  <1>7. Placed'
    <2>1. start' = start /\ len' = len
      BY <1>1 DEF vars
    <2>2. \A b : BusByte(b)' = frame'[((start + b) \div PAGE_SIZE) - first]
                                 * PAGE_SIZE + ((start + b) % PAGE_SIZE)
      BY <2>1 DEF BusByte, first
    <2>3. DOMAIN dsgl' = 0..n - 1
      BY <1>6
    <2>4. \A e \in DOMAIN dsgl', b \in 0..len' - 1 :
            Holds(dsgl'[e], b) => BusByte(b)' = dsgl'[e].addr + (b - dsgl'[e].pos)
      <3> SUFFICES ASSUME NEW e \in DOMAIN dsgl', NEW b \in 0..len' - 1,
                          Holds(dsgl'[e], b)
                   PROVE  BusByte(b)' = dsgl'[e].addr + (b - dsgl'[e].pos)
        OBVIOUS
      <3>1. e \in 0..n - 1 /\ b \in Nat
        BY <1>4, <2>1, <2>3
      <3> QED
        BY <1>6, <2>2, <3>1, Zenon
    <2> QED
      BY <1>5, <1>6, <2>1, <2>3, <2>4 DEF Placed, Holds
  <1>8. Filled' /\ NotBegun'
    BY <1>1 DEF CInv, Filled, NotBegun, vars, nr_pages, first, last,
       PartOfBuffer, PageBase
  <1>9. XP!IInv'
    <2>1. XP!IsSGL(dsgl')
      BY <1>5, <1>6 DEF XP!IsSGL
    <2>2. /\ ppos' \in Nat /\ ep_addr' = ppos' /\ xi' = 0 /\ j' = 0
          /\ addr' = 0 /\ cont_addr' = 0 /\ cont_len' = 0
          /\ desc' = XP!NoDescs /\ desc_bus' = 0 /\ desc_num' = 0
          /\ first_desc' = XP!NoFirst
      BY <1>1 DEF CInv, NotBegun
    <2>3. XP!NoFirst \in [adj : Int, addr : XP!Words]
      <3>1. XP!Split(0) \in XP!Words
        BY TransferAssumption, PageSizeAssumption, XP!SplitJoin
      <3> QED
        BY <3>1 DEF XP!NoFirst
    <2>4. sgl_nents' \in Nat /\ (sgl_nents' = 0 \/ DOMAIN dsgl' = 0..sgl_nents' - 1)
      BY <1>3, <1>5, <1>6
    <2> QED
      BY <1>1, <2>1, <2>2, <2>3, <2>4
         DEF XP!IInv, XP!TypeOK, XP!Fresh, XP!Allocated, XP!Linked,
         XP!Collecting, XP!Stored, XP!Limits, XP!Prefetch, XP!Building, XP!Built
  <1> QED
    BY <1>7, <1>8, <1>9 DEF CInv

(* The chain builder in the call takes the steps of XdmaTransfer.          *)
LEMMA BuilderSteps ==
  ASSUME BuildChain
  PROVE  XP!Next
  <1>1. X!DescAlloc => XP!DescAlloc
    BY DEF X!DescAlloc, XP!DescAlloc, X!NewDescs, XP!NewDescs, X!input, XP!input,
       X!MinOf, XP!MinOf, X!Split, XP!Split
  <1>2. X!BuildEntry => XP!BuildEntry
    BY DEF X!BuildEntry, XP!BuildEntry, X!NewDesc, XP!NewDesc, X!DescSet,
       XP!DescSet, X!input, XP!input, X!Split, XP!Split
  <1>3. X!BuildLast => XP!BuildLast
    BY DEF X!BuildLast, XP!BuildLast, X!DescSet, XP!DescSet, X!input, XP!input,
       X!Split, XP!Split
  <1>4. X!Terminate => XP!Terminate
    BY DEF X!Terminate, XP!Terminate, X!input, XP!input, X!build, XP!build,
       X!Split, XP!Split
  <1>5. X!Adjacent => XP!Adjacent
    BY DEF X!Adjacent, XP!Adjacent, X!input, XP!input, X!build, XP!build,
       X!ExtraAdj, XP!ExtraAdj, X!MinOf, XP!MinOf
  <1>6. X!Start => XP!Start
    BY DEF X!Start, XP!Start, X!input, XP!input, X!build, XP!build, X!MinOf,
       XP!MinOf, X!Split, XP!Split
  <1> QED
    BY <1>1, <1>2, <1>3, <1>4, <1>5, <1>6 DEF BuildChain, XP!Next

(* ... and leaves the list and what it was made from alone.                *)
LEMMA BuilderLeaves ==
  ASSUME BuildChain
  PROVE  /\ UNCHANGED <<vars, frame, dsgl>>
         /\ xpc # "map_sg" /\ xpc' # "map_sg"
  BY DEF BuildChain, X!DescAlloc, X!BuildEntry, X!BuildLast, X!Terminate,
     X!Adjacent, X!Start, X!input

(* The mapper reaches "mapped" with a full table only.                     *)
LEMMA FilledKept ==
  ASSUME IInv, Filled, [Next]_vars
  PROVE  Filled'
  <1>1. UNCHANGED <<start, len>>
    BY DEF Next, CreateMapper, GetUserPages, OutUnmap, KernelPages, FillFirst,
       FillNext, FillLast, CheckMapped, PutUserPages, DestroyMapper, call, vars
  <1>2. nr_pages' = nr_pages /\ \A k : PartOfBuffer(k)' = PartOfBuffer(k)
    BY <1>1, SameGeometry
  <1>3. CASE CheckMapped
    <2>1. /\ pc = "returned" /\ pc' = IF mapped_pages = 0 THEN "bug_unmapped"
                                                         ELSE "mapped"
          /\ UNCHANGED <<mapped_pages, sgl>>
      BY <1>3 DEF CheckMapped
    <2>2. CASE mapped_pages # 0
      <3>1. mapped_pages > 0 /\ start \in Nat /\ len \in Nat \ {0}
        BY <2>1, <2>2 DEF IInv, TypeOK, Entering
      <3>2. /\ mapped_pages = nr_pages
            /\ \A k \in 0..nr_pages - 1 : sgl[k] = PartOfBuffer(k)
        BY <2>1, <3>1 DEF IInv, SglExact
      <3>3. nr_pages <= MaxPages(len)
        BY <3>1, Geometry
      <3> QED
        BY <1>1, <1>2, <2>1, <3>1, <3>2, <3>3 DEF Filled, MaxPages
    <2>3. CASE mapped_pages = 0
      BY <1>1, <2>1, <2>3 DEF Filled
    <2> QED
      BY <2>2, <2>3
  <1>4. CASE UNCHANGED vars
    BY <1>1, <1>2, <1>4 DEF Filled, vars, MaxPages
  <1>5. CASE ~CheckMapped /\ ~UNCHANGED vars
    <2>1. pc' # "mapped"
      BY <1>5 DEF Next, CreateMapper, GetUserPages, OutUnmap, KernelPages,
         FillFirst, FillNext, FillLast, PutUserPages, DestroyMapper
    <2> QED
      BY <1>1, <2>1 DEF Filled
  <1> QED
    BY <1>3, <1>4, <1>5

(* Every step of the call keeps its invariant.                             *)
LEMMA StepCInv == IInv /\ CInv /\ [WriteNext]_allVars => CInv'
  <1> SUFFICES ASSUME IInv, CInv, [WriteNext]_allVars
               PROVE  CInv'
    OBVIOUS
  <1>1. CASE MapSg
    BY <1>1, MapSgCInv
  <1>2. CASE BuildChain
    <2>1. XP!IInv'
      BY <1>2, BuilderSteps, BuilderLeaves, XP!StepIInv, TransferAssumption,
         PageSizeAssumption DEF CInv
    <2>2. Filled' /\ Placed' /\ NotBegun'
      BY <1>2, BuilderLeaves DEF CInv, Filled, Placed, NotBegun, BusByte, vars,
         nr_pages, first, last, PartOfBuffer, PageBase
    <2> QED
      BY <2>1, <2>2 DEF CInv
  <1>3. CASE MapperStep \/ Release \/ UNCHANGED allVars
    <2>1. [Next]_vars /\ UNCHANGED <<frame, chain>>
      BY <1>3 DEF MapperStep, Release, Next, allVars
    <2>2. UNCHANGED <<start, len>>
      BY <2>1 DEF Next, CreateMapper, GetUserPages, OutUnmap, KernelPages,
         FillFirst, FillNext, FillLast, CheckMapped, PutUserPages,
         DestroyMapper, call, vars
    <2>3. Filled'
      BY <2>1, FilledKept DEF CInv
    <2>4. Placed' /\ NotBegun' /\ UNCHANGED xpc
      BY <2>1, <2>2 DEF CInv, Placed, NotBegun, BusByte, first, chain, build
    <2>5. UNCHANGED XP!vars
      BY <2>1 DEF chain, build, XP!vars, XP!input, XP!build
    <2>6. xpc # "map_sg" => XP!IInv'
      BY <2>5, XP!StepIInv, TransferAssumption, PageSizeAssumption DEF CInv
    <2> QED
      BY <2>3, <2>4, <2>6 DEF CInv
  <1> QED
    BY <1>1, <1>2, <1>3 DEF WriteNext

(* The invariants of the mapper, of the chain builder and of what joins    *)
(* them hold throughout a call.                                            *)
THEOREM CallInvariant == WriteSpec => [](IInv /\ CInv)
  <1>1. [WriteNext]_allVars => [Next]_vars
    BY DEF WriteNext, MapperStep, MapSg, BuildChain, Release, allVars, Next
  <1>2. WriteInit => Init
    BY DEF WriteInit
  <1> QED
    BY <1>1, <1>2, InitIInv, StepIInv, InitCInv, StepCInv, PTL DEF WriteSpec

(***************************************************************************)
(* For every buffer, page size and placement, what the chain builder takes *)
(* for granted of its list is what the mapper and pci_map_sg() give it.    *)
(***************************************************************************)
THEOREM ListIsAsAssumed == WriteSpec => []ListFollows
  <1>1. CInv => ListFollows
    <2> SUFFICES ASSUME CInv, xpc # "map_sg"
                 PROVE  /\ X!IsSGL(dsgl)
                        /\ \A e \in DOMAIN dsgl : \/ e + 1 \in DOMAIN dsgl
                                                  \/ dsgl[e].pos + dsgl[e].len = len
      BY DEF ListFollows
    <2>1. X!IsSGL(dsgl)
      BY DEF CInv, XP!IInv, XP!TypeOK, XP!IsSGL, X!IsSGL
    <2>2. PICK n \in 1..MaxEntries : /\ DOMAIN dsgl = 0..n - 1
                                     /\ dsgl[n - 1].pos + dsgl[n - 1].len = len
      BY DEF CInv, Placed
    <2>3. \A e \in 0..n - 1 : e + 1 \in 0..n - 1 \/ e = n - 1
      OBVIOUS
    <2> QED
      BY <2>1, <2>2, <2>3
  <1> QED
    BY <1>1, CallInvariant, PTL
----------------------------------------------------------------------------
(***************************************************************************)
(* Where descriptor d begins to store, in the end point.                   *)
(***************************************************************************)
Dst(d) == X!Join(desc[d].dst)

(* The descriptors of a started chain begin at f[0], f[1], ... in the end  *)
(* point, each where the one before ends, from *ppos to *ppos + len.       *)
LEMMA ChainTiles ==
  ASSUME CInv, xpc = "started", len \in Nat
  PROVE  \E f \in [0..desc_num -> Int] :
           /\ f[0] = ppos /\ f[desc_num] = ppos + len
           /\ \A d \in 0..desc_num - 1 :
                /\ f[d] = Dst(d) /\ f[d + 1] = Dst(d) + desc[d].bytes
                /\ desc[d].bytes \in Nat
  <1>1. XP!IInv /\ ppos \in Nat
    BY DEF CInv, XP!IInv, XP!TypeOK
  <1>2. /\ sgl_nents \in Nat /\ sgl_nents >= 1 /\ DOMAIN dsgl = 0..sgl_nents - 1
        /\ desc \in [0..sgl_nents - 1 -> XP!Descs]
        /\ xi = sgl_nents - 1 /\ j \in 0..xi /\ desc_num = j + 1
        /\ XP!Tiled(j + 1, ppos + dsgl[xi].pos + dsgl[xi].len)
    BY <1>1 DEF XP!IInv, XP!TypeOK, XP!Allocated, XP!Stored, XP!Building, XP!Built
  <1>3. dsgl[xi].pos + dsgl[xi].len = len /\ dsgl[xi].pos \in Nat
        /\ dsgl[xi].len \in Nat
    <2>1. PICK n \in 1..MaxEntries : /\ DOMAIN dsgl = 0..n - 1
                                     /\ dsgl[n - 1].pos + dsgl[n - 1].len = len
      BY DEF CInv, Placed
    <2>2. n \in Nat /\ n >= 1
      BY TransferAssumption
    <2>3. n = sgl_nents
      <3>1. n - 1 \in 0..sgl_nents - 1 /\ sgl_nents - 1 \in 0..n - 1
        BY <1>2, <2>1, <2>2
      <3> QED
        BY <3>1, <1>2, <2>2
    <2>4. PICK k \in 1..MaxEntries :
            dsgl \in [0..k - 1 -> [addr : Nat, len : Nat \ {0}, pos : Nat]]
      BY <1>1 DEF XP!IInv, XP!TypeOK, XP!IsSGL
    <2>5. dsgl[xi] \in [addr : Nat, len : Nat \ {0}, pos : Nat]
      BY <1>2, <2>4
    <2> QED
      BY <1>2, <2>1, <2>3, <2>5
  <1> DEFINE end == ppos + dsgl[xi].pos + dsgl[xi].len
             m == j + 1
             f == [d \in 0..m |-> XP!Dst(d, m, end)]
  <1>4. end = ppos + len /\ end \in Int
    BY <1>1, <1>3
  <1>5. ASSUME NEW d \in 0..m - 1
        PROVE  /\ Dst(d) \in Int /\ desc[d].bytes \in Nat
               /\ XP!Dst(d, m, end) = Dst(d)
               /\ XP!Dst(d + 1, m, end) = Dst(d) + desc[d].bytes
    <2>1. desc[d] \in XP!Descs /\ d # m
      BY <1>2
    <2>2. desc[d].bytes \in Nat /\ desc[d].dst \in XP!Words
      BY <2>1 DEF XP!Descs
    <2>3. Dst(d) \in Int
      BY <2>2, TransferAssumption DEF Dst, X!Join, XP!Words
    <2>4. XP!Join(desc[d].dst) = Dst(d)
      BY DEF Dst, X!Join, XP!Join
    <2> QED
      BY <1>2, <2>1, <2>2, <2>3, <2>4 DEF XP!Tiled, XP!Dst
  <1>6. XP!Dst(0, m, end) = ppos /\ XP!Dst(m, m, end) = end
    BY <1>2 DEF XP!Tiled, XP!Dst
  <1>7. m \in Nat /\ desc_num = m
    BY <1>2
  <1> HIDE DEF m, end
  <1>8. f \in [0..m -> Int]
    <2>1. ASSUME NEW d \in 0..m
          PROVE  XP!Dst(d, m, end) \in Int
      <3>1. d = m \/ d \in 0..m - 1
        BY <1>7
      <3> QED
        BY <3>1, <1>4, <1>5, <1>6
    <2> QED
      BY <2>1
  <1>9. f[0] = ppos /\ f[m] = ppos + len
    BY <1>4, <1>6, <1>7
  <1>10. \A d \in 0..m - 1 : /\ f[d] = Dst(d) /\ f[d + 1] = Dst(d) + desc[d].bytes
                             /\ desc[d].bytes \in Nat
    BY <1>5, <1>7
  <1> QED
    BY <1>7, <1>8, <1>9, <1>10

(* Each byte of the buffer is in an entry of the list, which a descriptor  *)
(* carries: that descriptor fetches the byte and stores it at its place.   *)
LEMMA ByteIsStored ==
  ASSUME CInv, xpc = "started", len \in Nat, NEW b \in 0..len - 1
  PROVE  \E d \in X!Used : Stores(d, b)
  <1>1. XP!IInv /\ ppos \in Nat
    BY DEF CInv, XP!IInv, XP!TypeOK
  <1>2. /\ sgl_nents \in Nat /\ sgl_nents >= 1 /\ DOMAIN dsgl = 0..sgl_nents - 1
        /\ desc \in [0..sgl_nents - 1 -> XP!Descs]
        /\ xi = sgl_nents - 1 /\ j \in 0..xi /\ desc_num = j + 1
        /\ \A e \in 0..sgl_nents - 1 : \E d \in 0..j : XP!Carries(d, e)
    BY <1>1 DEF XP!IInv, XP!TypeOK, XP!Allocated, XP!Stored, XP!Building, XP!Built
  <1>3. /\ dsgl \in [0..sgl_nents - 1 -> XP!Entry]
        /\ dsgl[0].pos = 0
        /\ \A e \in 0..sgl_nents - 2 :
             dsgl[e + 1].pos = dsgl[e].pos + dsgl[e].len
        /\ \A e \in 0..sgl_nents - 1 : /\ dsgl[e].addr \in Nat
                                       /\ dsgl[e].pos \in Nat
                                       /\ dsgl[e].len \in Nat \ {0}
    BY <1>1, <1>2, XP!ListFacts, TransferAssumption, PageSizeAssumption
       DEF XP!IInv, XP!TypeOK
  <1>4. dsgl[sgl_nents - 1].pos + dsgl[sgl_nents - 1].len = len
    <2>1. PICK n \in 1..MaxEntries : /\ DOMAIN dsgl = 0..n - 1
                                     /\ dsgl[n - 1].pos + dsgl[n - 1].len = len
      BY DEF CInv, Placed
    <2>2. n - 1 \in 0..sgl_nents - 1 /\ sgl_nents - 1 \in 0..n - 1 /\ n \in Nat
      BY <1>2, <2>1, TransferAssumption
    <2>3. n = sgl_nents
      BY <1>2, <2>2
    <2> QED
      BY <2>1, <2>3
  <1>5. PICK e \in 0..sgl_nents - 1 : Holds(dsgl[e], b)
    <2> DEFINE n == sgl_nents
               f == [x \in 0..n |-> IF x = n THEN len ELSE dsgl[x].pos]
    <2>1. f \in [0..n -> Int] /\ f[0] <= b /\ b < f[n]
      <3>1. ASSUME NEW x \in 0..n
            PROVE  (IF x = n THEN len ELSE dsgl[x].pos) \in Int
        <4>1. x = n \/ x \in 0..n - 1
          BY <1>2
        <4> QED
          BY <4>1, <1>3
      <3>2. f \in [0..n -> Int]
        BY <3>1
      <3>3. f[0] = 0 /\ f[n] = len
        BY <1>2, <1>3
      <3> QED
        BY <3>2, <3>3
    <2>2. PICK e \in 0..n - 1 : f[e] <= b /\ b < f[e + 1]
      <3> HIDE DEF f
      <3>1. n \in Nat /\ b \in Int
        BY <1>2
      <3> QED
        BY <2>1, <3>1, Between
    <2>3. f[e] = dsgl[e].pos
      BY <1>2
    <2>4. f[e + 1] = dsgl[e].pos + dsgl[e].len
      <3>1. CASE e = n - 1
        <4>1. e + 1 = n /\ n \in 0..n
          BY <3>1, <1>2
        <4>2. f[e + 1] = len
          BY <4>1
        <4> QED
          BY <3>1, <4>2, <1>4
      <3>2. CASE e \in 0..n - 2
        <4>1. e + 1 \in 0..n /\ e + 1 # n
          BY <3>2, <1>2
        <4>2. f[e + 1] = dsgl[e + 1].pos
          BY <4>1
        <4> QED
          BY <3>2, <4>2, <1>3
      <3>3. e = n - 1 \/ e \in 0..n - 2
        BY <1>2
      <3> QED
        BY <3>1, <3>2, <3>3
    <2> HIDE DEF f
    <2> QED
      BY <2>2, <2>3, <2>4 DEF Holds
  <1>6. BusByte(b) = dsgl[e].addr + (b - dsgl[e].pos)
    BY <1>2, <1>5 DEF CInv, Placed
  <1>7. PICK d \in 0..j : XP!Carries(d, e)
    BY <1>2
  <1> DEFINE src == X!Join(desc[d].src)
             dst == X!Join(desc[d].dst)
             bytes == desc[d].bytes
  <1>8. src \in Int /\ dst \in Int /\ bytes \in Nat /\ d \in X!Used
    <2>1. d \in 0..sgl_nents - 1
      BY <1>2
    <2>2. desc[d] \in XP!Descs
      BY <1>2, <2>1
    <2>3. /\ desc[d].src \in XP!Words /\ desc[d].dst \in XP!Words
          /\ desc[d].bytes \in Nat
      BY <2>2 DEF XP!Descs
    <2>4. ASSUME NEW w \in XP!Words
          PROVE  X!Join(w) \in Int
      <3>1. w.lo \in Int /\ w.hi \in Int /\ WORD \in Int
        BY TransferAssumption DEF XP!Words
      <3> QED
        BY <3>1 DEF X!Join
    <2>5. d \in X!Used
      BY <1>2 DEF X!Used
    <2> QED
      BY <2>3, <2>4, <2>5
  <1>9. /\ src <= dsgl[e].addr /\ dsgl[e].addr + dsgl[e].len <= src + bytes
        /\ dst - src = ppos + dsgl[e].pos - dsgl[e].addr
    BY <1>7 DEF XP!Carries, XP!Join, X!Join
  <1> HIDE DEF src, dst, bytes
  <1>10. /\ dsgl[e].addr \in Nat /\ dsgl[e].pos \in Nat
         /\ dsgl[e].len \in Nat \ {0}
    BY <1>3
  <1>11. dsgl[e].pos <= b /\ b < dsgl[e].pos + dsgl[e].len
    BY <1>5 DEF Holds
  <1>12. ppos + b \in dst..dst + bytes - 1
    BY <1>1, <1>8, <1>9, <1>10, <1>11
  <1>13. src + (ppos + b - dst) = BusByte(b)
    BY <1>1, <1>6, <1>8, <1>9, <1>10
  <1>14. Stores(d, b)
    BY <1>12, <1>13 DEF Stores, src, dst, bytes
  <1> QED
    BY <1>8, <1>14

(***************************************************************************)
(* End to end, for every buffer, file position, page size, placement of    *)
(* the pages and way of merging them: the chain the engine is started on   *)
(* fetches every byte of the user buffer from where its page was mapped    *)
(* and stores it at its place, exactly once, and touches nothing else.     *)
(***************************************************************************)
THEOREM WholeBufferStored == WriteSpec => []WholeBuffer
  <1>1. IInv /\ CInv => WholeBuffer
    <2> SUFFICES ASSUME IInv, CInv, xpc = "started"
                 PROVE  /\ \A b \in 0..len - 1 : \E d \in X!Used :
                             Stores(d, b) /\ \A x \in X!Used \ {d} :
                               ppos + b \notin Dst(x)..Dst(x) + desc[x].bytes - 1
                        /\ \A d \in X!Used : /\ Dst(d) >= ppos
                                             /\ Dst(d) + desc[d].bytes <= ppos + len
      BY DEF WholeBuffer, Dst
    <2>1. len \in Nat /\ ppos \in Nat /\ desc_num \in Nat
      BY DEF IInv, TypeOK, CInv, XP!IInv, XP!TypeOK
    <2>2. PICK f \in [0..desc_num -> Int] :
            /\ f[0] = ppos /\ f[desc_num] = ppos + len
            /\ \A d \in 0..desc_num - 1 :
                 /\ f[d] = Dst(d) /\ f[d + 1] = Dst(d) + desc[d].bytes
                 /\ desc[d].bytes \in Nat
      BY <2>1, ChainTiles
    <2>3. ASSUME NEW d \in 0..desc_num - 1
          PROVE  f[d] <= f[d + 1]
      <3>1. f[d] \in Int /\ desc[d].bytes \in Nat
        BY <2>1, <2>2
      <3>2. f[d + 1] = f[d] + desc[d].bytes
        BY <2>2
      <3> QED
        BY <3>1, <3>2
    <2>4. \A c, d \in 0..desc_num : c <= d => f[c] <= f[d]
      BY <2>1, <2>2, <2>3, Ascending
    <2>5. ASSUME NEW d \in X!Used
          PROVE  Dst(d) >= ppos /\ Dst(d) + desc[d].bytes <= ppos + len
      <3>1. d \in 0..desc_num - 1 /\ d \in 0..desc_num /\ d + 1 \in 0..desc_num
        BY <2>1 DEF X!Used
      <3>2. f[0] <= f[d] /\ f[d + 1] <= f[desc_num]
        BY <2>1, <2>4, <3>1
      <3> QED
        BY <2>2, <3>1, <3>2
    <2>6. ASSUME NEW b \in 0..len - 1
          PROVE  \E d \in X!Used :
                   Stores(d, b) /\ \A x \in X!Used \ {d} :
                     ppos + b \notin Dst(x)..Dst(x) + desc[x].bytes - 1
      <3>1. PICK d \in X!Used : Stores(d, b)
        BY <2>1, ByteIsStored
      <3>2. ppos + b \in Dst(d)..Dst(d) + desc[d].bytes - 1
        BY <3>1 DEF Stores, Dst
      <3>3. ASSUME NEW x \in X!Used \ {d},
                   ppos + b \in Dst(x)..Dst(x) + desc[x].bytes - 1
            PROVE  FALSE
        <4>1. /\ d \in 0..desc_num - 1 /\ x \in 0..desc_num - 1
              /\ {d, d + 1, x, x + 1} \subseteq 0..desc_num
          BY <2>1 DEF X!Used
        <4>2. /\ f[d] <= ppos + b /\ ppos + b < f[d + 1]
              /\ f[x] <= ppos + b /\ ppos + b < f[x + 1]
          <5>1. /\ f[d] = Dst(d) /\ f[d + 1] = Dst(d) + desc[d].bytes
                /\ f[x] = Dst(x) /\ f[x + 1] = Dst(x) + desc[x].bytes
                /\ desc[d].bytes \in Int /\ desc[x].bytes \in Int
            BY <2>2, <4>1
          <5>2. Dst(d) \in Int /\ Dst(x) \in Int
            BY <2>2, <4>1, <5>1
          <5>3. ppos + b \in Int
            BY <2>1
          <5>4. ASSUME NEW y \in Int, NEW m \in Int, NEW a \in Int,
                       a \in y..y + m - 1
                PROVE  y <= a /\ a < y + m
            BY <5>4
          <5>5. Dst(d) <= ppos + b /\ ppos + b < Dst(d) + desc[d].bytes
            BY <3>2, <5>1, <5>2, <5>3, <5>4
          <5>6. Dst(x) <= ppos + b /\ ppos + b < Dst(x) + desc[x].bytes
            BY <3>3, <5>1, <5>2, <5>3, <5>4
          <5> QED
            BY <5>1, <5>5, <5>6
        <4>3. d + 1 <= x \/ x + 1 <= d
          BY <4>1
        <4>4. f[d + 1] <= f[x] \/ f[x + 1] <= f[d]
          BY <2>4, <4>1, <4>3
        <4>5. {f[d], f[d + 1], f[x], f[x + 1]} \subseteq Int
          BY <2>2, <4>1
        <4> QED
          BY <2>1, <4>2, <4>4, <4>5
      <3> QED
        BY <3>1, <3>3
    <2> QED
      BY <2>5, <2>6
  <1> QED
    BY <1>1, CallInvariant, PTL
============================================================================
