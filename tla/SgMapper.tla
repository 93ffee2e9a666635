------------------------------ MODULE SgMapper ------------------------------
(***************************************************************************)
(* The scatter-gather mapper of driver/xpcie.c: sg_create_mapper(),        *)
(* sgm_get_user_pages(), sgm_kernel_pages(), sgm_put_user_pages() and      *)
(* sg_destroy_mapper(), called in the order xpcie_h2c_write() calls them.  *)
(*                                                                         *)
(* One behaviour is the life of one sg_mapping_t: a buffer of len bytes at *)
(* the virtual address start is pinned page by page, described by a        *)
(* scatterlist with one entry per page, and released.  sgm_kernel_pages()  *)
(* has no caller in the driver; it is entered instead of                   *)
(* sgm_get_user_pages() when the input kernel is TRUE, and its life ends   *)
(* once the table is filled.                                               *)
(*                                                                         *)
(* A page is named by its index in sgm->pages[].  Addresses do not wrap:   *)
(* the VFS has checked that the user buffer lies in user space.            *)
(***************************************************************************)
EXTENDS Integers

CONSTANTS
  PAGE_SIZE,  \* bytes in a page
  Starts,     \* the buffer addresses considered
  Counts      \* the buffer lengths considered

ASSUME PageSizeAssumption == PAGE_SIZE \in Nat \ {0}
ASSUME BufferAssumption   == Starts \subseteq Nat /\ Counts \subseteq Nat

VARIABLES
  pc,            \* control point of the caller's thread
  kernel,        \* TRUE: sgm_kernel_pages(), FALSE: sgm_get_user_pages()
  start, len,    \* the buffer
  count,         \* bytes not yet described (the functions' argument count)
  i,             \* index of the fill loop
  heap,          \* kcalloc()ed objects of this mapper still allocated
  max_pages,     \* sgm->max_pages
  mapped_pages,  \* sgm->mapped_pages
  sgl,           \* sgm->sgl
  pinned         \* pages on which get_user_pages_fast() left a reference

vars == <<pc, kernel, start, len, count, i, heap, max_pages, mapped_pages,
          sgl, pinned>>
call == <<kernel, start, len>>

Objects == {"sgm", "pages", "sgl"}
EmptyEntry == [page |-> -1, offset |-> 0, length |-> 0]

first    == start \div PAGE_SIZE
last     == (start + len - 1) \div PAGE_SIZE
nr_pages == last - first + 1
offset_in_page == start % PAGE_SIZE
----------------------------------------------------------------------------
Init ==
  /\ pc = "create"
  /\ kernel \in BOOLEAN
  /\ start \in Starts
  /\ len \in Counts
  /\ count = len
  /\ i = 0
  /\ heap = {}
  /\ max_pages = 0
  /\ mapped_pages = 0
  /\ sgl = [k \in {} |-> EmptyEntry]
  /\ pinned = {}

(* Mutant of MaxPages: no room for a partial page at both ends.            *)
MaxPagesTight(max_len) == max_len \div PAGE_SIZE + 1

(* How many pages the arrays of a mapper for max_len bytes hold.           *)
MaxPages(max_len) == max_len \div PAGE_SIZE + 2

(* What the first got kcalloc() calls of sg_create_mapper() made, and what *)
(* it frees when the next one fails.                                       *)
Allocated(got)    == CASE got = 0 -> {} [] got = 1 -> {"sgm"}
                       [] got = 2 -> {"sgm", "pages"}
FreedOnError(got) == CASE got = 0 -> {} [] got = 1 -> {"sgm"}
                       [] got = 2 -> {"pages", "sgm"}

(***************************************************************************)
(* sg_create_mapper(len).  NULL for len = 0, or when one of the three      *)
(* kcalloc() calls fails.  No caller tests for NULL: the next access       *)
(* through sgm is an oops.                                                 *)
(***************************************************************************)
CreateMapper ==
  /\ pc = "create"
  /\ \/ /\ len = 0
        /\ pc' = "oops"
        /\ UNCHANGED <<heap, max_pages, sgl>>
     \/ /\ len # 0
        /\ \E got \in 0..2 : heap' = heap \cup (Allocated(got) \ FreedOnError(got))
        /\ pc' = "oops"
        /\ UNCHANGED <<max_pages, sgl>>
     \/ /\ len # 0
        /\ heap' = Objects
        /\ max_pages' = MaxPages(len)
        /\ sgl' = [k \in 0..MaxPages(len) - 1 |-> EmptyEntry]
        /\ pc' = "get"
  /\ UNCHANGED <<call, count, i, mapped_pages, pinned>>

(* Mutant of InitTable: the table becomes as short as the buffer needs.    *)
InitTableShort ==
  sgl' = [k \in 0..nr_pages - 1 |-> EmptyEntry]

(* sg_init_table(sgl, nr_pages): clears the first nr_pages entries.        *)
InitTable ==
  sgl' = [k \in DOMAIN sgl |-> IF k < nr_pages THEN EmptyEntry ELSE sgl[k]]

(* Mutant of GetUserPages: a short pin is not recorded before the unwind.  *)
GetUserPagesForgets ==
  /\ pc = "get" /\ ~kernel
  /\ InitTable
  /\ \E rc \in -1..nr_pages :
       /\ pinned' = 0..rc - 1
       /\ mapped_pages' = IF rc < nr_pages THEN mapped_pages ELSE rc
       /\ pc' = IF rc < nr_pages THEN "out_unmap" ELSE "first"
  /\ UNCHANGED <<call, count, i, heap, max_pages>>

(***************************************************************************)
(* The first half of sgm_get_user_pages(): get_user_pages_fast() pins rc   *)
(* of the nr_pages pages, or fails outright (rc < 0).                      *)
(***************************************************************************)
GetUserPages ==
  /\ pc = "get" /\ ~kernel
  /\ InitTable
  /\ \E rc \in -1..nr_pages :
       /\ pinned' = 0..rc - 1
       /\ IF rc < nr_pages
            THEN /\ mapped_pages' = IF rc > 0 THEN rc ELSE mapped_pages
                 /\ pc' = "out_unmap"
            ELSE /\ mapped_pages' = rc
                 /\ pc' = "first"
  /\ UNCHANGED <<call, count, i, heap, max_pages>>

(* The error exit of sgm_get_user_pages().                                 *)
OutUnmap ==
  /\ pc = "out_unmap"
  /\ pinned' = pinned \ (0..mapped_pages - 1)
  /\ mapped_pages' = 0
  /\ pc' = "returned"
  /\ UNCHANGED <<call, count, i, heap, max_pages, sgl>>

(***************************************************************************)
(* The first half of sgm_kernel_pages(): BUG_ON(sgm->mapped_pages > 0),    *)
(* the early returns, and vmalloc_to_page() for every page, which may find *)
(* no page, or a high memory page (BUG_ON(PageHighMem)).  It takes no      *)
(* reference on the pages.                                                 *)
(***************************************************************************)
KernelPages ==
  /\ pc = "get" /\ kernel
  /\ IF mapped_pages > 0
       THEN pc' = "bug_still_mapped" /\ UNCHANGED <<mapped_pages, sgl>>
       ELSE IF nr_pages > max_pages \/ count = 0
         THEN pc' = "returned" /\ UNCHANGED <<mapped_pages, sgl>>
         ELSE /\ InitTable
              /\ pc' \in {"first", "returned", "bug_highmem"}
              /\ mapped_pages' = IF pc' = "first" THEN nr_pages ELSE 0
  /\ UNCHANGED <<call, count, i, heap, max_pages, pinned>>

(* Mutant of FillFirst: the offset in the first page is not subtracted.    *)
FillFirstWholePage ==
  /\ pc = "first"
  /\ LET length == IF nr_pages > 1 THEN PAGE_SIZE ELSE count
     IN  /\ sgl' = [sgl EXCEPT ![0] = [page |-> 0, offset |-> offset_in_page,
                                        length |-> length]]
         /\ count' = IF nr_pages > 1 THEN count - length ELSE count
  /\ i' = IF nr_pages > 1 THEN 1 ELSE i
  /\ pc' = IF nr_pages > 1 THEN "fill" ELSE "returned"
  /\ UNCHANGED <<call, heap, max_pages, mapped_pages, pinned>>

(* The first entry: the offset in its page, and all the bytes if it is the *)
(* only page.                                                              *)
FillFirst ==
  /\ pc = "first"
  /\ LET length == IF nr_pages > 1 THEN PAGE_SIZE - offset_in_page ELSE count
     IN  /\ sgl' = [sgl EXCEPT ![0] = [page |-> 0, offset |-> offset_in_page,
                                        length |-> length]]
         /\ count' = IF nr_pages > 1 THEN count - length ELSE count
  /\ i' = IF nr_pages > 1 THEN 1 ELSE i
  /\ pc' = IF nr_pages > 1 THEN "fill" ELSE "returned"
  /\ UNCHANGED <<call, heap, max_pages, mapped_pages, pinned>>

(* Mutant of FillNext: the loop does not advance.                          *)
FillNextStuck ==
  /\ pc = "fill" /\ i < nr_pages - 1
  /\ sgl' = [sgl EXCEPT ![i] = [page |-> i, offset |-> 0, length |-> PAGE_SIZE]]
  /\ UNCHANGED <<pc, call, count, i, heap, max_pages, mapped_pages, pinned>>

(* Mutant of FillNext: every entry as long as the first.                   *)
FillNextLikeFirst ==
  /\ pc = "fill" /\ i < nr_pages - 1
  /\ IF count < PAGE_SIZE
       THEN pc' = "bug_short" /\ UNCHANGED <<count, i, sgl>>
       ELSE /\ sgl' = [sgl EXCEPT ![i] = [page |-> i, offset |-> 0,
                                           length |-> PAGE_SIZE - offset_in_page]]
            /\ count' = count - PAGE_SIZE
            /\ i' = i + 1
            /\ UNCHANGED pc
  /\ UNCHANGED <<call, heap, max_pages, mapped_pages, pinned>>

(* A whole page in the middle; BUG_ON(count < PAGE_SIZE) guards it.        *)
FillNext ==
  /\ pc = "fill" /\ i < nr_pages - 1
  /\ IF count < PAGE_SIZE
       THEN pc' = "bug_short" /\ UNCHANGED <<count, i, sgl>>
       ELSE /\ sgl' = [sgl EXCEPT ![i] = [page |-> i, offset |-> 0,
                                           length |-> PAGE_SIZE]]
            /\ count' = count - PAGE_SIZE
            /\ i' = i + 1
            /\ UNCHANGED pc
  /\ UNCHANGED <<call, heap, max_pages, mapped_pages, pinned>>

(* Mutant of FillLast: the last page is described as a whole page.         *)
FillLastWholePage ==
  /\ pc = "fill" /\ i >= nr_pages - 1
  /\ sgl' = [sgl EXCEPT ![i] = [page |-> i, offset |-> 0, length |-> PAGE_SIZE]]
  /\ pc' = "returned"
  /\ UNCHANGED <<call, count, i, heap, max_pages, mapped_pages, pinned>>

(* What is left goes to the last page; BUG_ON(count > PAGE_SIZE).          *)
FillLast ==
  /\ pc = "fill" /\ i >= nr_pages - 1
  /\ IF count > PAGE_SIZE
       THEN pc' = "bug_long" /\ UNCHANGED sgl
       ELSE /\ sgl' = [sgl EXCEPT ![i] = [page |-> i, offset |-> 0,
                                           length |-> count]]
            /\ pc' = "returned"
  /\ UNCHANGED <<call, count, i, heap, max_pages, mapped_pages, pinned>>

(***************************************************************************)
(* Back in xpcie_h2c_write(), which drops the return code and asserts      *)
(* BUG_ON(!transfer.sgm->mapped_pages).                                    *)
(***************************************************************************)
CheckMapped ==
  /\ pc = "returned" /\ ~kernel
  /\ pc' = IF mapped_pages = 0 THEN "bug_unmapped" ELSE "mapped"
  /\ UNCHANGED <<call, count, i, heap, max_pages, mapped_pages, sgl, pinned>>

(* sgm_put_user_pages(), when the DMA is over.  The direction is always to *)
(* the device, so sgm_dirty_pages() is not called.                         *)
PutUserPages ==
  /\ pc = "mapped"
  /\ pinned' = pinned \ (0..mapped_pages - 1)
  /\ mapped_pages' = 0
  /\ pc' = "destroy"
  /\ UNCHANGED <<call, count, i, heap, max_pages, sgl>>

(* sg_destroy_mapper(), with its BUG_ON(sgm->mapped_pages > 0).            *)
DestroyMapper ==
  /\ pc = "destroy"
  /\ IF mapped_pages > 0
       THEN pc' = "bug_still_mapped" /\ UNCHANGED heap
       ELSE pc' = "done" /\ heap' = {}
  /\ UNCHANGED <<call, count, i, max_pages, mapped_pages, sgl, pinned>>

Next ==
  \/ CreateMapper
  \/ GetUserPages \/ OutUnmap \/ KernelPages
  \/ FillFirst \/ FillNext \/ FillLast
  \/ CheckMapped \/ PutUserPages \/ DestroyMapper

Spec == Init /\ [][Next]_vars

(* The thread in the system call keeps running until the call is over.     *)
FairSpec == Spec /\ WF_vars(Next)
----------------------------------------------------------------------------
(* The type invariant.                                                     *)
TypeOK ==
  /\ pc \in {"create", "oops", "get", "out_unmap", "first", "fill",
             "bug_short", "bug_long", "returned", "bug_unmapped", "mapped",
             "destroy", "bug_still_mapped", "bug_highmem", "done"}
  /\ kernel \in BOOLEAN
  /\ start \in Nat /\ len \in Nat
  /\ count \in Int /\ i \in Nat
  /\ heap \in SUBSET Objects
  /\ max_pages \in Nat /\ mapped_pages \in Nat
  /\ sgl \in [0..max_pages - 1 -> [page : Int, offset : Int, length : Int]]
  /\ pinned \in SUBSET Nat

(***************************************************************************)
(* sgm_get_user_pages() has its check nr_pages > sgm->max_pages compiled   *)
(* out (#if 0).  It is not needed: the arrays sg_create_mapper() made for  *)
(* len bytes hold every page the buffer touches, at any alignment, and the *)
(* loop index never leaves them.                                           *)
(***************************************************************************)
TableFits ==
  pc \notin {"create", "oops"} => nr_pages <= max_pages /\ i < max_pages

(* The BUG_ONs of the fill loops on the bytes left, and those of           *)
(* sgm_kernel_pages() and sg_destroy_mapper() on pages still mapped, never *)
(* fire: the bytes left always match the pages left, and mapped_pages is 0 *)
(* again when the mapper is destroyed.  (BUG_ON(PageHighMem) of            *)
(* sgm_kernel_pages() can, for a buffer in high memory.)                   *)
NoBug == pc \notin {"bug_short", "bug_long", "bug_still_mapped"}

Larger(a, b)  == IF a >= b THEN a ELSE b
Smaller(a, b) == IF a <= b THEN a ELSE b
PageBase(k)   == (first + k) * PAGE_SIZE

(* The reference: the part of the buffer that lies in its k-th page.       *)
PartOfBuffer(k) ==
  LET from == Larger(start, PageBase(k))
      to   == Smaller(start + len, PageBase(k + 1))
  IN  [page |-> k, offset |-> from - PageBase(k), length |-> to - from]

(***************************************************************************)
(* A filled scatterlist describes the buffer exactly: entry k is the part  *)
(* of the buffer in its k-th page, for every page of the buffer.           *)
(***************************************************************************)
SglExact ==
  pc = "returned" /\ mapped_pages > 0 =>
    /\ mapped_pages = nr_pages
    /\ \A k \in 0..nr_pages - 1 : sgl[k] = PartOfBuffer(k)

(***************************************************************************)
(* sgm->mapped_pages counts exactly the pages that hold a reference, on    *)
(* the success path and on both error paths, so that the loops that put    *)
(* pages[0..mapped_pages-1] release every pinned page and no other; and a  *)
(* finished call leaves neither a pinned page nor an allocation behind.    *)
(***************************************************************************)
PinsCounted ==
  /\ ~kernel => pinned = 0..mapped_pages - 1
  /\ kernel => pinned = {}
  /\ pc \in {"oops", "done"} => pinned = {} /\ heap = {}

(* The assertions BUG_ON(!transfer.sgm->sgl) and                           *)
(* BUG_ON(!transfer.sgm->mapped_pages) of xpcie_h2c_write(): it has a      *)
(* mapper, and the mapper has pages.                                       *)
MapperReady == pc \notin {"oops", "bug_unmapped"}

(* The call is over: it has returned, or its thread has died.              *)
Ended ==
  \/ pc \in {"oops", "bug_unmapped", "bug_highmem", "done"}
  \/ kernel /\ pc = "returned"
============================================================================
