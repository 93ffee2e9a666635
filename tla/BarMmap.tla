------------------------------ MODULE BarMmap ------------------------------
(***************************************************************************)
(* The arithmetic of xpcie_user_mmap() and xpcie_h2c_mmap() in             *)
(* driver/xpcie.c, which are the same but for the number of the BAR.  All  *)
(* of it is on unsigned long: results are taken modulo ULONG.              *)
(*                                                                         *)
(* A BAR is [start, end], the bus addresses of its first and last byte; an *)
(* absent BAR is start = end = 0.                                          *)
(***************************************************************************)
EXTENDS Integers

CONSTANTS
  PAGE_SIZE,  \* bytes in a page
  ULONG       \* an unsigned long holds 0..ULONG - 1

ASSUME WordAssumption ==
  /\ PAGE_SIZE \in Nat \ {0, 1} /\ ULONG \in Nat \ {0}
  /\ ULONG % PAGE_SIZE = 0

(* vma->vm_pgoff << PAGE_SHIFT                                             *)
Off(pgoff) == (pgoff * PAGE_SIZE) % ULONG

(* The bus address the mapping begins with.                                *)
Phys(b, pgoff) == (b.start + Off(pgoff)) % ULONG

(* Mutant of Psize: the offset is not subtracted.                          *)
PsizeWhole(b, pgoff) == (b.end - b.start + 1) % ULONG

(* What the functions take for the bytes of the BAR from the offset on.    *)
Psize(b, pgoff) == (b.end - b.start + 1 - Off(pgoff)) % ULONG

(* if (vsize > psize) return -EINVAL                                       *)
TooLong(b, pgoff, vsize) == vsize > Psize(b, pgoff)

(* Where io_remap_pfn_range() leads byte v of a mapping: page by page from *)
(* the page of Phys on.                                                    *)
BusAddr(b, pgoff, v) ==
  (Phys(b, pgoff) \div PAGE_SIZE + v \div PAGE_SIZE) * PAGE_SIZE
    + (v % PAGE_SIZE)

(* What a call of mmap() asks for, in whole pages.                         *)
PageAlign(size) == ((size + PAGE_SIZE - 1) \div PAGE_SIZE) * PAGE_SIZE

(* The bytes of a BAR.                                                     *)
BarLen(b) == IF b.start = 0 /\ b.end = 0 THEN 0 ELSE b.end - b.start + 1
============================================================================
