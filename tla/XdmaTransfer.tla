---------------------------- MODULE XdmaTransfer ----------------------------
(***************************************************************************)
(* How driver/xpcie.c turns a pinned buffer into a chain of descriptors    *)
(* for the XDMA engine: the calls pci_map_sg(), xdma_desc_alloc(),         *)
(* transfer_build(), transfer_terminate(), xdma_desc_adjacent() and the    *)
(* head of transfer_start() that xpcie_h2c_write() makes on its local      *)
(* struct xdma_transfer.                                                   *)
(*                                                                         *)
(* An entry of the mapped scatterlist is [addr, len, pos]: sg_dma_address, *)
(* sg_dma_len and, for the properties only, its place in the user buffer.  *)
(* The IOMMU may have merged pages, so there can be fewer entries than     *)
(* pages and an entry can be longer than a page.                           *)
(***************************************************************************)
EXTENDS Integers

CONSTANTS
  PAGE_SIZE,
  XDMA_DESC_MAX_BYTES,
  MAX_EXTRA_ADJ,
  DESC_SIZE,    \* sizeof(struct xdma_desc)
  FETCH_PAGE,   \* a descriptor fetch may not cross this boundary (0x1000)
  WORD,         \* a register or descriptor word holds 0..WORD - 1 (2^32)
  MaxEntries,   \* entries of the longest scatterlist considered
  SGLs,         \* the scatterlists pci_map_sg() may leave
  DescBuses,    \* bus addresses pci_alloc_consistent() may return
  EpAddrs       \* file positions: the end point addresses written to

IsSGL(s) ==
  \E n \in 1..MaxEntries :
    /\ s \in [0..n - 1 -> [addr : Nat, len : Nat \ {0}, pos : Nat]]
    /\ s[0].pos = 0
    /\ \A e \in 0..n - 2 : s[e + 1].pos = s[e].pos + s[e].len

ASSUME SizeAssumption ==
  /\ {PAGE_SIZE, XDMA_DESC_MAX_BYTES, DESC_SIZE, FETCH_PAGE, WORD} \subseteq
       Nat \ {0}
  /\ MAX_EXTRA_ADJ \in Nat /\ MaxEntries \in Nat
  /\ PAGE_SIZE <= XDMA_DESC_MAX_BYTES
  /\ WORD % FETCH_PAGE = 0 /\ FETCH_PAGE % DESC_SIZE = 0
  /\ DESC_SIZE * (MAX_EXTRA_ADJ + 1) <= FETCH_PAGE
ASSUME InputAssumption ==
  /\ \A s \in SGLs : IsSGL(s)
  /\ EpAddrs \subseteq Nat
  /\ DescBuses \subseteq {b \in Nat : b % FETCH_PAGE = 0}

VARIABLES
  pc,
  sgl, sgl_nents,    \* transfer.sgm->sgl, transfer.sgl_nents
  ppos,              \* *ppos, the file position of the call
  ep_addr,           \* where the current block goes in the end point
  i, j,              \* transfer_build(): next entry, current descriptor
  addr,              \* bus address of entry i
  cont_addr, cont_len,  \* the contiguous block being collected
  desc, desc_bus,    \* the descriptors and the bus address of the first
  desc_num,          \* transfer.desc_num = transfer.desc_adjacent
  first_desc         \* what the registers of engine_sgdma_regs are given

input == <<sgl, sgl_nents, ppos>>
build == <<ep_addr, i, j, addr, cont_addr, cont_len>>
vars  == <<pc, input, build, desc, desc_bus, desc_num, first_desc>>

(* Mutant of Split: the low word is not masked.                            *)
SplitUnmasked(a) == [lo |-> a, hi |-> a \div WORD]

(* PCI_DMA_L and PCI_DMA_H, and the address the engine makes of the two.   *)
Split(a) == [lo |-> a % WORD, hi |-> a \div WORD]
Join(w)  == w.lo + WORD * w.hi

MinOf(a, b) == IF a <= b THEN a ELSE b
NoDescs == [d \in {} |-> 0]
NoFirst == [adj |-> 0, addr |-> Split(0)]
----------------------------------------------------------------------------
Init ==
  /\ pc = "map_sg"
  /\ sgl \in SGLs
  /\ sgl_nents = 0
  /\ ppos \in EpAddrs
  /\ ep_addr = ppos
  /\ i = 0 /\ j = 0
  /\ addr = 0 /\ cont_addr = 0 /\ cont_len = 0
  /\ desc = NoDescs
  /\ desc_bus = 0 /\ desc_num = 0
  /\ first_desc = NoFirst

(* pci_map_sg() maps the list, or maps nothing.  The result is not tested. *)
MapSg ==
  /\ pc = "map_sg"
  /\ \E n \in 1..MaxEntries :
       /\ DOMAIN sgl = 0..n - 1
       /\ sgl_nents' \in {0, n}
  /\ pc' = "alloc"
  /\ UNCHANGED <<sgl, ppos, build, desc, desc_bus, desc_num, first_desc>>

(* The n descriptors of xdma_desc_alloc(), all chained.  The addresses are *)
(* not written yet: what they hold is whatever the memory held.            *)
NewDescs(n, bus) ==
  [d \in 0..n - 1 |->
    [magic |-> TRUE,
     extra |-> IF d < n - 1 THEN MinOf(n - d - 2, MAX_EXTRA_ADJ) ELSE 0,
     stop  |-> FALSE,
     bytes |-> 0,
     src   |-> Split(0),
     dst   |-> Split(0),
     next  |-> Split(IF d < n - 1 THEN bus + (d + 1) * DESC_SIZE ELSE 0)]]

(***************************************************************************)
(* xdma_desc_alloc(), with its BUG_ON(number < 1).  When the allocation    *)
(* fails the caller goes on with NULL, and transfer_build() writes to it.  *)
(* The start of transfer_build() follows.                                  *)
(***************************************************************************)
DescAlloc ==
  /\ pc = "alloc"
  /\ \/ /\ sgl_nents < 1
        /\ pc' = "bug_number"
        /\ UNCHANGED <<desc, desc_bus, addr, cont_addr>>
     \/ /\ sgl_nents >= 1
        /\ pc' = "oops"
        /\ UNCHANGED <<desc, desc_bus, addr, cont_addr>>
     \/ /\ sgl_nents >= 1
        /\ desc_bus' \in DescBuses
        /\ desc' = NewDescs(sgl_nents, desc_bus')
        /\ addr' = sgl[0].addr
        /\ cont_addr' = sgl[0].addr
        /\ pc' = "build"
  /\ UNCHANGED <<input, ep_addr, i, j, cont_len, desc_num, first_desc>>

(* xdma_desc_set(), to the device.  Does not touch the next pointer.       *)
DescSet(d, rc_bus_addr, ep, len) ==
  desc' = [desc EXCEPT ![d].bytes = len,
                       ![d].src = Split(rc_bus_addr),
                       ![d].dst = Split(ep)]

(* Mutant of NewDesc: blocks are joined across a gap.                      *)
NewDescIgnoresGap(next, len, cont) == cont > XDMA_DESC_MAX_BYTES - PAGE_SIZE

(* Mutant of NewDesc: the limit is tested without room for the next page.  *)
NewDescLate(next, len, cont) ==
  next # addr + len \/ cont > XDMA_DESC_MAX_BYTES

(* Whether transfer_build() ends the block with entry i: entry i + 1 is    *)
(* elsewhere, or the block could outgrow a descriptor.                     *)
NewDesc(next, len, cont) ==
  \/ next # addr + len
  \/ cont > XDMA_DESC_MAX_BYTES - PAGE_SIZE

(* Mutant of BuildEntry: the end point address stays where it is.          *)
BuildEntryKeepsEp ==
  /\ pc = "build" /\ i < sgl_nents - 1
  /\ LET next == sgl[i + 1].addr
         cont == cont_len + sgl[i].len
         ends == NewDesc(next, sgl[i].len, cont)
     IN  /\ IF ends THEN DescSet(j, cont_addr, ep_addr, cont) ELSE UNCHANGED desc
         /\ cont_addr' = IF ends THEN next ELSE cont_addr
         /\ cont_len' = IF ends THEN 0 ELSE cont
         /\ j' = IF ends THEN j + 1 ELSE j
         /\ addr' = next
         /\ i' = i + 1
  /\ UNCHANGED <<pc, input, ep_addr, desc_bus, desc_num, first_desc>>

(***************************************************************************)
(* One round of the loop of transfer_build() over all entries but the      *)
(* last.  force_new_desc and non_incr_addr are 0 and userspace is 1 in the *)
(* only call.                                                              *)
(***************************************************************************)
BuildEntry ==
  /\ pc = "build" /\ i < sgl_nents - 1
  /\ LET next == sgl[i + 1].addr
         len  == sgl[i].len
         cont == cont_len + len
     IN  /\ IF NewDesc(next, len, cont)
              THEN /\ DescSet(j, cont_addr, ep_addr, cont)
                   /\ ep_addr' = ep_addr + cont
                   /\ cont_addr' = next
                   /\ cont_len' = 0
                   /\ j' = j + 1
              ELSE /\ cont_len' = cont
                   /\ UNCHANGED <<desc, ep_addr, cont_addr, j>>
         /\ addr' = next
         /\ i' = i + 1
  /\ UNCHANGED <<pc, input, desc_bus, desc_num, first_desc>>

(* Mutant of BuildLast: it returns the number of descriptors, not the      *)
(* index of the last one.                                                  *)
BuildLastCounts ==
  /\ pc = "build" /\ i >= sgl_nents - 1
  /\ cont_len' = cont_len + sgl[i].len
  /\ DescSet(j, cont_addr, ep_addr, cont_len')
  /\ j' = j + 1
  /\ pc' = "terminate"
  /\ UNCHANGED <<input, ep_addr, i, addr, cont_addr, desc_bus, desc_num,
                 first_desc>>

(* The last entry ends the last block.  BUG_ON(j > transfer->sgl_nents).   *)
BuildLast ==
  /\ pc = "build" /\ i >= sgl_nents - 1
  /\ cont_len' = cont_len + sgl[i].len
  /\ IF j > sgl_nents
       THEN pc' = "bug_overrun" /\ UNCHANGED desc
       ELSE DescSet(j, cont_addr, ep_addr, cont_len') /\ pc' = "terminate"
  /\ UNCHANGED <<input, ep_addr, i, j, addr, cont_addr, desc_bus, desc_num,
                 first_desc>>

(* Mutant of Terminate: the last descriptor does not stop the engine.      *)
TerminateNoStop ==
  /\ pc = "terminate"
  /\ desc' = [desc EXCEPT ![j] = [@ EXCEPT !.next = Split(0), !.extra = 0]]
  /\ desc_num' = j + 1
  /\ pc' = "adjacent"
  /\ UNCHANGED <<input, build, desc_bus, first_desc>>

(* transfer_terminate(): xdma_desc_link(last, NULL) clears next and extra, *)
(* xdma_desc_control() sets STOPPED, EOP and COMPLETED.                    *)
Terminate ==
  /\ pc = "terminate"
  /\ desc' = [desc EXCEPT ![j] = [@ EXCEPT !.next = Split(0), !.extra = 0,
                                            !.magic = TRUE, !.stop = TRUE]]
  /\ desc_num' = j + 1
  /\ pc' = "adjacent"
  /\ UNCHANGED <<input, build, desc_bus, first_desc>>

(* Mutant of ExtraAdj: not clipped at the 4K boundary.                     *)
ExtraAdjUnclipped(next_lo, next_adjacent) ==
  IF next_adjacent > 0 THEN MinOf(next_adjacent - 1, MAX_EXTRA_ADJ) ELSE 0

(* The extra_adj of xdma_desc_adjacent() for a descriptor whose successor  *)
(* is at next_lo and which next_adjacent descriptors follow: how many the  *)
(* engine may fetch together with the successor.                           *)
ExtraAdj(next_lo, next_adjacent) ==
  IF next_adjacent > 0
    THEN LET max_adj_4k == (FETCH_PAGE - (next_lo % FETCH_PAGE)) \div DESC_SIZE - 1
         IN  MinOf(MinOf(next_adjacent - 1, MAX_EXTRA_ADJ), max_adj_4k)
    ELSE 0

(* The loop of xpcie_h2c_write() over xdma_desc_adjacent().                *)
Adjacent ==
  /\ pc = "adjacent"
  /\ desc' = [d \in DOMAIN desc |->
       IF d < desc_num
         THEN [desc[d] EXCEPT !.magic = TRUE,
                              !.extra = ExtraAdj(desc[d].next.lo,
                                                   desc_num - d - 1)]
         ELSE desc[d]]
  /\ pc' = "start"
  /\ UNCHANGED <<input, build, desc_bus, desc_num, first_desc>>

(* transfer_start() up to engine_start(): the three registers.             *)
Start ==
  /\ pc = "start"
  /\ first_desc' =
       [adj  |-> IF desc_num > 0 THEN MinOf(desc_num - 1, MAX_EXTRA_ADJ) ELSE 0,
        addr |-> Split(desc_bus)]
  /\ pc' = "started"
  /\ UNCHANGED <<input, build, desc, desc_bus, desc_num>>

Next ==
  \/ MapSg \/ DescAlloc \/ BuildEntry \/ BuildLast \/ Terminate \/ Adjacent
  \/ Start

Spec == Init /\ [][Next]_vars
----------------------------------------------------------------------------
Words == [lo : 0..WORD - 1, hi : Nat]
Descs == [magic : BOOLEAN, extra : Int, stop : BOOLEAN, bytes : Nat,
          src : Words, dst : Words, next : Words]

(* The type invariant: the fields keep their words' width, and the         *)
(* descriptor array keeps its size, so that nothing is written outside it. *)
TypeOK ==
  /\ pc \in {"map_sg", "alloc", "bug_number", "oops", "build", "bug_overrun",
             "terminate", "adjacent", "start", "started"}
  /\ IsSGL(sgl) /\ sgl_nents \in Nat /\ ppos \in Nat
  /\ {ep_addr, i, j, cont_len, desc_bus, desc_num} \subseteq Nat
  /\ {addr, cont_addr} \subseteq Int
  /\ desc = NoDescs \/ desc \in [0..sgl_nents - 1 -> Descs]
  /\ first_desc \in [adj : Int, addr : Words]

(***************************************************************************)
(* The descriptor written is always one of those allocated.  BUG_ON(j >    *)
(* transfer->sgl_nents) would let j = sgl_nents, one past the array,       *)
(* through; transfer_build() does not rely on it.                          *)
(***************************************************************************)
InsideArray ==
  pc \in {"build", "bug_overrun", "terminate", "adjacent", "start", "started"}
    => j \in DOMAIN desc /\ desc_num \in 0..sgl_nents

Used == 0..desc_num - 1
BusOf(d) == desc_bus + d * DESC_SIZE

(***************************************************************************)
(* Started at desc_bus, the engine meets the descriptors 0..desc_num-1 in  *)
(* order, all with the magic number, and stops at the last one and at no   *)
(* other: the descriptors allocated for merged entries are never reached.  *)
(***************************************************************************)
ChainComplete ==
  pc = "started" =>
    /\ Join(first_desc.addr) = BusOf(0)
    /\ \A d \in Used : /\ desc[d].magic
                       /\ desc[d].stop <=> d = desc_num - 1
                       /\ ~desc[d].stop => Join(desc[d].next) = BusOf(d + 1)

(* The block of n descriptors fetched at descriptor d: all in the chain,   *)
(* and on one side of a 4K boundary.                                       *)
FetchOK(d, n) ==
  /\ n >= 1 /\ d + n <= desc_num
  /\ (BusOf(d) % FETCH_PAGE) + n * DESC_SIZE <= FETCH_PAGE

(***************************************************************************)
(* The engine prefetches the descriptors it is told are adjacent.  Neither *)
(* first_desc_adjacent, which transfer_start() does not clip at 4K, nor    *)
(* the adjacent field of any descriptor makes it read past the chain or    *)
(* across a 4K boundary.                                                   *)
(***************************************************************************)
FetchesInside ==
  pc = "started" =>
    /\ FetchOK(0, first_desc.adj + 1)
    /\ \A d \in 0..desc_num - 2 : FetchOK(d + 1, desc[d].extra + 1)

(* Descriptor d stores entry e at its place in the end point.              *)
Carries(d, e) ==
  LET src == Join(desc[d].src)
  IN  /\ src <= sgl[e].addr
      /\ sgl[e].addr + sgl[e].len <= src + desc[d].bytes
      /\ Join(desc[d].dst) - src = ppos + sgl[e].pos - sgl[e].addr

(***************************************************************************)
(* The chain stores the user buffer at *ppos, each byte once and nothing   *)
(* else: the destinations follow each other without gap or overlap from    *)
(* *ppos to *ppos + count, and every entry is carried, whole, by a         *)
(* descriptor with the displacement of that entry.  So merging entries     *)
(* never reads memory between two entries.                                 *)
(***************************************************************************)
TransferExact ==
  pc = "started" =>
    /\ Join(desc[0].dst) = ppos
    /\ \A d \in 0..desc_num - 2 :
         Join(desc[d + 1].dst) = Join(desc[d].dst) + desc[d].bytes
    /\ Join(desc[desc_num - 1].dst) + desc[desc_num - 1].bytes =
         ppos + sgl[sgl_nents - 1].pos + sgl[sgl_nents - 1].len
    /\ \A e \in 0..sgl_nents - 1 : \E d \in Used : Carries(d, e)

WithinMax == \A d \in Used : desc[d].bytes <= XDMA_DESC_MAX_BYTES

(***************************************************************************)
(* As long as no entry is longer than a page, no descriptor asks for more  *)
(* than XDMA_DESC_MAX_BYTES: transfer_build() ends a block while a whole   *)
(* page still fits.                                                        *)
(***************************************************************************)
DescWithinMax ==
  pc = "started" /\ (\A e \in DOMAIN sgl : sgl[e].len <= PAGE_SIZE)
    => WithinMax

(***************************************************************************)
(* What the comments say of a descriptor's length, for entries of any      *)
(* length: "maximum size of a single DMA transfer descriptor", of          *)
(* XDMA_DESC_MAX_BYTES, and "@len number of bytes, must be a               *)
(* (non-negative) multiple of 4", of xdma_desc_set().                      *)
(***************************************************************************)
DescLimits ==
  pc = "started" => WithinMax /\ \A d \in Used : desc[d].bytes % 4 = 0
============================================================================
