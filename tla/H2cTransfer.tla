---------------------------- MODULE H2cTransfer ----------------------------
(***************************************************************************)
(* One call of xpcie_h2c_write() from its user buffer to the started       *)
(* engine: the mapper (SgMapper) composed with the descriptor chain        *)
(* builder (XdmaTransfer).  pci_map_sg() joins the two: it turns the       *)
(* scatterlist of the one into the list of bus addresses of the other.     *)
(*                                                                         *)
(* XdmaTransfer takes any list IsSGL() admits; here the list comes from    *)
(* the mapper, for any placement of the pages in bus memory.               *)
(***************************************************************************)
EXTENDS SgMapper

CONSTANTS
  XDMA_DESC_MAX_BYTES, MAX_EXTRA_ADJ, DESC_SIZE, FETCH_PAGE, WORD,
  MaxEntries, DescBuses, EpAddrs,
  Frames      \* the pages of bus memory

ASSUME TransferAssumption ==
  /\ {XDMA_DESC_MAX_BYTES, DESC_SIZE, FETCH_PAGE, WORD} \subseteq Nat \ {0}
  /\ MAX_EXTRA_ADJ \in Nat
  /\ MaxEntries \in Nat /\ \A c \in Counts : MaxPages(c) <= MaxEntries
  /\ PAGE_SIZE <= XDMA_DESC_MAX_BYTES
  /\ WORD % FETCH_PAGE = 0 /\ FETCH_PAGE % DESC_SIZE = 0
  /\ DESC_SIZE * (MAX_EXTRA_ADJ + 1) <= FETCH_PAGE
  /\ EpAddrs \subseteq Nat /\ Frames \subseteq Nat
  /\ DescBuses \subseteq {b \in Nat : b % FETCH_PAGE = 0}

VARIABLES
  frame,     \* page of the buffer -> page of bus memory it is mapped to
  xpc, dsgl, sgl_nents, ppos, ep_addr, xi, j, addr, cont_addr, cont_len,
  desc, desc_bus, desc_num, first_desc

X == INSTANCE XdmaTransfer WITH pc <- xpc, sgl <- dsgl, i <- xi, SGLs <- {}

build == <<ep_addr, xi, j, addr, cont_addr, cont_len>>
chain == <<xpc, dsgl, sgl_nents, ppos, build, desc, desc_bus, desc_num,
           first_desc>>
allVars == <<vars, frame, chain>>

NoList == [e \in {} |-> 0]

WriteInit ==
  /\ Init
  /\ frame = NoList
  /\ xpc = "map_sg"
  /\ dsgl = NoList /\ sgl_nents = 0
  /\ ppos \in EpAddrs
  /\ ep_addr = ppos
  /\ xi = 0 /\ j = 0
  /\ addr = 0 /\ cont_addr = 0 /\ cont_len = 0
  /\ desc = X!NoDescs
  /\ desc_bus = 0 /\ desc_num = 0
  /\ first_desc = X!NoFirst
----------------------------------------------------------------------------
Pages == 0..mapped_pages - 1

(* The entry of the pages k to m, which follow each other in bus memory.   *)
Entry(at, k, m) ==
  LET from == at[k] * PAGE_SIZE + sgl[k].offset
      to   == at[m] * PAGE_SIZE + sgl[m].offset + sgl[m].length
  IN  [addr |-> from, len |-> to - from,
       pos  |-> IF k = 0 THEN 0 ELSE PageBase(k) - start]

(* The last page of entry e, of n entries that begin with pages head[e].   *)
LastPage(n, head, e) ==
  IF e < n - 1 THEN head[e + 1] - 1 ELSE mapped_pages - 1

(* The list of these n entries.                                            *)
Mapped(at, n, head) ==
  [e \in 0..n - 1 |-> Entry(at, head[e], LastPage(n, head, e))]

(* The ways to cut the pages into n entries, each of pages that follow     *)
(* each other where they are.                                              *)
Cuts(at, n) ==
  {head \in [0..n - 1 -> Pages] :
    /\ head[0] = 0
    /\ \A d, e \in 0..n - 1 : d < e => head[d] < head[e]
    /\ \A e \in 0..n - 1 : \A k \in head[e]..LastPage(n, head, e) :
         at[k] = at[head[e]] + (k - head[e])}

(***************************************************************************)
(* pci_map_sg(): places the pages anywhere, in any order, and may merge    *)
(* those that follow each other there; or maps nothing.                    *)
(***************************************************************************)
MapSg ==
  /\ pc = "mapped" /\ xpc = "map_sg"
  /\ frame' \in [Pages -> Frames]
  /\ \E n \in 1..mapped_pages : \E head \in Cuts(frame', n) :
       /\ dsgl' = Mapped(frame', n, head)
       /\ sgl_nents' \in {0, n}
  /\ xpc' = "alloc"
  /\ UNCHANGED <<vars, ppos, build, desc, desc_bus, desc_num, first_desc>>

BuildChain ==
  /\ X!DescAlloc \/ X!BuildEntry \/ X!BuildLast \/ X!Terminate \/ X!Adjacent
     \/ X!Start
  /\ UNCHANGED <<vars, frame>>

(* Mutant of Release: the pages go before the chain is made.               *)
ReleaseEarly ==
  PutUserPages /\ UNCHANGED <<frame, chain>>

(* pci_unmap_sg() and sgm_put_user_pages() come after transfer_start().    *)
Release ==
  /\ xpc = "started"
  /\ PutUserPages
  /\ UNCHANGED <<frame, chain>>

MapperStep ==
  /\ CreateMapper \/ GetUserPages \/ OutUnmap \/ KernelPages \/ FillFirst
     \/ FillNext \/ FillLast \/ CheckMapped \/ DestroyMapper
  /\ UNCHANGED <<frame, chain>>

WriteNext == MapperStep \/ MapSg \/ BuildChain \/ Release

(* The thread in the system call keeps running until the call is over.     *)
WriteSpec == WriteInit /\ [][WriteNext]_allVars /\ WF_allVars(WriteNext)
----------------------------------------------------------------------------
(* The scatterlist the fill loops leave, wherever its pages are placed and *)
(* however they are merged, gives the chain builder what it takes for      *)
(* granted: entries that follow each other in the buffer, without an empty *)
(* one, from its first byte to its last.                                   *)
ListFollows ==
  xpc # "map_sg" =>
    /\ X!IsSGL(dsgl)
    /\ \A e \in DOMAIN dsgl :
         e + 1 \in DOMAIN dsgl \/ dsgl[e].pos + dsgl[e].len = len

(* The bus address of byte b of the user buffer.                           *)
BusByte(b) ==
  LET a == start + b
  IN  frame[a \div PAGE_SIZE - first] * PAGE_SIZE + (a % PAGE_SIZE)

(* Descriptor d stores byte b of the buffer, and no other there.           *)
Stores(d, b) ==
  LET dst == X!Join(desc[d].dst)
  IN  /\ ppos + b \in dst..dst + desc[d].bytes - 1
      /\ X!Join(desc[d].src) + (ppos + b - dst) = BusByte(b)

(***************************************************************************)
(* End to end, from buf, count and *ppos to the chain the engine is        *)
(* started on: every byte of the user buffer is fetched from the bus       *)
(* address its page was mapped to and stored at *ppos plus its place in    *)
(* the buffer, by exactly one descriptor; and the chain reaches neither    *)
(* below *ppos nor past *ppos + count.                                     *)
(***************************************************************************)
WholeBuffer ==
  xpc = "started" =>
    /\ \A b \in 0..len - 1 : \E d \in X!Used :
         Stores(d, b) /\ \A x \in X!Used \ {d} :
           ppos + b \notin X!Join(desc[x].dst)..
                           X!Join(desc[x].dst) + desc[x].bytes - 1
    /\ \A d \in X!Used : /\ X!Join(desc[d].dst) >= ppos
                         /\ X!Join(desc[d].dst) + desc[d].bytes <= ppos + len

(***************************************************************************)
(* From pci_map_sg() to the start of the engine every page the chain names *)
(* is pinned and the mapper is whole: no descriptor is ever made for a     *)
(* page the kernel could give to somebody else.  A thread that dies on     *)
(* BUG_ON(number < 1) or on a NULL descriptor keeps its pages.             *)
(***************************************************************************)
PinnedWhileBuilt ==
  xpc \notin {"map_sg", "started"} => pinned = DOMAIN frame /\ heap = Objects

(* The thread died between pinning its pages and programming the engine.   *)
DiedUnstarted == xpc \in {"bug_number", "oops"} /\ first_desc = X!NoFirst

(* Every call comes to an end: it gets out of the loops that fill the      *)
(* scatterlist and build the chain and releases what it took, or it dies   *)
(* before the engine knows of it.                                          *)
TransferEnds == <>(Ended \/ DiedUnstarted)
============================================================================
