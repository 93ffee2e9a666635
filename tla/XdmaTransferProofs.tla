------------------------- MODULE XdmaTransferProofs -------------------------
(***************************************************************************)
(* Theorems about XdmaTransfer: for every scatterlist, every length and    *)
(* page size and every placement in bus memory the chain is complete,      *)
(* stays inside its array, is fetched within pages and stores the buffer   *)
(* exactly.                                                                *)
(***************************************************************************)
EXTENDS XdmaTransfer, ArithmeticFacts

Building == {"build", "terminate", "adjacent", "start", "started"}
Built    == Building \ {"build"}

Entry == [addr : Nat, len : Nat \ {0}, pos : Nat]

(* Before transfer_build().                                                *)
Fresh ==
  /\ pc \in {"map_sg", "alloc"} =>
       /\ i = 0 /\ j = 0 /\ cont_len = 0 /\ ep_addr = ppos
       /\ desc = NoDescs /\ desc_num = 0
  /\ pc = "alloc" => sgl_nents = 0 \/ DOMAIN sgl = 0..sgl_nents - 1

(* There is a descriptor for every entry, and no more are in use than      *)
(* entries were seen.                                                      *)
Allocated ==
  /\ pc # "bug_overrun"
  /\ pc \in Building =>
       /\ sgl_nents >= 1 /\ DOMAIN sgl = 0..sgl_nents - 1
       /\ desc \in [0..sgl_nents - 1 -> Descs]
       /\ desc_bus \in DescBuses
       /\ i \in 0..sgl_nents - 1 /\ j \in 0..i
       /\ desc_num = IF pc \in {"build", "terminate"} THEN 0 ELSE j + 1

(* Every descriptor leads to the next one; the last in use, once known,    *)
(* stops the engine.                                                       *)
Linked ==
  pc \in Building =>
    \A d \in 0..sgl_nents - 1 :
      /\ desc[d].magic
      /\ desc[d].stop <=> d = desc_num - 1
      /\ ~desc[d].stop /\ d < sgl_nents - 1 =>
           desc[d].next = Split(BusOf(d + 1))

(* The m descriptors written so far fill the end point from *ppos to at.   *)
Dst(d, m, at) == IF d = m THEN at ELSE Join(desc[d].dst)
Tiled(m, at) ==
  /\ Dst(0, m, at) = ppos
  /\ \A d \in 0..m - 1 :
       Dst(d + 1, m, at) = Join(desc[d].dst) + desc[d].bytes

(* Entry e is in the block being collected.                                *)
InBlock(e) ==
  /\ cont_addr <= sgl[e].addr
  /\ sgl[e].addr + sgl[e].len <= cont_addr + cont_len
  /\ ep_addr - cont_addr = ppos + sgl[e].pos - sgl[e].addr

(* The loop of transfer_build(): the block ends where entry i begins, in   *)
(* bus memory as in the end point, and every entry before i is carried by  *)
(* a descriptor or in the block.                                           *)
Collecting ==
  pc = "build" =>
    /\ addr = sgl[i].addr
    /\ cont_addr \in Nat /\ cont_addr + cont_len = addr
    /\ ep_addr + cont_len = ppos + sgl[i].pos
    /\ Tiled(j, ep_addr)
    /\ \A e \in 0..i - 1 : (\E d \in 0..j - 1 : Carries(d, e)) \/ InBlock(e)

(* After it: every entry is carried by one of the descriptors 0..j.        *)
Stored ==
  pc \in Built =>
    /\ i = sgl_nents - 1
    /\ Tiled(j + 1, ppos + sgl[i].pos + sgl[i].len)
    /\ \A e \in 0..sgl_nents - 1 : \E d \in 0..j : Carries(d, e)

(* With entries of at most a page, a block leaves room for one more.       *)
Limits ==
  (\A e \in DOMAIN sgl : sgl[e].len <= PAGE_SIZE) =>
    /\ pc = "build" =>
         /\ cont_len = 0 \/ cont_len <= XDMA_DESC_MAX_BYTES - PAGE_SIZE
         /\ \A d \in 0..j - 1 : desc[d].bytes <= XDMA_DESC_MAX_BYTES
    /\ pc \in Built => \A d \in 0..j : desc[d].bytes <= XDMA_DESC_MAX_BYTES

(* What is prefetched with each descriptor, and with the first.            *)
Prefetch ==
  /\ pc \in {"start", "started"} =>
       \A d \in 0..j : desc[d].extra = ExtraAdj(desc[d].next.lo, j - d)
  /\ pc = "started" =>
       first_desc = [adj  |-> MinOf(j, MAX_EXTRA_ADJ), addr |-> Split(desc_bus)]

IInv ==
  /\ TypeOK /\ Fresh /\ Allocated /\ Linked /\ Collecting /\ Stored /\ Limits
  /\ Prefetch
-----------------------------------------------------------------------------
(* PCI_DMA_L and PCI_DMA_H lose nothing of an address.                     *)
LEMMA SplitJoin ==
  ASSUME NEW a \in Nat
  PROVE  Split(a) \in Words /\ Join(Split(a)) = a
  <1>1. WORD \in Nat \ {0}
    BY SizeAssumption
  <1>2. a \div WORD \in Nat /\ a % WORD \in 0..WORD - 1
        /\ a = WORD * (a \div WORD) + (a % WORD)
    BY <1>1, DivMod
  <1>3. Split(a).lo = a % WORD /\ Split(a).hi = a \div WORD
    BY DEF Split
  <1>4. Split(a) \in Words
    BY <1>2 DEF Split, Words
  <1>5. Join(Split(a)) = (a % WORD) + WORD * (a \div WORD)
    BY <1>3 DEF Join
  <1>6. WORD * (a \div WORD) \in Int
    BY <1>1, <1>2
  <1> QED
    BY <1>2, <1>4, <1>5, <1>6

(* A scatterlist of n entries: they follow each other in the buffer.       *)
LEMMA ListFacts ==
  ASSUME IsSGL(sgl), NEW n \in Nat, n >= 1, DOMAIN sgl = 0..n - 1
  PROVE  /\ sgl \in [0..n - 1 -> Entry]
         /\ sgl[0].pos = 0
         /\ \A e \in 0..n - 2 : sgl[e + 1].pos = sgl[e].pos + sgl[e].len
         /\ \A e \in 0..n - 1 : /\ sgl[e].addr \in Nat /\ sgl[e].pos \in Nat
                                 /\ sgl[e].len \in Nat \ {0}
  <1>1. PICK m \in 1..MaxEntries :
          /\ sgl \in [0..m - 1 -> Entry]
          /\ sgl[0].pos = 0
          /\ \A e \in 0..m - 2 : sgl[e + 1].pos = sgl[e].pos + sgl[e].len
    BY DEF IsSGL, Entry
  <1>2. m \in Nat /\ m >= 1
    BY SizeAssumption
  <1>3. 0..m - 1 = 0..n - 1
    BY <1>1
  <1>4. m - 1 \in 0..n - 1 /\ n - 1 \in 0..m - 1
    BY <1>2, <1>3
  <1>5. m = n
    BY <1>2, <1>4
  <1>6. \A e \in 0..n - 1 : sgl[e] \in Entry
    BY <1>1, <1>5
  <1> QED
    BY <1>1, <1>5, <1>6 DEF Entry

(* What xdma_desc_set() writes, and what it leaves alone.                  *)
LEMMA SetFacts ==
  ASSUME NEW n \in Nat, desc \in [0..n - 1 -> Descs], NEW d \in 0..n - 1,
         NEW a \in Nat, NEW e \in Nat, NEW l \in Nat, DescSet(d, a, e, l)
  PROVE  /\ desc' \in [0..n - 1 -> Descs]
         /\ \A x \in (0..n - 1) \ {d} : desc'[x] = desc[x]
         /\ desc'[d].bytes = l
         /\ Join(desc'[d].src) = a /\ Join(desc'[d].dst) = e
         /\ desc'[d].magic = desc[d].magic /\ desc'[d].stop = desc[d].stop
         /\ desc'[d].next = desc[d].next
  <1>1. /\ Split(a) \in Words /\ Join(Split(a)) = a
        /\ Split(e) \in Words /\ Join(Split(e)) = e
    BY SplitJoin
  <1>2. desc' = [desc EXCEPT ![d] = [desc[d] EXCEPT !.bytes = l, !.src = Split(a),
                                                   !.dst = Split(e)]]
    BY DEF DescSet
  <1>3. desc[d] \in Descs
    OBVIOUS
  <1>4. /\ desc'[d] = [desc[d] EXCEPT !.bytes = l, !.src = Split(a),
                                      !.dst = Split(e)]
        /\ \A x \in (0..n - 1) \ {d} : desc'[x] = desc[x]
    BY <1>2
  <1>5. /\ desc'[d].bytes = l /\ desc'[d].src = Split(a)
        /\ desc'[d].dst = Split(e)
        /\ desc'[d].magic = desc[d].magic /\ desc'[d].stop = desc[d].stop
        /\ desc'[d].next = desc[d].next
        /\ desc'[d] \in Descs
    BY <1>1, <1>3, <1>4 DEF Descs
  <1> QED
    BY <1>1, <1>2, <1>4, <1>5

(* The first states satisfy the invariant.                                 *)
LEMMA InitIInv == Init => IInv
  <1> SUFFICES ASSUME Init
               PROVE  IInv
    OBVIOUS
  <1>1. Split(0) \in Words
    BY SplitJoin
  <1>2. first_desc \in [adj : Int, addr : Words]
    BY <1>1 DEF Init, NoFirst
  <1>3. IsSGL(sgl) /\ ppos \in Nat
    BY InputAssumption DEF Init
  <1> QED
    BY <1>2, <1>3 DEF Init, IInv, TypeOK, Fresh, Allocated, Linked, Collecting,
       Stored, Limits, Prefetch, Building, Built

(* The array xdma_desc_alloc() makes.                                      *)
LEMMA NewFacts ==
  ASSUME NEW n \in Nat, n >= 1, NEW bus \in Nat
  PROVE  /\ NewDescs(n, bus) \in [0..n - 1 -> Descs]
         /\ \A d \in 0..n - 1 :
              /\ NewDescs(n, bus)[d].magic /\ ~NewDescs(n, bus)[d].stop
              /\ d < n - 1 =>
                   NewDescs(n, bus)[d].next = Split(bus + (d + 1) * DESC_SIZE)
  <1>1. ASSUME NEW d \in 0..n - 1
        PROVE  /\ NewDescs(n, bus)[d] \in Descs
               /\ NewDescs(n, bus)[d].magic /\ ~NewDescs(n, bus)[d].stop
               /\ d < n - 1 =>
                    NewDescs(n, bus)[d].next = Split(bus + (d + 1) * DESC_SIZE)
    <2>1. (d + 1) * DESC_SIZE \in Nat
      BY SizeAssumption
    <2>2. /\ Split(0) \in Words
          /\ Split(IF d < n - 1 THEN bus + (d + 1) * DESC_SIZE ELSE 0) \in Words
      BY <2>1, SplitJoin
    <2>3. (IF d < n - 1 THEN MinOf(n - d - 2, MAX_EXTRA_ADJ) ELSE 0) \in Int
      BY SizeAssumption DEF MinOf
    <2> QED
      BY <2>2, <2>3 DEF NewDescs, Descs
  <1>2. DOMAIN NewDescs(n, bus) = 0..n - 1
    BY DEF NewDescs
  <1>3. NewDescs(n, bus) = [d \in 0..n - 1 |-> NewDescs(n, bus)[d]]
    BY DEF NewDescs
  <1> QED
    BY <1>1, <1>3

(* pci_map_sg().                                                           *)
LEMMA MapSgKeeps == IInv /\ MapSg => IInv'
  <1> SUFFICES ASSUME IInv, MapSg
               PROVE  IInv'
    OBVIOUS
  <1> USE DEF IInv
  <1>1. /\ pc = "map_sg" /\ pc' = "alloc"
        /\ UNCHANGED <<sgl, ppos, ep_addr, i, j, addr, cont_addr, cont_len,
                       desc, desc_bus, desc_num, first_desc>>
    BY DEF MapSg, build
  <1>2. sgl_nents' \in Nat /\ (sgl_nents' = 0 \/ DOMAIN sgl = 0..sgl_nents' - 1)
    BY SizeAssumption DEF MapSg
  <1>3. TypeOK' /\ Fresh'
    BY <1>1, <1>2 DEF TypeOK, Fresh
  <1> QED
    BY <1>1, <1>3 DEF Allocated, Linked, Collecting, Stored, Limits, Prefetch,
       Building, Built

(* xdma_desc_alloc() and the start of transfer_build().                    *)
LEMMA DescAllocKeeps == IInv /\ DescAlloc => IInv'
  <1> SUFFICES ASSUME IInv, DescAlloc
               PROVE  IInv'
    OBVIOUS
  <1> USE DEF IInv
  <1>1. /\ pc = "alloc"
        /\ UNCHANGED <<sgl, sgl_nents, ppos, ep_addr, i, j, cont_len, desc_num,
                       first_desc>>
    BY DEF DescAlloc, input
  <1>2. CASE pc' \in {"bug_number", "oops"} /\ UNCHANGED <<desc, desc_bus, addr, cont_addr>>
    BY <1>1, <1>2 DEF TypeOK, Fresh, Allocated, Linked, Collecting, Stored,
       Limits, Prefetch, Building, Built
  <1>3. CASE /\ sgl_nents >= 1 /\ pc' = "build"
             /\ desc_bus' \in DescBuses
             /\ desc' = NewDescs(sgl_nents, desc_bus')
             /\ addr' = sgl[0].addr /\ cont_addr' = sgl[0].addr
    <2>1. /\ i = 0 /\ j = 0 /\ cont_len = 0 /\ ep_addr = ppos /\ desc_num = 0
          /\ DOMAIN sgl = 0..sgl_nents - 1 /\ sgl_nents \in Nat /\ ppos \in Nat
      BY <1>1, <1>3 DEF Fresh, TypeOK
    <2>2. sgl[0].pos = 0 /\ sgl[0].addr \in Nat
      BY <1>3, <2>1, ListFacts DEF TypeOK
    <2>3. desc_bus' \in Nat
      BY <1>3, InputAssumption
    <2>4. /\ desc' \in [0..sgl_nents - 1 -> Descs]
          /\ \A d \in 0..sgl_nents - 1 :
               /\ desc'[d].magic /\ ~desc'[d].stop
               /\ d < sgl_nents - 1 =>
                    desc'[d].next = Split(desc_bus' + (d + 1) * DESC_SIZE)
      BY <1>3, <2>1, <2>3, NewFacts
    <2>5. TypeOK'
      BY <1>1, <1>3, <2>1, <2>2, <2>3, <2>4 DEF TypeOK
    <2>6. Fresh' /\ Allocated'
      BY <1>1, <1>3, <2>1, <2>4 DEF Fresh, Allocated, Building
    <2>7. Linked'
      BY <1>1, <1>3, <2>1, <2>4 DEF Linked, BusOf
    <2>8. Collecting'
      BY <1>1, <1>3, <2>1, <2>2 DEF Collecting, Tiled, Dst
    <2>9. Stored' /\ Limits' /\ Prefetch'
      BY <1>1, <1>3, <2>1 DEF Stored, Limits, Prefetch, Built, Building
    <2> QED
      BY <2>5, <2>6, <2>7, <2>8, <2>9
  <1> QED
    BY <1>2, <1>3 DEF DescAlloc

(* An entry that begins where a block ends has the block's displacement.   *)
LEMMA AtBlockEnd ==
  ASSUME NEW c \in Nat, NEW l \in Nat, NEW a \in Nat, NEW s \in Nat,
         NEW p \in Nat, NEW q \in Nat, NEW ep \in Nat,
         c + l = a, ep + l = p + q
  PROVE  c <= a /\ a + s <= c + (l + s) /\ ep - c = p + q - a
  OBVIOUS

(* The block that takes it in ends where it ends, in both memories.        *)
LEMMA BlockEndMoves ==
  ASSUME NEW c \in Nat, NEW l \in Nat, NEW a \in Nat, NEW s \in Nat,
         NEW p \in Nat, NEW q \in Nat, NEW ep \in Nat,
         c + l = a, ep + l = p + q
  PROVE  c + (l + s) = a + s /\ ep + (l + s) = p + (q + s)
  OBVIOUS

(* A block that ends is written to descriptor j: the descriptors written   *)
(* tile the end point as before, up to the end of the block, and carry     *)
(* what was in it.                                                         *)
LEMMA BlockEnds ==
  ASSUME IInv, pc = "build", UNCHANGED <<sgl, sgl_nents, ppos>>,
         DescSet(j, cont_addr, ep_addr, cont_len + sgl[i].len)
  PROVE  /\ desc' \in [0..sgl_nents - 1 -> Descs]
         /\ \A d \in 0..sgl_nents - 1 :
              /\ desc'[d].magic = desc[d].magic /\ desc'[d].stop = desc[d].stop
              /\ desc'[d].next = desc[d].next
              /\ d # j => desc'[d] = desc[d]
         /\ desc'[j].bytes = cont_len + sgl[i].len
         /\ \A d \in 0..j : Join(desc'[d].dst) = Dst(d, j, ep_addr)
         /\ \A e \in 0..i : \E d \in 0..j : Carries(d, e)'
  <1> USE DEF IInv
  <1>1. /\ sgl_nents \in Nat /\ sgl_nents >= 1 /\ DOMAIN sgl = 0..sgl_nents - 1
        /\ desc \in [0..sgl_nents - 1 -> Descs]
        /\ i \in 0..sgl_nents - 1 /\ j \in 0..i
        /\ ep_addr \in Nat /\ cont_len \in Nat /\ ppos \in Nat
        /\ cont_addr \in Nat
        /\ IsSGL(sgl)
    BY DEF Allocated, Building, TypeOK, Collecting
  <1>2. \A e \in 0..sgl_nents - 1 :
          /\ sgl[e].addr \in Nat /\ sgl[e].pos \in Nat
          /\ sgl[e].len \in Nat \ {0}
    BY <1>1, ListFacts
  <1> DEFINE cont == cont_len + sgl[i].len
  <1>3. cont \in Nat /\ j \in 0..sgl_nents - 1
    BY <1>1, <1>2
  <1>4. /\ desc' \in [0..sgl_nents - 1 -> Descs]
        /\ \A x \in (0..sgl_nents - 1) \ {j} : desc'[x] = desc[x]
        /\ desc'[j].bytes = cont
        /\ Join(desc'[j].src) = cont_addr /\ Join(desc'[j].dst) = ep_addr
        /\ desc'[j].magic = desc[j].magic /\ desc'[j].stop = desc[j].stop
        /\ desc'[j].next = desc[j].next
    BY <1>1, <1>3, SetFacts
  <1>5. \A d \in 0..j : Join(desc'[d].dst) = Dst(d, j, ep_addr)
    BY <1>1, <1>4 DEF Dst
  <1>6. ASSUME NEW e \in 0..i,
               cont_addr <= sgl[e].addr,
               sgl[e].addr + sgl[e].len <= cont_addr + cont,
               ep_addr - cont_addr = ppos + sgl[e].pos - sgl[e].addr
        PROVE  \E d \in 0..j : Carries(d, e)'
    <2>1. PICK d \in 0..j : d = j
      BY <1>1
    <2>2. /\ Join(desc[d].src)' = cont_addr /\ Join(desc[d].dst)' = ep_addr
          /\ desc'[d].bytes = cont
      BY <1>4, <2>1 DEF Join
    <2>3. Carries(d, e)'
      BY <1>6, <2>2 DEF Carries
    <2> QED
      BY <2>3
  <1>7. ASSUME NEW e \in 0..i
        PROVE  \E d \in 0..j : Carries(d, e)'
    <2>1. ASSUME NEW d \in 0..j - 1, Carries(d, e)
          PROVE  Carries(d, e)' /\ d \in 0..j
      <3>1. desc'[d] = desc[d]
        BY <1>1, <1>4
      <3> QED
        BY <1>1, <2>1, <3>1 DEF Carries
    <2>2. /\ sgl[e].addr \in Nat /\ sgl[e].pos \in Nat /\ sgl[e].len \in Nat
          /\ sgl[i].len \in Nat
      BY <1>1, <1>2
    <2>3. CASE InBlock(e)
      <3>1. /\ cont_addr <= sgl[e].addr
            /\ sgl[e].addr + sgl[e].len <= cont_addr + cont_len
            /\ ep_addr - cont_addr = ppos + sgl[e].pos - sgl[e].addr
        BY <2>3 DEF InBlock
      <3>2. sgl[e].addr + sgl[e].len <= cont_addr + cont
        BY <1>1, <2>2, <3>1
      <3> QED
        BY <1>6, <3>1, <3>2
    <2>4. CASE e = i
      <3>1. /\ cont_addr + cont_len = sgl[e].addr
            /\ ep_addr + cont_len = ppos + sgl[e].pos
        BY <2>4 DEF Collecting
      <3>2. PICK a \in Nat, l \in Nat, p \in Nat :
              a = sgl[e].addr /\ l = sgl[e].len /\ p = sgl[e].pos
        BY <2>2
      <3>3. /\ cont_addr <= a
            /\ a + l <= cont_addr + (cont_len + l)
            /\ ep_addr - cont_addr = ppos + p - a
        <4>1. /\ cont_addr \in Nat /\ cont_len \in Nat /\ ppos \in Nat
              /\ ep_addr \in Nat
          BY <1>1
        <4>2. cont_addr + cont_len = a /\ ep_addr + cont_len = ppos + p
          BY <3>1, <3>2
        <4> HIDE DEF IInv
        <4> QED
          BY <4>1, <4>2, AtBlockEnd
      <3> QED
        BY <1>6, <2>4, <3>2, <3>3
    <2>5. CASE e \in 0..i - 1
      <3>1. (\E d \in 0..j - 1 : Carries(d, e)) \/ InBlock(e)
        BY <2>5 DEF Collecting
      <3> QED
        BY <2>1, <2>3, <3>1
    <2> QED
      BY <1>1, <2>4, <2>5
  <1> QED
    BY <1>3, <1>4, <1>5, <1>7

(* So the end point is filled one block further.                           *)
LEMMA TiledGrows ==
  ASSUME IInv, pc = "build", UNCHANGED <<sgl, sgl_nents, ppos>>,
         DescSet(j, cont_addr, ep_addr, cont_len + sgl[i].len),
         NEW m, NEW at, m = j + 1, at = ep_addr + (cont_len + sgl[i].len)
  PROVE  Tiled(m, at)'
  <1>1. /\ Tiled(j, ep_addr) /\ j \in Nat /\ j <= sgl_nents - 1
        /\ sgl_nents \in Nat
    BY DEF IInv, Collecting, Allocated, Building, TypeOK
  <1>2. /\ \A d \in 0..j : Join(desc'[d].dst) = Dst(d, j, ep_addr)
        /\ desc'[j].bytes = cont_len + sgl[i].len
        /\ \A d \in 0..sgl_nents - 1 : d # j => desc'[d] = desc[d]
    BY BlockEnds
  <1>3. \A d \in 0..j : Join(desc[d].dst)' = Dst(d, j, ep_addr)
    BY <1>2 DEF Join
  <1>4. Dst(0, m, at)' = ppos'
    BY <1>1, <1>3 DEF Dst, Tiled
  <1>5. ASSUME NEW d \in 0..m - 1
        PROVE  Dst(d + 1, m, at)' = Join(desc[d].dst)' + desc'[d].bytes
    <2>1. CASE d = j
      BY <1>1, <1>2, <1>3, <2>1 DEF Dst
    <2>2. CASE d \in 0..j - 1
      <3>1. desc'[d].bytes = desc[d].bytes
        BY <1>1, <1>2, <2>2
      <3>2. Dst(d + 1, m, at)' = Dst(d + 1, j, ep_addr)
        BY <1>1, <1>3, <2>2 DEF Dst
      <3>3. Join(desc[d].dst)' = Join(desc[d].dst)
        BY <1>1, <1>3, <2>2 DEF Dst
      <3> QED
        BY <1>1, <2>2, <3>1, <3>2, <3>3 DEF Tiled
    <2> QED
      BY <1>1, <2>1, <2>2
  <1> QED
    BY <1>4, <1>5 DEF Tiled

(* A block that ends is within the limit: it had room for entry i.         *)
LEMMA LimitsGrow ==
  ASSUME IInv, pc = "build", UNCHANGED <<sgl, sgl_nents, ppos>>,
         DescSet(j, cont_addr, ep_addr, cont_len + sgl[i].len),
         \A e \in DOMAIN sgl : sgl[e].len <= PAGE_SIZE
  PROVE  \A d \in 0..j : desc'[d].bytes <= XDMA_DESC_MAX_BYTES
  <1>1. /\ j \in Nat /\ j <= sgl_nents - 1 /\ sgl_nents \in Nat
        /\ sgl_nents >= 1 /\ i \in 0..sgl_nents - 1
        /\ DOMAIN sgl = 0..sgl_nents - 1 /\ IsSGL(sgl) /\ cont_len \in Nat
    BY DEF IInv, Allocated, Building, TypeOK
  <1>2. /\ desc'[j].bytes = cont_len + sgl[i].len
        /\ \A d \in 0..sgl_nents - 1 : d # j => desc'[d] = desc[d]
    BY BlockEnds
  <1>3. /\ cont_len = 0 \/ cont_len <= XDMA_DESC_MAX_BYTES - PAGE_SIZE
        /\ \A d \in 0..j - 1 : desc[d].bytes <= XDMA_DESC_MAX_BYTES
    BY DEF IInv, Limits
  <1>4. sgl[i].len \in Nat /\ sgl[i].len <= PAGE_SIZE
    BY <1>1, ListFacts
  <1>5. /\ PAGE_SIZE \in Nat /\ XDMA_DESC_MAX_BYTES \in Nat
        /\ PAGE_SIZE <= XDMA_DESC_MAX_BYTES
    BY SizeAssumption
  <1>6. cont_len + sgl[i].len <= XDMA_DESC_MAX_BYTES
    BY <1>1, <1>3, <1>4, <1>5
  <1> QED
    BY <1>1, <1>2, <1>3, <1>6

(* One round of the loop of transfer_build().                              *)
LEMMA BuildEntryKeeps == IInv /\ BuildEntry => IInv'
  <1> SUFFICES ASSUME IInv, BuildEntry
               PROVE  IInv'
    OBVIOUS
  <1> DEFINE next == sgl[i + 1].addr
             len  == sgl[i].len
             cont == cont_len + len
  <1>1. /\ pc = "build" /\ pc' = "build" /\ i < sgl_nents - 1
        /\ addr' = next /\ i' = i + 1
        /\ UNCHANGED <<sgl, sgl_nents, ppos, desc_bus, desc_num, first_desc>>
    BY DEF BuildEntry, input
  <1>2. /\ sgl_nents \in Nat /\ sgl_nents >= 1 /\ DOMAIN sgl = 0..sgl_nents - 1
        /\ desc \in [0..sgl_nents - 1 -> Descs] /\ desc_bus \in DescBuses
        /\ i \in Nat /\ j \in 0..i /\ desc_num = 0
        /\ ep_addr \in Nat /\ cont_len \in Nat /\ ppos \in Nat
        /\ cont_addr \in Nat /\ desc_bus \in Nat
        /\ IsSGL(sgl) /\ first_desc \in [adj : Int, addr : Words]
    BY <1>1 DEF IInv, Allocated, Building, TypeOK, Collecting
  <1>3. /\ i \in 0..sgl_nents - 2 /\ i \in 0..sgl_nents - 1
        /\ i + 1 \in 0..sgl_nents - 1
    BY <1>1, <1>2
  <1>4. /\ next \in Nat /\ len \in Nat /\ sgl[i].pos \in Nat
        /\ sgl[i].addr \in Nat
        /\ sgl[i + 1].pos = sgl[i].pos + len
    BY <1>2, <1>3, ListFacts
  <1>5. /\ addr = sgl[i].addr /\ cont_addr + cont_len = addr
        /\ ep_addr + cont_len = ppos + sgl[i].pos
        /\ Tiled(j, ep_addr)
        /\ \A e \in 0..i - 1 : (\E d \in 0..j - 1 : Carries(d, e)) \/ InBlock(e)
    BY <1>1 DEF IInv, Collecting
  <1>6. /\ cont \in Nat /\ ep_addr + cont \in Nat
        /\ cont_addr + cont = addr + len
        /\ ep_addr + cont = ppos + sgl[i + 1].pos
    <2>1. /\ cont_addr \in Nat /\ cont_len \in Nat /\ ppos \in Nat
          /\ ep_addr \in Nat /\ len \in Nat /\ sgl[i].pos \in Nat
          /\ addr \in Nat
      BY <1>2, <1>4, <1>5
    <2>2. cont \in Nat /\ ep_addr + cont \in Nat
      BY <2>1
    <2>3. /\ cont_addr + cont_len = addr
          /\ ep_addr + cont_len = ppos + sgl[i].pos
      BY <1>5
    <2>4. /\ cont_addr + cont = addr + len
          /\ ep_addr + cont = ppos + (sgl[i].pos + len)
      BY <2>1, <2>3, BlockEndMoves
    <2> QED
      BY <1>4, <2>2, <2>4
  <1> HIDE DEF cont, len, next
  <1>7. Fresh' /\ Stored' /\ Prefetch'
    BY <1>1 DEF Fresh, Stored, Prefetch, Built
  <1>8. CASE NewDesc(next, len, cont)
    <2>1. /\ DescSet(j, cont_addr, ep_addr, cont)
          /\ ep_addr' = ep_addr + cont /\ cont_addr' = next
          /\ cont_len' = 0 /\ j' = j + 1
      BY <1>8 DEF BuildEntry, cont, len, next
    <2>2. /\ desc' \in [0..sgl_nents - 1 -> Descs]
          /\ \A d \in 0..sgl_nents - 1 :
               /\ desc'[d].magic = desc[d].magic /\ desc'[d].stop = desc[d].stop
               /\ desc'[d].next = desc[d].next
          /\ \A e \in 0..i : \E d \in 0..j : Carries(d, e)'
      BY <1>1, <2>1, BlockEnds DEF cont, len
    <2>3. TypeOK'
      BY <1>1, <1>2, <1>4, <1>6, <2>1, <2>2 DEF TypeOK
    <2>4. Allocated'
      BY <1>1, <1>2, <1>3, <2>1, <2>2 DEF Allocated, Building
    <2>5. Linked'
      BY <1>1, <1>2, <2>2 DEF IInv, Linked, Building, BusOf
    <2>6. ep_addr' + cont_len' = ppos + sgl[i + 1].pos
      BY <1>6, <2>1
    <2>7. Tiled(j, ep_addr)'
      <3>1. PICK m, at : m = j + 1 /\ at = ep_addr + cont
        OBVIOUS
      <3>2. Tiled(m, at)'
        BY <1>1, <2>1, <3>1, TiledGrows DEF cont, len
      <3> QED
        BY <2>1, <3>1, <3>2 DEF Tiled, Dst
    <2>8. \A e \in 0..i' - 1 : \E d \in 0..j' - 1 : Carries(d, e)'
      BY <1>1, <1>2, <2>1, <2>2
    <2>9. Collecting'
      BY <1>1, <1>4, <2>1, <2>6, <2>7, <2>8 DEF Collecting, next
    <2>10. Limits'
      BY <1>1, <1>2, <2>1, LimitsGrow DEF Limits, Built, cont, len
    <2> QED
      BY <1>7, <2>3, <2>4, <2>5, <2>9, <2>10 DEF IInv
  <1>9. CASE ~NewDesc(next, len, cont)
    <2>1. /\ cont_len' = cont
          /\ UNCHANGED <<desc, ep_addr, cont_addr, j>>
      BY <1>9 DEF BuildEntry, cont, len, next
    <2>2. next = addr + len /\ ~(cont > XDMA_DESC_MAX_BYTES - PAGE_SIZE)
      BY <1>9 DEF NewDesc
    <2>3. TypeOK'
      BY <1>1, <1>2, <1>4, <1>6, <2>1 DEF TypeOK
    <2>4. Allocated'
      BY <1>1, <1>2, <1>3, <2>1 DEF Allocated, Building
    <2>5. Linked'
      BY <1>1, <1>2, <2>1 DEF IInv, Linked, Building, BusOf
    <2>6. /\ cont_addr' \in Nat /\ cont_addr' + cont_len' = addr'
          /\ ep_addr' + cont_len' = ppos + sgl[i + 1].pos
      BY <1>1, <1>2, <1>6, <2>1, <2>2
    <2>7. Tiled(j, ep_addr)'
      BY <1>1, <1>5, <2>1 DEF Tiled, Dst, Join
    <2>8. ASSUME NEW e \in 0..i
          PROVE  (\E d \in 0..j - 1 : Carries(d, e)') \/ InBlock(e)'
      <3>1. ASSUME NEW d \in 0..j - 1, Carries(d, e)
            PROVE  Carries(d, e)'
        BY <1>1, <2>1, <3>1 DEF Carries
      <3>2. CASE InBlock(e)
        <4>1. sgl[e].addr \in Nat /\ sgl[e].len \in Nat
          BY <1>2, <1>3, ListFacts
        <4>2. sgl[e].addr + sgl[e].len <= cont_addr + cont_len
          BY <3>2 DEF InBlock
        <4>3. sgl[e].addr + sgl[e].len <= cont_addr + cont
          <5>1. PICK x \in Nat : x = sgl[e].addr + sgl[e].len
            BY <4>1
          <5>2. x <= cont_addr + cont_len
            BY <4>2, <5>1
          <5>3. x <= cont_addr + (cont_len + len)
            BY <1>2, <1>4, <5>2
          <5> QED
            BY <5>1, <5>3 DEF cont
        <4> QED
          BY <1>1, <2>1, <3>2, <4>3 DEF InBlock
      <3>3. CASE e = i
        <4>1. PICK a \in Nat, l \in Nat, p \in Nat :
                a = sgl[e].addr /\ l = sgl[e].len /\ p = sgl[e].pos
          BY <1>4, <3>3 DEF len
        <4>2. /\ cont_addr <= a
              /\ a + l <= cont_addr + (cont_len + l)
              /\ ep_addr - cont_addr = ppos + p - a
          <5>1. /\ cont_addr \in Nat /\ cont_len \in Nat /\ ppos \in Nat
                /\ ep_addr \in Nat
            BY <1>2
          <5>2. cont_addr + cont_len = a /\ ep_addr + cont_len = ppos + p
            BY <1>5, <3>3, <4>1
          <5> QED
            BY <5>1, <5>2, AtBlockEnd
        <4> QED
          BY <1>1, <2>1, <3>3, <4>1, <4>2 DEF InBlock, cont, len
      <3>4. CASE e \in 0..i - 1
        <4>1. (\E d \in 0..j - 1 : Carries(d, e)) \/ InBlock(e)
          BY <1>5, <3>4
        <4> QED
          BY <3>1, <3>2, <4>1
      <3>5. e = i \/ e \in 0..i - 1
        BY <1>2
      <3> QED
        BY <3>3, <3>4, <3>5
    <2>9. Collecting'
      BY <1>1, <1>2, <2>1, <2>6, <2>7, <2>8 DEF Collecting, next
    <2>10. cont <= XDMA_DESC_MAX_BYTES - PAGE_SIZE
      <3>1. PAGE_SIZE \in Nat /\ XDMA_DESC_MAX_BYTES \in Nat
        BY SizeAssumption
      <3> QED
        BY <1>6, <2>2, <3>1
    <2>11. Limits'
      BY <1>1, <2>1, <2>10 DEF IInv, Limits, Built
    <2> QED
      BY <1>7, <2>3, <2>4, <2>5, <2>9, <2>11 DEF IInv
  <1> QED
    BY <1>8, <1>9

(* The last entry ends the last block.                                     *)
LEMMA BuildLastKeeps == IInv /\ BuildLast => IInv'
  <1> SUFFICES ASSUME IInv, BuildLast
               PROVE  IInv'
    OBVIOUS
  <1> DEFINE len  == sgl[i].len
             cont == cont_len + len
  <1>1. /\ pc = "build" /\ i >= sgl_nents - 1 /\ cont_len' = cont
        /\ UNCHANGED <<sgl, sgl_nents, ppos, ep_addr, i, j, addr, cont_addr,
                       desc_bus, desc_num, first_desc>>
    BY DEF BuildLast, input
  <1>2. /\ sgl_nents \in Nat /\ sgl_nents >= 1 /\ DOMAIN sgl = 0..sgl_nents - 1
        /\ desc \in [0..sgl_nents - 1 -> Descs] /\ desc_bus \in DescBuses
        /\ i \in 0..sgl_nents - 1 /\ j \in 0..i /\ desc_num = 0
        /\ ep_addr \in Nat /\ cont_len \in Nat /\ ppos \in Nat
        /\ cont_addr \in Nat /\ addr \in Int /\ desc_bus \in Nat
        /\ IsSGL(sgl) /\ first_desc \in [adj : Int, addr : Words]
    BY <1>1 DEF IInv, Allocated, Building, TypeOK, Collecting
  <1>3. i = sgl_nents - 1 /\ ~(j > sgl_nents) /\ i \in Nat /\ j \in Nat
    BY <1>1, <1>2
  <1>4. /\ DescSet(j, cont_addr, ep_addr, cont) /\ pc' = "terminate"
    BY <1>1, <1>3 DEF BuildLast
  <1>5. len \in Nat /\ sgl[i].pos \in Nat /\ sgl[i].addr \in Nat
    BY <1>2, ListFacts
  <1>6. cont \in Nat /\ ep_addr + cont = ppos + sgl[i].pos + len
    <2>1. /\ cont_addr + cont_len = sgl[i].addr
          /\ ep_addr + cont_len = ppos + sgl[i].pos
      BY <1>1 DEF IInv, Collecting
    <2>2. PICK q \in Nat, l \in Nat : q = sgl[i].pos /\ l = len
      BY <1>5
    <2>3. ep_addr \in Nat /\ cont_len \in Nat /\ ppos \in Nat
      BY <1>2
    <2>4. ep_addr + cont_len = ppos + q
      BY <2>1, <2>2
    <2>5. cont_len + l \in Nat /\ ep_addr + (cont_len + l) = ppos + q + l
      BY <2>2, <2>3, <2>4
    <2> QED
      BY <2>2, <2>5
  <1>7. /\ desc' \in [0..sgl_nents - 1 -> Descs]
        /\ \A d \in 0..sgl_nents - 1 :
             /\ desc'[d].magic = desc[d].magic /\ desc'[d].stop = desc[d].stop
             /\ desc'[d].next = desc[d].next
        /\ \A e \in 0..i : \E d \in 0..j : Carries(d, e)'
    BY <1>1, <1>4, BlockEnds
  <1>8. Tiled(j + 1, ppos + sgl[i].pos + sgl[i].len)'
    <2>1. PICK m, at : m = j + 1 /\ at = ep_addr + cont
      OBVIOUS
    <2>2. Tiled(m, at)'
      BY <1>1, <1>4, <2>1, TiledGrows
    <2>3. at = (ppos + sgl[i].pos + sgl[i].len)' /\ m = j' + 1
      BY <1>1, <1>6, <2>1
    <2> QED
      BY <2>2, <2>3 DEF Tiled, Dst
  <1>9. (\A e \in DOMAIN sgl : sgl[e].len <= PAGE_SIZE) =>
          \A d \in 0..j : desc'[d].bytes <= XDMA_DESC_MAX_BYTES
    BY <1>1, <1>4, LimitsGrow
  <1> HIDE DEF cont, len
  <1>10. TypeOK'
    BY <1>1, <1>2, <1>3, <1>4, <1>6, <1>7 DEF TypeOK
  <1>11. Allocated'
    BY <1>1, <1>2, <1>4, <1>7 DEF Allocated, Building
  <1>12. Linked'
    BY <1>1, <1>2, <1>4, <1>7 DEF IInv, Linked, Building, BusOf
  <1>13. \A e \in 0..sgl_nents' - 1 : \E d \in 0..j' : Carries(d, e)'
    BY <1>1, <1>3, <1>7
  <1>14. Stored'
    BY <1>1, <1>3, <1>8, <1>13 DEF Stored
  <1>15. Limits'
    BY <1>1, <1>4, <1>9 DEF Limits, Built
  <1>16. Fresh' /\ Collecting' /\ Prefetch'
    BY <1>4 DEF Fresh, Collecting, Prefetch
  <1> QED
    BY <1>10, <1>11, <1>12, <1>14, <1>15, <1>16 DEF IInv

(* What the descriptors store does not change once they are written.       *)
LEMMA StoredKept ==
  ASSUME IInv, pc \in Built, pc' \in Built,
         UNCHANGED <<sgl, sgl_nents, ppos, i, j>>,
         \A d \in 0..j : /\ desc'[d].src = desc[d].src
                          /\ desc'[d].dst = desc[d].dst
                          /\ desc'[d].bytes = desc[d].bytes
  PROVE  Stored' /\ Limits'
  <1>1. j \in Nat /\ sgl_nents \in Nat
    BY DEF IInv, TypeOK
  <1>2. /\ i = sgl_nents - 1
        /\ Tiled(j + 1, ppos + sgl[i].pos + sgl[i].len)
        /\ \A e \in 0..sgl_nents - 1 : \E d \in 0..j : Carries(d, e)
    BY DEF IInv, Stored
  <1>3. \A d \in 0..j : Join(desc[d].dst)' = Join(desc[d].dst)
    BY DEF Join
  <1>4. ASSUME NEW d \in 0..j, NEW e, Carries(d, e)
        PROVE  Carries(d, e)'
    <2>1. Join(desc[d].src)' = Join(desc[d].src)
      BY DEF Join
    <2> QED
      BY <1>3, <1>4, <2>1 DEF Carries
  <1>5. \A e \in 0..sgl_nents - 1 : \E d \in 0..j : Carries(d, e)'
    BY <1>2, <1>4
  <1>6. Tiled(j + 1, ppos + sgl[i].pos + sgl[i].len)'
    <2>1. PICK m, at : m = j + 1 /\ at = ppos + sgl[i].pos + sgl[i].len
      OBVIOUS
    <2>2. \A d \in 0..m : Dst(d, m, at)' = Dst(d, m, at)
      BY <1>1, <1>3, <2>1 DEF Dst
    <2>3. Tiled(m, at)
      BY <1>2, <2>1
    <2>4. Tiled(m, at)'
      BY <1>1, <1>3, <2>1, <2>2, <2>3 DEF Tiled
    <2> QED
      BY <2>1, <2>4 DEF Tiled, Dst
  <1>7. Stored'
    BY <1>2, <1>5, <1>6 DEF Stored
  <1>8. Limits'
    BY <1>1 DEF IInv, Limits, Built
  <1> QED
    BY <1>7, <1>8

(* transfer_terminate().                                                   *)
LEMMA TerminateKeeps == IInv /\ Terminate => IInv'
  <1> SUFFICES ASSUME IInv, Terminate
               PROVE  IInv'
    OBVIOUS
  <1>1. /\ pc = "terminate" /\ pc' = "adjacent" /\ desc_num' = j + 1
        /\ UNCHANGED <<sgl, sgl_nents, ppos, ep_addr, i, j, addr, cont_addr,
                       cont_len, desc_bus, first_desc>>
    BY DEF Terminate, input, build
  <1>2. /\ TypeOK /\ sgl_nents \in Nat /\ sgl_nents >= 1
        /\ DOMAIN sgl = 0..sgl_nents - 1
        /\ desc \in [0..sgl_nents - 1 -> Descs] /\ desc_bus \in DescBuses
        /\ i \in 0..sgl_nents - 1 /\ j \in 0..i /\ desc_num = 0
        /\ j \in 0..sgl_nents - 1
    BY <1>1 DEF IInv, Allocated, Building, TypeOK
  <1> DEFINE last == [desc[j] EXCEPT !.next = Split(0), !.extra = 0,
                                     !.magic = TRUE, !.stop = TRUE]
  <1>3. desc' = [desc EXCEPT ![j] = last]
    BY DEF Terminate
  <1>4. desc[j] \in Descs /\ Split(0) \in Words
    BY <1>2, SplitJoin
  <1>5. /\ last \in Descs /\ last.magic /\ last.stop
        /\ last.src = desc[j].src /\ last.dst = desc[j].dst
        /\ last.bytes = desc[j].bytes
    <2>1. /\ last.magic /\ last.stop /\ last.extra = 0
          /\ last.next = Split(0)
          /\ last.src = desc[j].src /\ last.dst = desc[j].dst
          /\ last.bytes = desc[j].bytes
      BY <1>4 DEF Descs
    <2>2. last \in Descs
      <3>1. PICK z \in Int : z = 0
        OBVIOUS
      <3>2. [desc[j] EXCEPT !.next = Split(0), !.extra = z, !.magic = TRUE,
                            !.stop = TRUE] \in Descs
        BY <1>4 DEF Descs
      <3> QED
        BY <3>1, <3>2 DEF last
    <2> QED
      BY <2>1, <2>2
  <1> HIDE DEF last
  <1>6. /\ desc' \in [0..sgl_nents - 1 -> Descs] /\ desc'[j] = last
        /\ \A d \in 0..sgl_nents - 1 : d # j => desc'[d] = desc[d]
    BY <1>2, <1>3, <1>5
  <1>7. TypeOK'
    BY <1>1, <1>2, <1>6 DEF TypeOK
  <1>8. Allocated'
    BY <1>1, <1>2, <1>6 DEF Allocated, Building
  <1>9. Linked'
    <2>1. \A d \in 0..sgl_nents - 1 :
            /\ desc[d].magic /\ ~desc[d].stop
            /\ d < sgl_nents - 1 => desc[d].next = Split(BusOf(d + 1))
      BY <1>1, <1>2 DEF IInv, Linked, Building
    <2>2. \A d : BusOf(d)' = BusOf(d)
      BY <1>1 DEF BusOf
    <2>3. ASSUME NEW d \in 0..sgl_nents - 1
          PROVE  /\ desc'[d].magic
                 /\ desc'[d].stop <=> d = desc_num' - 1
                 /\ ~desc'[d].stop /\ d < sgl_nents - 1 =>
                      desc'[d].next = Split(desc_bus + (d + 1) * DESC_SIZE)
      <3>1. CASE d = j
        BY <1>1, <1>2, <1>5, <1>6, <3>1
      <3>2. CASE d # j
        BY <1>1, <1>2, <1>6, <2>1, <3>2 DEF BusOf
      <3> QED
        BY <3>1, <3>2
    <2> QED
      BY <1>1, <2>3 DEF Linked, BusOf
  <1>10. Stored' /\ Limits'
    <2>1. pc \in Built /\ pc' \in Built
      BY <1>1 DEF Built, Building
    <2>2. \A d \in 0..j : /\ desc'[d].src = desc[d].src
                           /\ desc'[d].dst = desc[d].dst
                           /\ desc'[d].bytes = desc[d].bytes
      BY <1>2, <1>5, <1>6
    <2> QED
      BY <1>1, <2>1, <2>2, StoredKept
  <1>11. Fresh' /\ Collecting' /\ Prefetch'
    BY <1>1 DEF Fresh, Collecting, Prefetch
  <1> QED
    BY <1>7, <1>8, <1>9, <1>10, <1>11 DEF IInv

(* The extra_adj of xdma_desc_adjacent() is a number.                      *)
LEMMA ExtraAdjType ==
  ASSUME NEW lo \in Nat, NEW n \in Int
  PROVE  ExtraAdj(lo, n) \in Int
  <1>1. FETCH_PAGE \in Nat \ {0} /\ DESC_SIZE \in Nat \ {0}
        /\ MAX_EXTRA_ADJ \in Nat
    BY SizeAssumption
  <1>2. lo % FETCH_PAGE \in 0..FETCH_PAGE - 1
    BY <1>1, DivMod
  <1>3. FETCH_PAGE - (lo % FETCH_PAGE) \in Nat
    BY <1>1, <1>2
  <1>4. (FETCH_PAGE - (lo % FETCH_PAGE)) \div DESC_SIZE \in Nat
    BY <1>1, <1>3, DivMod
  <1> QED
    BY <1>1, <1>4 DEF ExtraAdj, MinOf

(* xdma_desc_adjacent() on every descriptor.                               *)
LEMMA AdjacentKeeps == IInv /\ Adjacent => IInv'
  <1> SUFFICES ASSUME IInv, Adjacent
               PROVE  IInv'
    OBVIOUS
  <1>1. /\ pc = "adjacent" /\ pc' = "start"
        /\ UNCHANGED <<sgl, sgl_nents, ppos, ep_addr, i, j, addr, cont_addr,
                       cont_len, desc_bus, desc_num, first_desc>>
    BY DEF Adjacent, input, build
  <1>2. /\ TypeOK /\ sgl_nents \in Nat /\ sgl_nents >= 1
        /\ DOMAIN sgl = 0..sgl_nents - 1
        /\ desc \in [0..sgl_nents - 1 -> Descs] /\ desc_bus \in DescBuses
        /\ i \in 0..sgl_nents - 1 /\ j \in 0..i /\ desc_num = j + 1
        /\ j \in 0..sgl_nents - 1
    BY <1>1 DEF IInv, Allocated, Building, TypeOK
  <1> DEFINE Adj(d) == [desc[d] EXCEPT !.magic = TRUE,
                                       !.extra = ExtraAdj(desc[d].next.lo,
                                                          desc_num - d - 1)]
  <1>3. desc' = [d \in 0..sgl_nents - 1 |->
                   IF d < desc_num THEN Adj(d) ELSE desc[d]]
    BY <1>2 DEF Adjacent
  <1>4. ASSUME NEW d \in 0..sgl_nents - 1
        PROVE  /\ Adj(d) \in Descs /\ Adj(d).magic
               /\ Adj(d).extra = ExtraAdj(desc[d].next.lo, desc_num - d - 1)
               /\ Adj(d).src = desc[d].src /\ Adj(d).dst = desc[d].dst
               /\ Adj(d).bytes = desc[d].bytes /\ Adj(d).stop = desc[d].stop
               /\ Adj(d).next = desc[d].next
    <2>1. desc[d] \in Descs
      BY <1>2
    <2>2. desc[d].next.lo \in Nat
      BY <2>1, SizeAssumption DEF Descs, Words
    <2>3. ExtraAdj(desc[d].next.lo, desc_num - d - 1) \in Int
      <3>1. desc_num - d - 1 \in Int
        BY <1>2
      <3> QED
        BY <2>2, <3>1, ExtraAdjType
    <2> QED
      BY <2>1, <2>3 DEF Descs
  <1> HIDE DEF Adj
  <1>5. /\ desc' \in [0..sgl_nents - 1 -> Descs]
        /\ \A d \in 0..sgl_nents - 1 :
             desc'[d] = IF d < desc_num THEN Adj(d) ELSE desc[d]
    BY <1>2, <1>3, <1>4
  <1>6. \A d \in 0..sgl_nents - 1 :
          /\ desc[d].magic => desc'[d].magic
          /\ desc'[d].src = desc[d].src /\ desc'[d].dst = desc[d].dst
          /\ desc'[d].bytes = desc[d].bytes /\ desc'[d].stop = desc[d].stop
          /\ desc'[d].next = desc[d].next
    BY <1>4, <1>5
  <1>7. TypeOK'
    BY <1>1, <1>2, <1>5 DEF TypeOK
  <1>8. Allocated'
    BY <1>1, <1>2, <1>5 DEF Allocated, Building
  <1>9. Linked'
    BY <1>1, <1>2, <1>6 DEF IInv, Linked, Building, BusOf
  <1>10. Stored' /\ Limits'
    <2>1. pc \in Built /\ pc' \in Built
      BY <1>1 DEF Built, Building
    <2> QED
      BY <1>1, <1>2, <1>6, <2>1, StoredKept
  <1>11. Prefetch'
    <2>1. ASSUME NEW d \in 0..j
          PROVE  desc'[d].extra = ExtraAdj(desc'[d].next.lo, j - d)
      <3>1. d \in 0..sgl_nents - 1 /\ d < desc_num /\ desc_num - d - 1 = j - d
        BY <1>2
      <3> QED
        BY <1>4, <1>5, <1>6, <3>1
    <2> QED
      BY <1>1, <2>1 DEF Prefetch
  <1>12. Fresh' /\ Collecting'
    BY <1>1 DEF Fresh, Collecting
  <1> QED
    BY <1>7, <1>8, <1>9, <1>10, <1>11, <1>12 DEF IInv

(* transfer_start().                                                       *)
LEMMA StartKeeps == IInv /\ Start => IInv'
  <1> SUFFICES ASSUME IInv, Start
               PROVE  IInv'
    OBVIOUS
  <1>1. /\ pc = "start" /\ pc' = "started"
        /\ UNCHANGED <<sgl, sgl_nents, ppos, ep_addr, i, j, addr, cont_addr,
                       cont_len, desc, desc_bus, desc_num>>
    BY DEF Start, input, build
  <1>2. TypeOK /\ j \in Nat /\ desc_num = j + 1 /\ desc_bus \in Nat
    BY <1>1 DEF IInv, Allocated, Building, TypeOK
  <1>3. first_desc' = [adj |-> MinOf(j, MAX_EXTRA_ADJ), addr |-> Split(desc_bus)]
    BY <1>2 DEF Start
  <1>4. MinOf(j, MAX_EXTRA_ADJ) \in Int /\ Split(desc_bus) \in Words
    BY <1>2, SizeAssumption, SplitJoin DEF MinOf
  <1>5. TypeOK'
    BY <1>1, <1>2, <1>3, <1>4 DEF TypeOK
  <1>6. Allocated' /\ Linked'
    BY <1>1 DEF IInv, Allocated, Linked, Building, BusOf
  <1>7. Stored' /\ Limits'
    BY <1>1, StoredKept DEF Built, Building
  <1>8. Prefetch'
    BY <1>1, <1>3 DEF IInv, Prefetch
  <1>9. Fresh' /\ Collecting'
    BY <1>1 DEF Fresh, Collecting
  <1> QED
    BY <1>5, <1>6, <1>7, <1>8, <1>9 DEF IInv

(* Every step keeps the invariant.                                         *)
LEMMA StepIInv == IInv /\ [Next]_vars => IInv'
  <1>1. IInv /\ UNCHANGED vars => IInv'
    BY DEF vars, input, build, IInv, TypeOK, Fresh, Allocated, Linked,
       Collecting, Stored, Limits, Prefetch, Tiled, Dst, InBlock, Carries, BusOf
  <1> QED
    BY <1>1, MapSgKeeps, DescAllocKeeps, BuildEntryKeeps, BuildLastKeeps,
       TerminateKeeps, AdjacentKeeps, StartKeeps DEF Next

(* The invariant holds in every state of the calls xpcie_h2c_write() makes *)
(* on its transfer.                                                        *)
THEOREM Invariance == Spec => []IInv
  BY InitIInv, StepIInv, PTL DEF Spec

(* The fields keep their width and the array its size, whatever the list,  *)
(* the allocation and the file position.                                   *)
THEOREM TypeCorrect == Spec => []TypeOK
  <1>1. IInv => TypeOK
    BY DEF IInv
  <1> QED
    BY <1>1, Invariance, PTL

(* transfer_build() writes no descriptor that xdma_desc_alloc() did not    *)
(* allocate, and its BUG_ON(j > transfer->sgl_nents) never fires.          *)
THEOREM StaysInside == Spec => [](InsideArray /\ pc # "bug_overrun")
  <1>1. IInv => InsideArray /\ pc # "bug_overrun"
    <2> SUFFICES ASSUME IInv
                 PROVE  InsideArray /\ pc # "bug_overrun"
      OBVIOUS
    <2>1. pc # "bug_overrun" /\ sgl_nents \in Nat
      BY DEF IInv, Allocated, TypeOK
    <2>2. CASE pc \in Building
      BY <2>1, <2>2 DEF IInv, Allocated, Building, InsideArray
    <2>3. CASE pc \notin Building
      BY <2>1, <2>3 DEF Building, InsideArray
    <2> QED
      BY <2>1, <2>2, <2>3
  <1> QED
    BY <1>1, Invariance, PTL

(* The engine that follows the chain from desc_bus meets every descriptor  *)
(* in use, in order, and stops at the last of them only.                   *)
THEOREM ChainIsComplete == Spec => []ChainComplete
  <1>1. IInv => ChainComplete
    <2> SUFFICES ASSUME IInv, pc = "started"
                 PROVE  /\ Join(first_desc.addr) = BusOf(0)
                        /\ \A d \in Used :
                             /\ desc[d].magic
                             /\ desc[d].stop <=> d = desc_num - 1
                             /\ ~desc[d].stop =>
                                  Join(desc[d].next) = BusOf(d + 1)
      BY DEF ChainComplete
    <2>1. /\ sgl_nents \in Nat /\ i \in 0..sgl_nents - 1 /\ j \in 0..i
          /\ desc_num = j + 1 /\ desc_bus \in Nat
          /\ DESC_SIZE \in Nat
      BY SizeAssumption DEF IInv, Allocated, Building, TypeOK
    <2>2. \A d \in Nat : BusOf(d) \in Nat
      BY <2>1 DEF BusOf
    <2>3. Join(first_desc.addr) = BusOf(0)
      <3>1. first_desc.addr = Split(desc_bus)
        BY DEF IInv, Prefetch
      <3>2. BusOf(0) = desc_bus
        BY <2>1 DEF BusOf
      <3> QED
        BY <2>1, <3>1, <3>2, SplitJoin
    <2>4. ASSUME NEW d \in Used
          PROVE  /\ desc[d].magic
                 /\ desc[d].stop <=> d = desc_num - 1
                 /\ ~desc[d].stop => Join(desc[d].next) = BusOf(d + 1)
      <3>1. d \in 0..sgl_nents - 1 /\ d <= j /\ d + 1 \in Nat
        BY <2>1 DEF Used
      <3>2. /\ desc[d].magic
            /\ desc[d].stop <=> d = desc_num - 1
            /\ ~desc[d].stop /\ d < sgl_nents - 1 =>
                 desc[d].next = Split(BusOf(d + 1))
        BY <3>1 DEF IInv, Linked, Building
      <3>3. ~desc[d].stop => d < sgl_nents - 1
        BY <2>1, <3>1, <3>2
      <3> QED
        BY <2>2, <3>1, <3>2, <3>3, SplitJoin
    <2> QED
      BY <2>3, <2>4
  <1> QED
    BY <1>1, Invariance, PTL

(* The chain stores the buffer at *ppos, each byte once and nothing else,  *)
(* however the entries lie in bus memory and whichever are merged.         *)
THEOREM TransferIsExact == Spec => []TransferExact
  <1>1. IInv => TransferExact
    <2> SUFFICES ASSUME IInv, pc = "started"
                 PROVE  TransferExact
      BY DEF TransferExact
    <2>1. sgl_nents \in Nat /\ j \in Nat /\ desc_num = j + 1
      BY DEF IInv, Allocated, Building, TypeOK
    <2>2. /\ i = sgl_nents - 1
          /\ Tiled(j + 1, ppos + sgl[i].pos + sgl[i].len)
          /\ \A e \in 0..sgl_nents - 1 : \E d \in 0..j : Carries(d, e)
      BY DEF IInv, Stored, Built, Building
    <2>3. Join(desc[0].dst) = ppos
      BY <2>1, <2>2 DEF Tiled, Dst
    <2>4. ASSUME NEW d \in 0..desc_num - 2
          PROVE  Join(desc[d + 1].dst) = Join(desc[d].dst) + desc[d].bytes
      BY <2>1, <2>2 DEF Tiled, Dst
    <2>5. Join(desc[desc_num - 1].dst) + desc[desc_num - 1].bytes =
            ppos + sgl[sgl_nents - 1].pos + sgl[sgl_nents - 1].len
      <3>1. desc_num - 1 = j /\ j \in 0..(j + 1) - 1
        BY <2>1
      <3>2. Dst(j + 1, j + 1, ppos + sgl[i].pos + sgl[i].len) =
              Join(desc[j].dst) + desc[j].bytes
        BY <2>2, <3>1 DEF Tiled
      <3> QED
        BY <2>2, <3>1, <3>2 DEF Dst
    <2>6. Used = 0..j
      BY <2>1 DEF Used
    <2> QED
      BY <2>2, <2>3, <2>4, <2>5, <2>6 DEF TransferExact
  <1> QED
    BY <1>1, Invariance, PTL

(* With entries of at most a page no descriptor asks for more than         *)
(* XDMA_DESC_MAX_BYTES.                                                    *)
THEOREM LengthsWithinMax == Spec => []DescWithinMax
  <1>1. IInv => DescWithinMax
    <2> SUFFICES ASSUME IInv, pc = "started",
                        \A e \in DOMAIN sgl : sgl[e].len <= PAGE_SIZE
                 PROVE  WithinMax
      BY DEF DescWithinMax
    <2>1. j \in Nat /\ desc_num = j + 1
      BY DEF IInv, Allocated, Building, TypeOK
    <2>2. \A d \in 0..j : desc[d].bytes <= XDMA_DESC_MAX_BYTES
      BY DEF IInv, Limits, Built, Building
    <2> QED
      BY <2>1, <2>2 DEF WithinMax, Used
  <1> QED
    BY <1>1, Invariance, PTL

(* n records of z bytes fit where m do, for n <= m.                        *)
LEMMA FewerFit ==
  ASSUME NEW z \in Nat \ {0}, NEW m \in Nat, NEW n \in Nat, n <= m,
         NEW o \in Nat, NEW f \in Nat, o + m * z <= f
  PROVE  o + n * z <= f
  <1>1. CASE n = m
    BY <1>1
  <1>2. CASE n < m
    <2>1. z * n + z <= z * m
      BY <1>2, MulMono
    <2>2. z * n \in Int /\ z * m \in Int /\ n * z = z * n /\ m * z = z * m
      OBVIOUS
    <2> QED
      BY <2>1, <2>2
  <1> QED
    BY <1>1, <1>2

(* What ExtraAdj lets the engine fetch at bus address b + x * DESC_SIZE,   *)
(* when k more descriptors follow: at least one, at most k, in one page.   *)
LEMMA ExtraAdjFits ==
  ASSUME NEW b \in Nat, b % FETCH_PAGE = 0, NEW x \in Nat,
         NEW k \in Nat \ {0}
  PROVE  LET a == b + x * DESC_SIZE
             n == ExtraAdj(Split(a).lo, k) + 1
         IN  /\ n \in Nat /\ n >= 1 /\ n <= k
             /\ (a % FETCH_PAGE) + n * DESC_SIZE <= FETCH_PAGE
  <1> DEFINE a == b + x * DESC_SIZE
             o == a % FETCH_PAGE
             m == (FETCH_PAGE - o) \div DESC_SIZE
             n == ExtraAdj(Split(a).lo, k) + 1
  <1>1. /\ FETCH_PAGE \in Nat \ {0} /\ DESC_SIZE \in Nat \ {0}
        /\ WORD \in Nat \ {0} /\ MAX_EXTRA_ADJ \in Nat
        /\ FETCH_PAGE % DESC_SIZE = 0 /\ WORD % FETCH_PAGE = 0
    BY SizeAssumption
  <1>2. o \in Nat /\ m \in Nat \ {0} /\ o + m * DESC_SIZE <= FETCH_PAGE
    BY <1>1, RecordInPage
  <1>3. a \in Nat
    BY <1>1
  <1>4. Split(a).lo % FETCH_PAGE = o
    BY <1>1, <1>3, ModOfMod DEF Split
  <1>5. n = MinOf(MinOf(k - 1, MAX_EXTRA_ADJ), m - 1) + 1
    BY <1>4 DEF ExtraAdj
  <1> HIDE DEF a, o, m, n
  <1>6. n \in Nat /\ n >= 1 /\ n <= k /\ n <= m
    BY <1>1, <1>2, <1>5 DEF MinOf
  <1>7. o + n * DESC_SIZE <= FETCH_PAGE
    BY <1>1, <1>2, <1>6, FewerFit
  <1> QED
    BY <1>6, <1>7 DEF a, o, n

(* Neither the first fetch nor any later one reads past the chain or       *)
(* across a 4K boundary.                                                   *)
THEOREM FetchesStayInside == Spec => []FetchesInside
  <1>1. IInv => FetchesInside
    <2> SUFFICES ASSUME IInv, pc = "started"
                 PROVE  /\ FetchOK(0, first_desc.adj + 1)
                        /\ \A d \in 0..desc_num - 2 :
                             FetchOK(d + 1, desc[d].extra + 1)
      BY DEF FetchesInside
    <2>1. /\ sgl_nents \in Nat /\ i \in 0..sgl_nents - 1 /\ j \in Nat
          /\ j <= i /\ desc_num = j + 1
          /\ desc_bus \in Nat /\ desc_bus \in DescBuses
      BY DEF IInv, Allocated, Building, TypeOK
    <2>2. desc_bus % FETCH_PAGE = 0
      BY <2>1, InputAssumption
    <2>3. /\ FETCH_PAGE \in Nat \ {0} /\ DESC_SIZE \in Nat \ {0}
          /\ MAX_EXTRA_ADJ \in Nat
          /\ DESC_SIZE * (MAX_EXTRA_ADJ + 1) <= FETCH_PAGE
      BY SizeAssumption
    <2>4. FetchOK(0, first_desc.adj + 1)
      <3>1. PICK n \in Nat : n = MinOf(j, MAX_EXTRA_ADJ) + 1
        BY <2>1, <2>3 DEF MinOf
      <3>2. n >= 1 /\ n <= j + 1 /\ n <= MAX_EXTRA_ADJ + 1
        BY <2>1, <2>3, <3>1 DEF MinOf
      <3>3. first_desc.adj + 1 = n
        BY <3>1 DEF IInv, Prefetch
      <3>4. PICK m \in Nat : m = MAX_EXTRA_ADJ + 1
        BY <2>3
      <3>5. 0 + m * DESC_SIZE <= FETCH_PAGE
        <4>1. DESC_SIZE * m <= FETCH_PAGE
          BY <2>3, <3>4
        <4>2. DESC_SIZE * m = m * DESC_SIZE /\ m * DESC_SIZE \in Int
          BY <2>3
        <4> QED
          BY <2>3, <4>1, <4>2
      <3>6. 0 + n * DESC_SIZE <= FETCH_PAGE
        BY <2>3, <3>2, <3>4, <3>5, FewerFit
      <3>7. BusOf(0) % FETCH_PAGE = 0
        <4>1. BusOf(0) = desc_bus
          BY <2>1, <2>3 DEF BusOf
        <4> QED
          BY <2>2, <4>1
      <3>8. FetchOK(0, n)
        BY <2>1, <3>2, <3>6, <3>7 DEF FetchOK
      <3> QED
        BY <3>3, <3>8
    <2>5. ASSUME NEW d \in 0..desc_num - 2
          PROVE  FetchOK(d + 1, desc[d].extra + 1)
      <3>1. /\ d \in 0..sgl_nents - 1 /\ d \in 0..j /\ d # desc_num - 1
            /\ d < sgl_nents - 1 /\ d + 1 \in Nat /\ j - d \in Nat \ {0}
        BY <2>1
      <3>2. desc[d].next = Split(BusOf(d + 1))
        BY <3>1 DEF IInv, Linked, Building
      <3>3. desc[d].extra = ExtraAdj(desc[d].next.lo, j - d)
        BY <3>1 DEF IInv, Prefetch
      <3>4. PICK x \in Nat, k \in Nat \ {0} : x = d + 1 /\ k = j - d
        BY <3>1
      <3>5. PICK n : n = ExtraAdj(Split(BusOf(x)).lo, k) + 1
        OBVIOUS
      <3>6. desc[d].extra + 1 = n
        BY <3>2, <3>3, <3>4, <3>5
      <3>7. /\ n \in Nat /\ n >= 1 /\ n <= k
            /\ (BusOf(x) % FETCH_PAGE) + n * DESC_SIZE <= FETCH_PAGE
        BY <2>1, <2>2, <3>4, <3>5, ExtraAdjFits DEF BusOf
      <3>8. x + n <= desc_num
        BY <2>1, <3>1, <3>4, <3>7
      <3>9. FetchOK(x, n)
        BY <3>7, <3>8 DEF FetchOK
      <3> QED
        BY <3>4, <3>6, <3>9
    <2> QED
      BY <2>4, <2>5
  <1> QED
    BY <1>1, Invariance, PTL
=============================================================================
