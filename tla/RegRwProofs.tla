---------------------------- MODULE RegRwProofs ----------------------------
(***************************************************************************)
(* Proofs about mmap() of a BAR and about reg_rw, which works through it.  *)
(***************************************************************************)
EXTENDS RegRw, ArithmeticFacts

(* The sizes and addresses are natural numbers.                            *)
LEMMA Sizes ==
  /\ PAGE_SIZE \in Nat \ {0} /\ PAGE_SIZE > 1 /\ ULONG \in Nat \ {0}
  /\ \A b \in Bars : /\ b.start \in Nat /\ b.end \in Nat /\ b.end < ULONG
                     /\ b.start <= b.end /\ BarLen(b) < ULONG
                     /\ BarLen(b) >= PAGE_SIZE => b.start % PAGE_SIZE = 0
  <1>1. PAGE_SIZE \in Nat \ {0} /\ PAGE_SIZE > 1 /\ ULONG \in Nat \ {0}
    BY WordAssumption
  <1>2. ASSUME NEW b \in Bars
        PROVE  /\ b.start \in Nat /\ b.end \in Nat /\ b.end < ULONG
               /\ b.start <= b.end /\ BarLen(b) < ULONG
               /\ BarLen(b) >= PAGE_SIZE => b.start % PAGE_SIZE = 0
    <2>1. b \in [start : Addresses, end : Addresses]
      BY RegAssumption
    <2>2. b.start \in Addresses /\ b.end \in Addresses
      BY <2>1
    <2>3. b.start \in Nat /\ b.end \in Nat /\ b.end < ULONG
      BY <1>1, <2>2 DEF Addresses
    <2> QED
      BY <2>3, RegAssumption
  <1> QED
    BY <1>1, <1>2

(* A remainder of what is less than the divisor.                           *)
LEMMA SmallMod ==
  ASSUME NEW d \in Nat \ {0}, NEW a \in 0..d - 1
  PROVE  a % d = a
  <1>1. a \in Nat /\ 0 \in Int /\ a = d * 0 + a
    OBVIOUS
  <1> QED
    BY <1>1, DivModUnique

(* mmap() is asked for whole pages, at least one.                          *)
LEMMA WholePages ==
  ASSUME NEW size \in Nat \ {0}
  PROVE  PageAlign(size) \in Nat /\ PageAlign(size) >= PAGE_SIZE
  <1> DEFINE q == (size + PAGE_SIZE - 1) \div PAGE_SIZE
             r == (size + PAGE_SIZE - 1) % PAGE_SIZE
  <1>1. PAGE_SIZE \in Nat \ {0} /\ size + PAGE_SIZE - 1 \in Nat
    BY Sizes
  <1>2. /\ q \in Nat /\ r \in 0..PAGE_SIZE - 1
        /\ size + PAGE_SIZE - 1 = PAGE_SIZE * q + r
    BY <1>1, DivMod
  <1>3. PageAlign(size) = q * PAGE_SIZE
    BY DEF PageAlign
  <1> HIDE DEF q, r
  <1>4. q >= 1
    <2> SUFFICES ASSUME q = 0
                 PROVE  FALSE
      BY <1>2
    <2>1. PAGE_SIZE * q = 0
      BY <1>1
    <2> QED
      BY <1>1, <1>2, <2>1
  <1>5. PAGE_SIZE * 0 + PAGE_SIZE <= PAGE_SIZE * q
    BY <1>1, <1>2, <1>4, MulMono
  <1>6. q * PAGE_SIZE \in Nat /\ q * PAGE_SIZE >= PAGE_SIZE
    BY <1>1, <1>2, <1>5
  <1> QED
    BY <1>3, <1>6

(* Up to the length of the BAR, what the functions subtract does not wrap. *)
LEMMA NoWrap ==
  ASSUME NEW b \in Bars, NEW g \in Nat, g * PAGE_SIZE <= BarLen(b)
  PROVE  /\ g * PAGE_SIZE \in Nat /\ BarLen(b) \in Nat
         /\ Off(g) = g * PAGE_SIZE
         /\ BarLen(b) > 0 => /\ BarLen(b) = b.end - b.start + 1
                             /\ Psize(b, g) = BarLen(b) - g * PAGE_SIZE
         /\ BarLen(b) = 0 => Psize(b, g) = 1
  <1> DEFINE from == g * PAGE_SIZE
             L == b.end - b.start + 1
  <1>1. /\ PAGE_SIZE \in Nat \ {0} /\ ULONG \in Nat \ {0}
        /\ b.start \in Nat /\ b.end \in Nat /\ b.end < ULONG
        /\ b.start <= b.end /\ BarLen(b) < ULONG
    BY Sizes
  <1>2. from \in Nat /\ BarLen(b) \in Nat
    BY <1>1 DEF BarLen
  <1>3. Off(g) = from
    <2>1. from \in 0..ULONG - 1
      BY <1>1, <1>2
    <2> HIDE DEF from
    <2>2. from % ULONG = from
      BY <1>1, <2>1, SmallMod
    <2> QED
      BY <2>2 DEF Off, from
  <1>4. CASE b.start = 0 /\ b.end = 0
    <2>1. BarLen(b) = 0
      BY <1>4 DEF BarLen
    <2>2. from = 0
      BY <1>2, <2>1
    <2>3. b.end - b.start + 1 - Off(g) = 1
      BY <1>3, <1>4, <2>2
    <2>4. ULONG > 1
      BY WordAssumption, <1>1, SmallMod
    <2>5. 1 % ULONG = 1
      BY <1>1, <2>4, SmallMod
    <2>6. Psize(b, g) = 1
      BY <2>3, <2>5 DEF Psize
    <2> QED
      BY <1>2, <1>3, <1>4, <2>1, <2>2, <2>6
  <1>5. CASE ~(b.start = 0 /\ b.end = 0)
    <2>1. BarLen(b) = L /\ L \in Nat /\ L > 0
      BY <1>1, <1>5 DEF BarLen
    <2>2. L - from \in 0..ULONG - 1
      BY <1>1, <1>2, <2>1
    <2>3. b.end - b.start + 1 - Off(g) = L - from
      BY <1>1, <1>2, <1>3
    <2>4. (L - from) % ULONG = L - from
      BY <1>1, <2>2, SmallMod
    <2>5. Psize(b, g) = L - from
      BY <2>3, <2>4 DEF Psize
    <2> QED
      BY <1>1, <1>2, <1>3, <2>1, <2>5
  <1> QED
    BY <1>4, <1>5

(* mmap() grants exactly what fits into the BAR, an absent one included.   *)
LEMMA Grants ==
  ASSUME NEW b \in Bars, NEW g \in Nat, NEW vsize \in Nat,
         g * PAGE_SIZE <= BarLen(b), vsize >= PAGE_SIZE
  PROVE  TooLong(b, g, vsize) <=> g * PAGE_SIZE + vsize > BarLen(b)
  <1>1. vsize > 1
    BY Sizes
  <1>2. CASE BarLen(b) = 0
    BY <1>1, <1>2, NoWrap DEF TooLong
  <1>3. CASE BarLen(b) > 0
    <2> DEFINE from == g * PAGE_SIZE
    <2>1. from \in Nat /\ BarLen(b) \in Nat /\ Psize(b, g) = BarLen(b) - from
      BY <1>3, NoWrap
    <2> HIDE DEF from
    <2>2. TooLong(b, g, vsize) <=> from + vsize > BarLen(b)
      BY <2>1 DEF TooLong
    <2> QED
      BY <2>2 DEF from
  <1> QED
    BY <1>2, <1>3, NoWrap

(* What is granted ends within the BAR, so that neither sum wraps around.  *)
LEMMA LeadsToBar ==
  ASSUME NEW b \in Bars, NEW g \in Nat, NEW vsize \in Nat,
         vsize >= PAGE_SIZE, g * PAGE_SIZE + vsize <= BarLen(b),
         NEW v \in 0..vsize - 1
  PROVE  /\ BusAddr(b, g, v) = b.start + g * PAGE_SIZE + v
         /\ b.start + g * PAGE_SIZE + v <= b.end
  <1> DEFINE from == g * PAGE_SIZE
             q == b.start \div PAGE_SIZE
             vq == v \div PAGE_SIZE
             vr == v % PAGE_SIZE
  <1>1. /\ PAGE_SIZE \in Nat \ {0} /\ ULONG \in Nat \ {0}
        /\ b.start \in Nat /\ b.end \in Nat /\ b.end < ULONG
        /\ from \in Nat /\ BarLen(b) \in Int /\ v \in Nat
    BY Sizes DEF BarLen
  <1>2. from <= BarLen(b) /\ BarLen(b) > 0 /\ BarLen(b) >= PAGE_SIZE
    BY <1>1
  <1>3. /\ Off(g) = from /\ BarLen(b) = b.end - b.start + 1
        /\ b.start % PAGE_SIZE = 0
    BY <1>2, NoWrap, Sizes
  <1> HIDE DEF from
  <1>4. b.start + from + v <= b.end
    BY <1>1, <1>3 DEF from
  <1>5. Phys(b, g) = b.start + from
    <2>1. b.start + from \in 0..ULONG - 1
      BY <1>1, <1>4
    <2> QED
      BY <1>1, <1>3, <2>1, SmallMod DEF Phys
  <1>6. /\ q \in Nat /\ b.start = PAGE_SIZE * q
        /\ vq \in Nat /\ vr \in Nat /\ v = PAGE_SIZE * vq + vr
    <2>1. /\ q \in Nat /\ b.start % PAGE_SIZE \in 0..PAGE_SIZE - 1
          /\ b.start = PAGE_SIZE * q + (b.start % PAGE_SIZE)
      BY <1>1, DivMod, Zenon
    <2>2. /\ vq \in Nat /\ vr \in 0..PAGE_SIZE - 1
          /\ v = PAGE_SIZE * vq + vr
      BY <1>1, DivMod, Zenon
    <2>3. b.start = PAGE_SIZE * q
      <3> HIDE DEF q
      <3> QED
        BY <1>1, <1>3, <2>1
    <2> HIDE DEF q, vq, vr
    <2> QED
      BY <1>1, <2>1, <2>2, <2>3
  <1>7. b.start + from = PAGE_SIZE * (q + g) + 0
    <2> HIDE DEF q
    <2> QED
      BY <1>1, <1>6 DEF from
  <1>8. (b.start + from) \div PAGE_SIZE = q + g
    <2> HIDE DEF q
    <2>1. b.start + from \in Nat /\ q + g \in Int /\ 0 \in 0..PAGE_SIZE - 1
      BY <1>1, <1>6
    <2> QED
      BY <1>1, <1>7, <2>1, DivModUnique
  <1>9. BusAddr(b, g, v) = (q + g + vq) * PAGE_SIZE + vr
    BY <1>5, <1>8 DEF BusAddr
  <1> HIDE DEF q, vq, vr
  <1>10. (q + g + vq) * PAGE_SIZE + vr = (PAGE_SIZE * (q + g) + 0) + (PAGE_SIZE * vq + vr)
    BY <1>1, <1>6
  <1>11. BusAddr(b, g, v) = (b.start + from) + v
    BY <1>6, <1>7, <1>9, <1>10
  <1> QED
    BY <1>1, <1>4, <1>11 DEF from
-----------------------------------------------------------------------------
(***************************************************************************)
(* The inductive invariant: what a process has mapped is what it asked     *)
(* for, and the driver found it not too long; one that was refused asked   *)
(* for too much.                                                           *)
(***************************************************************************)
Asks(p)    == [pgoff |-> Request(p).pgoff, vsize |-> PageAlign(Request(p).size)]
Refuses(p) == TooLong(bar, Asks(p).pgoff, Asks(p).vsize)
Holding    == {"access", "munmap", "mapped"}

TypeInv ==
  /\ bar \in Bars
  /\ pc \in [Procs -> {"shell", "mmap", "failed", "refused", "killed", "done"}
                        \cup Holding]
  /\ args \in [Procs -> Calls \cup Requests \cup {NULL}]
  /\ DOMAIN vma = Procs /\ DOMAIN result = Procs

Process(p) ==
  /\ pc[p] \in {"mmap", "access", "munmap"} => args[p] \in Calls
  /\ pc[p] \in Holding => vma[p] = Asks(p) /\ ~Refuses(p)
  /\ pc[p] \notin Holding => vma[p] = NULL
  /\ pc[p] = "refused" => Refuses(p)

IInv == TypeInv /\ \A p \in Procs : Process(p)

(* At first no process has mapped anything.                                *)
LEMMA InitIInv == Init => IInv
  BY DEF Init, IInv, TypeInv, Process, Holding

(* A step of one process leaves the others as they are.                    *)
LEMMA OthersKept ==
  ASSUME NEW p \in Procs, NEW q \in Procs, Process(q), bar' = bar,
         pc'[q] = pc[q], args'[q] = args[q], vma'[q] = vma[q]
  PROVE  Process(q)'
  BY DEF Process, Asks, Refuses, Request

(* Every step keeps the invariant.                                         *)
LEMMA StepIInv == IInv /\ [Next]_vars => IInv'
  <1> SUFFICES ASSUME IInv, [Next]_vars
               PROVE  IInv'
    OBVIOUS
  <1>1. CASE UNCHANGED vars
    BY <1>1 DEF vars, machine, IInv, TypeInv, Process, Asks, Refuses, Request
  <1>2. CASE Next
    <2>1. PICK p \in Procs :
            \/ \E c \in Calls : Main(p, c)
            \/ \E r \in Requests : MapOther(p, r)
            \/ MapBar(p) \/ Crash(p) \/ Read(p) \/ Write(p) \/ Munmap(p)
            \/ Exit(p)
      BY <1>2 DEF Next
    <2>2. bar' = bar
      BY <2>1 DEF Main, MapOther, MapBar, Mmap, Crash, Read, Write, Munmap, Exit,
         machine
    <2>3. TypeInv'
      BY <2>1, <2>2 DEF IInv, TypeInv, Holding, Main, MapOther, MapBar, Mmap,
         Crash, Read, Write, Munmap, Exit, Goto
    <2>4. ASSUME NEW q \in Procs \ {p}
          PROVE  Process(q)'
      <3>1. pc'[q] = pc[q] /\ args'[q] = args[q] /\ vma'[q] = vma[q]
        BY <2>1 DEF IInv, TypeInv, Main, MapOther, MapBar, Mmap, Crash, Read,
           Write, Munmap, Exit, Goto
      <3> QED
        BY <2>2, <3>1, OthersKept DEF IInv
    <2>5. Process(p)'
      <3>1. CASE \E c \in Calls : Main(p, c)
        BY <2>2, <3>1 DEF IInv, TypeInv, Process, Main, Goto, Holding
      <3>2. CASE \E r \in Requests : MapOther(p, r)
        <4>1. PICK r \in Requests : MapOther(p, r)
          BY <3>2
        <4>2. args'[p] = r /\ r \notin Calls
          BY <4>1, RegAssumption DEF MapOther, IInv, TypeInv
        <4>3. Asks(p)' = [pgoff |-> r.pgoff, vsize |-> PageAlign(r.size)]
          BY <4>2 DEF Asks, Request
        <4>4. Refuses(p)' <=> TooLong(bar, r.pgoff, PageAlign(r.size))
          BY <2>2, <4>3 DEF Refuses
        <4> QED
          BY <4>1, <4>2, <4>3, <4>4
             DEF IInv, TypeInv, Process, MapOther, Mmap, Goto, Holding
      <3>3. CASE MapBar(p)
        <4>1. args[p] \in Calls /\ args' = args
          BY <3>3 DEF MapBar, Mmap, Goto, IInv, Process
        <4>2. Asks(p)' = [pgoff |-> 0, vsize |-> PageAlign(MAP_SIZE)]
          BY <4>1 DEF Asks, Request
        <4>3. Refuses(p)' <=> TooLong(bar, 0, PageAlign(MAP_SIZE))
          BY <2>2, <4>2 DEF Refuses
        <4> QED
          BY <3>3, <4>1, <4>2, <4>3
             DEF IInv, TypeInv, Process, MapBar, Mmap, Goto, Holding
      <3>4. CASE Crash(p) \/ Read(p) \/ Write(p) \/ Munmap(p) \/ Exit(p)
        <4>1. args' = args /\ Asks(p)' = Asks(p) /\ (Refuses(p)' <=> Refuses(p))
          BY <2>2, <3>4 DEF Crash, Read, Write, Munmap, Exit, Asks, Refuses,
             Request
        <4> QED
          BY <3>4, <4>1 DEF IInv, TypeInv, Process, Crash, Read, Write, Munmap,
             Exit, Goto, Holding
      <3> QED
        BY <2>1, <3>1, <3>2, <3>3, <3>4
    <2> QED
      BY <2>3, <2>4, <2>5 DEF IInv
  <1> QED
    BY <1>1, <1>2

(* The invariant holds in every reachable state.                           *)
THEOREM Invariance == Spec => []IInv
  BY InitIInv, StepIInv, PTL DEF Spec

(* What a process that has called mmap() asked for.                        *)
LEMMA RequestFacts ==
  ASSUME IInv, NEW p \in Procs, args[p] # NULL
  PROVE  Request(p).pgoff \in Nat /\ Request(p).size \in Nat \ {0}
  BY RegAssumption DEF IInv, TypeInv, Request

(***************************************************************************)
(* For every page size, width of unsigned long, set of BARs as PCI places  *)
(* them and set of requests: up to the length of the BAR, mmap() refuses   *)
(* only what does not fit, and what it maps is the BAR from the offset on. *)
(***************************************************************************)
THEOREM MmapIsExact == Spec => []MmapExact
  <1>1. IInv => MmapExact
    <2> SUFFICES ASSUME IInv, NEW p \in Procs, args[p] # NULL,
                        Request(p).pgoff * PAGE_SIZE <= BarLen(bar)
                 PROVE  LET from  == Request(p).pgoff * PAGE_SIZE
                            vsize == PageAlign(Request(p).size)
                        IN  /\ pc[p] = "refused" => from + vsize > BarLen(bar)
                            /\ vma[p] # NULL =>
                                 \A v \in 0..vsize - 1 :
                                   /\ BusAddr(bar, vma[p].pgoff, v) =
                                        bar.start + from + v
                                   /\ bar.start + from + v <= bar.end
      BY DEF MmapExact
    <2> DEFINE g == Request(p).pgoff
               vsize == PageAlign(Request(p).size)
    <2>1. /\ g \in Nat /\ vsize \in Nat /\ vsize >= PAGE_SIZE /\ bar \in Bars
      BY RequestFacts, WholePages DEF IInv, TypeInv
    <2>2. Process(p) /\ Asks(p) = [pgoff |-> g, vsize |-> vsize]
      BY DEF IInv, Asks
    <2>3. Refuses(p) <=> g * PAGE_SIZE + vsize > BarLen(bar)
      BY <2>1, <2>2, Grants DEF Refuses
    <2>4. g * PAGE_SIZE \in Nat /\ BarLen(bar) \in Nat
      BY <2>1, NoWrap
    <2>5. vma[p] # NULL => vma[p].pgoff = g /\ ~Refuses(p)
      BY <2>2 DEF Process
    <2> HIDE DEF g, vsize
    <2>6. ASSUME vma[p] # NULL, NEW v \in 0..vsize - 1
          PROVE  /\ BusAddr(bar, vma[p].pgoff, v) = bar.start + g * PAGE_SIZE + v
                 /\ bar.start + g * PAGE_SIZE + v <= bar.end
      <3>1. g * PAGE_SIZE + vsize <= BarLen(bar)
        BY <2>1, <2>3, <2>4, <2>5, <2>6
      <3> QED
        BY <2>1, <2>5, <2>6, <3>1, LeadsToBar
    <2> QED
      BY <2>2, <2>3, <2>6 DEF Process, g, vsize
  <1> QED
    BY <1>1, Invariance, PTL
-----------------------------------------------------------------------------
(* A step that lets p past its access is its read or its write; registers  *)
(* are changed by writes alone.                                            *)
LEMMA AccessSteps ==
  ASSUME IInv, Next
  PROVE  /\ \A p \in Procs : Accesses(p) => Read(p) \/ Write(p)
         /\ mem' # mem => \E p \in Procs : Accesses(p) /\ Writes(args[p])
  <1>1. PICK p \in Procs :
          \/ \E c \in Calls : Main(p, c)
          \/ \E r \in Requests : MapOther(p, r)
          \/ MapBar(p) \/ Crash(p) \/ Read(p) \/ Write(p) \/ Munmap(p)
          \/ Exit(p)
    BY DEF Next
  <1>2. ASSUME NEW q \in Procs, Accesses(q)
        PROVE  q = p
    BY <1>1, <1>2 DEF Accesses, IInv, TypeInv, Main, MapOther, MapBar, Mmap,
       Crash, Read, Write, Munmap, Exit, Goto
  <1>3. Accesses(p) => Read(p) \/ Write(p)
    BY <1>1 DEF Accesses, IInv, TypeInv, Main, MapOther, MapBar, Mmap, Crash,
       Munmap, Exit, Goto
  <1>4. mem' # mem => Write(p)
    BY <1>1 DEF Main, MapOther, MapBar, Mmap, Crash, Read, Munmap, Exit
  <1>5. Write(p) => Accesses(p) /\ Writes(args[p])
    BY DEF Write, Accesses, Goto, IInv, TypeInv
  <1> QED
    BY <1>2, <1>3, <1>4, <1>5

(* The sum map_base + target + k wraps around at most once.                *)
LEMMA OffsetValue ==
  ASSUME NEW c, c.target \in Addresses, NEW k \in 0..3
  PROVE  /\ Offset(c, k) \in Addresses
         /\ Offset(c, k) = IF c.target + k < ULONG THEN c.target + k
                                                    ELSE c.target + k - ULONG
  <1> DEFINE t == c.target
  <1>1. ULONG \in Nat \ {0} /\ ULONG >= 4 /\ t \in Nat /\ t < ULONG
    BY Sizes, RegAssumption DEF Addresses
  <1> HIDE DEF t
  <1>2. CASE t + k < ULONG
    <2>1. t + k \in 0..ULONG - 1
      BY <1>1, <1>2
    <2>2. (t + k) % ULONG = t + k
      BY <1>1, <2>1, SmallMod
    <2> QED
      BY <1>2, <2>1, <2>2 DEF Offset, Addresses, t
  <1>3. CASE ~(t + k < ULONG)
    <2>1. t + k - ULONG \in 0..ULONG - 1 /\ t + k \in Nat /\ 1 \in Int
      BY <1>1, <1>3
    <2>2. t + k = ULONG * 1 + (t + k - ULONG)
      BY <1>1
    <2>3. (t + k) % ULONG = t + k - ULONG
      BY <1>1, <2>1, <2>2, DivModUnique
    <2> QED
      BY <1>3, <2>1, <2>3 DEF Offset, Addresses, t
  <1> QED
    BY <1>2, <1>3

(* Two bytes of an access have two addresses.                              *)
LEMMA OffsetsDiffer ==
  ASSUME NEW c, c.target \in Addresses, NEW k \in 0..3, NEW l \in 0..3,
         Offset(c, k) = Offset(c, l)
  PROVE  k = l
  <1> DEFINE t == c.target
  <1>1. ULONG \in Nat /\ ULONG >= 4 /\ t \in Nat
    BY Sizes, RegAssumption DEF Addresses
  <1>2. /\ Offset(c, k) = IF t + k < ULONG THEN t + k ELSE t + k - ULONG
        /\ Offset(c, l) = IF t + l < ULONG THEN t + l ELSE t + l - ULONG
    BY OffsetValue
  <1>3. (IF t + k < ULONG THEN t + k ELSE t + k - ULONG)
          = (IF t + l < ULONG THEN t + l ELSE t + l - ULONG)
    BY <1>2
  <1> HIDE DEF t
  <1>4. CASE t + k < ULONG /\ t + l < ULONG
    BY <1>1, <1>3, <1>4
  <1>5. CASE ~(t + k < ULONG) /\ ~(t + l < ULONG)
    BY <1>1, <1>3, <1>5
  <1>6. CASE t + k < ULONG /\ ~(t + l < ULONG)
    <2>1. t + k = t + l - ULONG
      BY <1>3, <1>6
    <2> QED
      BY <1>1, <2>1
  <1>7. CASE ~(t + k < ULONG) /\ t + l < ULONG
    <2>1. t + k - ULONG = t + l
      BY <1>3, <1>7
    <2> QED
      BY <1>1, <2>1
  <1> QED
    BY <1>4, <1>5, <1>6, <1>7

(* The mapping of reg_rw leads the bytes that lie in it to bytes of the    *)
(* BAR.                                                                    *)
LEMMA AccessFacts ==
  ASSUME IInv, NEW p \in Procs, pc[p] = "access"
  PROVE  /\ args[p] \in Calls /\ Width(p) \in {1, 2, 4}
         /\ args[p].target \in Addresses
         /\ Hits(p) = Reached(args[p])
         /\ \A k \in Hits(p) : /\ At(p, k) = Target(args[p], k)
                               /\ Target(args[p], k) \in Addresses
                               /\ Target(args[p], k) <= bar.end
  <1> DEFINE c == args[p]
             vsize == PageAlign(MAP_SIZE)
  <1>1. /\ c \in Calls /\ bar \in Bars
        /\ vma[p] = Asks(p) /\ ~Refuses(p)
    BY DEF IInv, TypeInv, Process, Holding
  <1>2. Asks(p) = [pgoff |-> 0, vsize |-> vsize]
    BY <1>1 DEF Asks, Request
  <1>3. vsize \in Nat /\ vsize >= PAGE_SIZE
    BY RegAssumption, WholePages
  <1>4. Width(p) \in {1, 2, 4} /\ c.target \in Addresses
    BY <1>1, RegAssumption DEF Width, access_width
  <1>5. Hits(p) = Reached(c)
    BY <1>1, <1>2 DEF Hits, Reached, Width
  <1>6. 0 * PAGE_SIZE = 0 /\ BarLen(bar) \in Nat
    BY <1>1, Sizes DEF BarLen
  <1>7. ~TooLong(bar, 0, vsize)
    BY <1>1, <1>2 DEF Refuses
  <1> HIDE DEF vsize
  <1>8. vsize <= BarLen(bar)
    <2>1. TooLong(bar, 0, vsize) <=> 0 * PAGE_SIZE + vsize > BarLen(bar)
      BY <1>1, <1>3, <1>6, Grants
    <2> QED
      BY <1>3, <1>6, <1>7, <2>1
  <1>9. ASSUME NEW k \in Hits(p)
        PROVE  /\ At(p, k) = Target(c, k) /\ Target(c, k) \in Addresses
               /\ Target(c, k) <= bar.end
    <2> DEFINE v == Offset(c, k)
    <2>1. k \in 0..3 /\ v < vsize
      BY <1>1, <1>2, <1>4, <1>9 DEF Hits, vsize
    <2>2. v \in Nat /\ bar.start \in Nat /\ bar.end \in Nat /\ bar.end < ULONG
      BY <1>1, <1>4, <2>1, OffsetValue, Sizes DEF Addresses
    <2>3. At(p, k) = BusAddr(bar, 0, v)
      BY <1>1, <1>2 DEF At
    <2> HIDE DEF v
    <2>4. v \in 0..vsize - 1
      BY <1>3, <2>1, <2>2
    <2>5. 0 * PAGE_SIZE + vsize <= BarLen(bar)
      BY <1>3, <1>6, <1>8
    <2>6. /\ BusAddr(bar, 0, v) = bar.start + 0 * PAGE_SIZE + v
          /\ bar.start + 0 * PAGE_SIZE + v <= bar.end
      BY <1>1, <1>3, <2>4, <2>5, LeadsToBar
    <2>7. /\ BusAddr(bar, 0, v) = bar.start + v /\ bar.start + v <= bar.end
      BY <1>6, <2>2, <2>6
    <2>8. bar.start + v \in 0..ULONG - 1
      BY <2>2, <2>7, Sizes
    <2> QED
      BY <2>3, <2>7, <2>8 DEF Target, v, Addresses
  <1> QED
    BY <1>1, <1>4, <1>5, <1>9

(* Loading an integer in the order of the host and swapping it on a        *)
(* big-endian one gives the bytes in the order of the bus.                 *)
LEMMA ReadIsExact ==
  ASSUME IInv, NEW p \in Procs, Read(p)
  PROVE  LET c == args[p]
         IN  /\ ~Writes(c)
             /\ \A k \in Reached(c) : Target(c, k) <= bar.end
             /\ \A k \in Reached(c) : result'[p][k] = mem[Target(c, k)]
             /\ \A k \in access_width(c)..3 : result'[p][k] = 0
  <1> DEFINE n == Width(p)
             c == args[p]
  <1>1. /\ n \in {1, 2, 4} /\ Hits(p) = Reached(c)
        /\ \A k \in Hits(p) : /\ At(p, k) = Target(c, k)
                              /\ Target(c, k) <= bar.end
    BY AccessFacts DEF Read
  <1>2. PICK other \in Elsewhere :
          LET there == [k \in 0..3 |-> IF k \in Hits(p) THEN mem[At(p, k)]
                                                        ELSE other[k]]
              loaded == [k \in 0..3 |-> IF k < n THEN there[HostByte(k, n)]
                                                 ELSE 0]
          IN  result' = [result EXCEPT ![p] = Little(loaded, n)]
    BY DEF Read
  <1> DEFINE there == [k \in 0..3 |-> IF k \in Hits(p) THEN mem[At(p, k)]
                                                       ELSE other[k]]
             loaded == [k \in 0..3 |-> IF k < n THEN there[HostByte(k, n)]
                                                ELSE 0]
  <1>3. result'[p] = Little(loaded, n)
    BY <1>2 DEF IInv, TypeInv
  <1>4. ASSUME NEW k \in 0..3
        PROVE  Little(loaded, n)[k] = IF k < n THEN there[k] ELSE 0
    <2> HIDE DEF there
    <2>1. CASE host = "big"
      <3>1. Little(loaded, n)[k] = IF k < n THEN loaded[n - 1 - k] ELSE 0
        BY <2>1 DEF Little, Swap
      <3>2. CASE k < n
        <4>1. n - 1 - k \in 0..3 /\ n - 1 - k < n /\ n - 1 - (n - 1 - k) = k
          BY <1>1, <3>2
        <4>2. HostByte(n - 1 - k, n) = k
          BY <2>1, <4>1 DEF HostByte
        <4> QED
          BY <3>1, <3>2, <4>1, <4>2
      <3> QED
        BY <1>1, <3>1, <3>2
    <2>2. CASE host # "big"
      BY <2>2 DEF Little, HostByte
    <2> QED
      BY <2>1, <2>2
  <1>5. ASSUME NEW k \in Hits(p)
        PROVE  k \in 0..3 /\ k < n /\ there[k] = mem[At(p, k)]
    <2>1. k \in 0..n - 1
      BY <1>5 DEF Hits
    <2>2. k \in 0..3 /\ k < n
      BY <1>1, <2>1
    <2> QED
      BY <1>5, <2>2
  <1> HIDE DEF loaded, there
  <1>6. ASSUME NEW k \in Hits(p)
        PROVE  result'[p][k] = mem[Target(c, k)]
    BY <1>1, <1>3, <1>4, <1>5, <1>6
  <1>7. ASSUME NEW k \in n..3
        PROVE  result'[p][k] = 0
    <2>1. k \in 0..3 /\ ~(k < n)
      BY <1>1, <1>7
    <2> QED
      BY <1>3, <1>4, <2>1
  <1>8. ~Writes(c) /\ n = access_width(c)
    BY DEF Read, Width
  <1> QED
    BY <1>1, <1>6, <1>7, <1>8

(* Swapping on a big-endian host and storing in the order of the host puts *)
(* the low bytes of the data on the bus in little-endian order.            *)
LEMMA WriteIsExact ==
  ASSUME IInv, NEW p \in Procs, Write(p)
  PROVE  LET c == args[p]
         IN  /\ Writes(c)
             /\ \A k \in Reached(c) : Target(c, k) <= bar.end
             /\ \A k \in Reached(c) : mem'[Target(c, k)] = c.data[k]
             /\ \A a \in Addresses \ {Target(c, k) : k \in Reached(c)} :
                  mem'[a] = mem[a]
  <1> DEFINE n == Width(p)
             c == args[p]
             data == args[p].data
             byte(a) == CHOOSE k \in Hits(p) : a = At(p, k)
  <1>1. /\ n \in {1, 2, 4} /\ Hits(p) = Reached(c) /\ c.target \in Addresses
        /\ \A k \in Hits(p) : /\ At(p, k) = Target(c, k)
                              /\ Target(c, k) \in Addresses
                              /\ Target(c, k) <= bar.end
    BY AccessFacts DEF Write
  <1>2. /\ Writes(c)
        /\ mem' = [a \in Addresses |->
                    IF \E k \in Hits(p) : a = At(p, k)
                      THEN Little(data, n)[HostByte(byte(a), n)] ELSE mem[a]]
    BY DEF Write
  <1>3. bar.start \in Nat
    BY Sizes DEF IInv, TypeInv
  <1>4. ASSUME NEW k \in 0..n - 1
        PROVE  Little(data, n)[HostByte(k, n)] = data[k]
    <2>1. CASE host = "big"
      <3>1. n - 1 - k \in 0..3 /\ n - 1 - k < n /\ n - 1 - (n - 1 - k) = k
        BY <1>1
      <3> QED
        BY <2>1, <3>1 DEF Little, Swap, HostByte
    <2>2. CASE host # "big"
      BY <2>2 DEF Little, HostByte
    <2> QED
      BY <2>1, <2>2
  <1>5. Hits(p) \subseteq 0..n - 1 /\ Hits(p) \subseteq 0..3
    BY <1>1 DEF Hits
  <1> HIDE DEF n, c, data
  <1>6. ASSUME NEW k \in Hits(p)
        PROVE  mem'[Target(c, k)] = data[k]
    <2> DEFINE a == Target(c, k)
    <2>1. a \in Addresses /\ a = At(p, k)
      BY <1>1, <1>6
    <2>2. byte(a) \in Hits(p) /\ a = At(p, byte(a))
      BY <1>6, <2>1
    <2> DEFINE l == byte(a)
    <2>3. Target(c, l) = Target(c, k)
      BY <1>1, <2>1, <2>2
    <2>4. l \in 0..3 /\ k \in 0..3
      BY <1>5, <1>6, <2>2
    <2> HIDE DEF l, byte
    <2>5. Offset(c, l) \in Int /\ Offset(c, k) \in Int
      BY <1>1, <2>4, OffsetValue DEF Addresses
    <2>6. Offset(c, l) = Offset(c, k)
      BY <1>3, <2>3, <2>5 DEF Target
    <2>7. l = k
      BY <1>1, <2>4, <2>6, OffsetsDiffer
    <2>8. mem'[a] = Little(data, n)[HostByte(l, n)]
      BY <1>2, <1>6, <2>1 DEF l
    <2> QED
      BY <1>4, <1>5, <1>6, <2>7, <2>8
  <1>7. ASSUME NEW a \in Addresses \ {Target(c, k) : k \in Hits(p)}
        PROVE  mem'[a] = mem[a]
    <2>1. ~\E k \in Hits(p) : a = At(p, k)
      BY <1>1, <1>7
    <2> QED
      BY <1>2, <2>1
  <1> QED
    BY <1>1, <1>2, <1>6, <1>7 DEF c, data

(***************************************************************************)
(* On any host, for any number of processes, any BAR, any command lines,   *)
(* any target of an unsigned long and any other mappings: the bytes of an  *)
(* access of reg_rw that lie in its mapping are bytes of the BAR, a write  *)
(* stores the low bytes of its data there, little-endian, a read reports   *)
(* the bytes there, and nothing else changes a register, also when a       *)
(* target outside the mapping meets other memory of the process.           *)
(***************************************************************************)
THEOREM AccessIsExact == Spec => AccessExact
  <1>1. IInv /\ [Next]_vars => [AccessStep]_vars
    <2> SUFFICES ASSUME IInv, Next
                 PROVE  AccessStep
      OBVIOUS
    <2>1. \A p \in Procs : Accesses(p) => Read(p) \/ Write(p)
      BY AccessSteps
    <2>2. mem' # mem => \E p \in Procs : Accesses(p) /\ Writes(args[p])
      BY AccessSteps
    <2> QED
      BY <2>1, <2>2, ReadIsExact, WriteIsExact DEF AccessStep
  <1> QED
    BY <1>1, Invariance, PTL DEF Spec, AccessExact
============================================================================
