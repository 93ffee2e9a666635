--------------------------- MODULE H2cWriteProofs ---------------------------
(***************************************************************************)
(* What holds of xpcie_h2c_write() without any lock, for any number of     *)
(* overlapping calls, chains of any length and an engine of any speed.     *)
(***************************************************************************)
EXTENDS H2cWrite, FiniteSetTheorems, TLAPS

(* All high words are equal, because consistent memory is below 4G.        *)
HighWords == first_hi = 0 /\ \A w \in Writers : desc_bus[w].hi = 0

(* A thread about to write its address has a chain there; from then on the *)
(* registers hold the address of a chain, this one or that of a thread     *)
(* that has written after it.                                              *)
OwnChain ==
  \A w \in Writers :
    pc[w] \in {"set_adj", "set_lo"} => desc_bus[w] \in DOMAIN chains
RegsAtChain ==
  \A w \in Writers :
    pc[w] \in {"set_hi", "run"} => FirstDesc \in DOMAIN chains

(* A busy engine is at a chain.                                            *)
EngineAtChain == eng.busy => eng.at \in DOMAIN chains

(* What a thread holds at each point of the call.                          *)
Holdings ==
  /\ mapped \subseteq pinned
  /\ \A w \in Writers :
       /\ pc[w] \in {"idle", "pin", "returned"} => w \notin pinned
       /\ pc[w] = "map" => w \in pinned
       /\ pc[w] = "put" => w \notin mapped

IInv ==
  /\ TypeOK /\ HighWords /\ OwnChain /\ RegsAtChain
  /\ EngineAtChain /\ StoppedWhenUnused /\ Holdings

(* Every control point of TypeOK.                                          *)
Points == {"idle", "pin", "map", "alloc", "set_adj", "set_lo", "set_hi", "run",
           "wait", "stop", "unmap", "put", "returned", "dead"}

(* Addresses of consistent memory are below 4G.                            *)
LEMMA ConsistentBus ==
  ASSUME NEW a \in [lo : Buffers, hi : ConsistentHi]
  PROVE  a \in Buses /\ a.hi = 0
  <1>1. a = [lo |-> a.lo, hi |-> a.hi] /\ a.lo \in Buffers /\ a.hi = 0
    BY DEF ConsistentHi
  <1>2. a.lo \in Nat
    BY <1>1, WriteAssumption
  <1> QED
    BY <1>1, <1>2 DEF Buses

(* The state after loading the driver satisfies the invariant.             *)
THEOREM InitIInv == Init => IInv
  <1> SUFFICES ASSUME Init
               PROVE  IInv
    OBVIOUS
  <1>1. chains \in [DOMAIN chains -> Writers]
    BY DEF Init
  <1>2. TypeOK
    <2>1. NoBus \in Buses
      BY DEF NoBus, Buses
    <2>2. eng \in [busy : BOOLEAN, at : Buses, d : 0..MaxDescs]
      BY <2>1, WriteAssumption DEF Init, Idle
    <2>3. done \in [Writers -> SUBSET (0..MaxDescs)]
      BY DEF Init
    <2>4. /\ desc_bus \in [Writers -> Buses]
          /\ desc_num \in [Writers -> 0..MaxDescs]
          /\ first_adj \in 0..MAX_EXTRA_ADJ
          /\ first_lo \in Nat /\ first_hi \in Nat
      BY <2>1, WriteAssumption DEF Init
    <2>5. /\ pc \in [Writers -> Points]
          /\ pinned \subseteq Writers /\ mapped \subseteq Writers
          /\ run \in BOOLEAN /\ stray \in BOOLEAN
          /\ raced \subseteq Writers /\ late \in BOOLEAN
      BY DEF Init, Points
    <2> QED
      BY <1>1, <2>2, <2>3, <2>4, <2>5 DEF TypeOK, Points
  <1>3. HighWords /\ EngineAtChain
    BY DEF Init, HighWords, EngineAtChain, NoBus, Idle
  <1> QED
    BY <1>2, <1>3 DEF Init, IInv, OwnChain, RegsAtChain, StoppedWhenUnused,
       Holdings

(* A thread moves alone.                                                   *)
LEMMA GotoMoves ==
  ASSUME NEW w \in Writers, NEW from, NEW to \in Points, TypeOK,
         Goto(w, from, to)
  PROVE  /\ pc[w] = from /\ pc'[w] = to
         /\ pc' \in [Writers -> Points]
         /\ \A v \in Writers \ {w} : pc'[v] = pc[v]
  BY DEF Goto, TypeOK, Points

(* No step of a thread or of the engine breaks the invariant.              *)
THEOREM StepIInv == IInv /\ [Next]_vars => IInv'
  <1> SUFFICES ASSUME IInv, [Next]_vars
               PROVE  IInv'
    OBVIOUS
  <1> USE DEF IInv
  <1>1. ASSUME NEW w \in Writers, Enter(w)
        PROVE  IInv'
    <2>1. Goto(w, "idle", "pin") /\ UNCHANGED <<local, regs, engine>>
      BY <1>1 DEF Enter
    <2>2. /\ pc[w] = "idle" /\ pc'[w] = "pin" /\ pc' \in [Writers -> Points]
          /\ \A v \in Writers \ {w} : pc'[v] = pc[v]
      BY <2>1, GotoMoves DEF Points
    <2>3. TypeOK'
      BY <2>1, <2>2 DEF TypeOK, local, regs, engine, Points
    <2>4. HighWords' /\ EngineAtChain'
      BY <2>1 DEF HighWords, EngineAtChain, local, regs, engine
    <2>5. OwnChain' /\ RegsAtChain'
      BY <2>1, <2>2 DEF OwnChain, RegsAtChain, FirstDesc, local, regs
    <2>6. StoppedWhenUnused'
      BY <2>1, <2>2 DEF StoppedWhenUnused, regs
    <2>7. Holdings'
      BY <2>1, <2>2 DEF Holdings, local
    <2> QED
      BY <2>3, <2>4, <2>5, <2>6, <2>7
  <1>2. ASSUME NEW w \in Writers, Pin(w)
        PROVE  IInv'
    <2>1. /\ UNCHANGED <<mapped, desc_bus, desc_num, chains, regs, engine>>
          /\ pinned' \subseteq Writers /\ pinned \subseteq pinned'
          /\ \A v \in Writers \ {w} : v \in pinned' <=> v \in pinned
          /\ pc'[w] = "map" => w \in pinned'
          /\ pc[w] = "pin" /\ pc'[w] \in {"map", "dead"}
          /\ pc' \in [Writers -> Points]
          /\ \A v \in Writers \ {w} : pc'[v] = pc[v]
      BY <1>2, GotoMoves DEF Pin, Points, TypeOK
    <2>3. TypeOK'
      BY <2>1 DEF TypeOK, regs, engine, Points
    <2>4. HighWords' /\ EngineAtChain'
      BY <2>1 DEF HighWords, EngineAtChain, regs, engine
    <2>5. OwnChain' /\ RegsAtChain'
      BY <2>1 DEF OwnChain, RegsAtChain, FirstDesc, regs
    <2>6. StoppedWhenUnused'
      BY <2>1 DEF StoppedWhenUnused, regs
    <2>7. Holdings'
      BY <2>1 DEF Holdings
    <2> QED
      BY <2>3, <2>4, <2>5, <2>6, <2>7
  <1>3. ASSUME NEW w \in Writers, MapSg(w)
        PROVE  IInv'
    <2>1. /\ UNCHANGED <<pinned, desc_bus, desc_num, chains, regs, engine>>
          /\ mapped' \subseteq Writers /\ mapped' \subseteq mapped \cup {w}
          /\ pc[w] = "map" /\ pc'[w] \in {"alloc", "dead"}
          /\ pc' \in [Writers -> Points]
          /\ \A v \in Writers \ {w} : pc'[v] = pc[v]
      BY <1>3, GotoMoves DEF MapSg, Points, TypeOK
    <2>3. TypeOK'
      BY <2>1 DEF TypeOK, regs, engine, Points
    <2>4. HighWords' /\ EngineAtChain'
      BY <2>1 DEF HighWords, EngineAtChain, regs, engine
    <2>5. OwnChain' /\ RegsAtChain'
      BY <2>1 DEF OwnChain, RegsAtChain, FirstDesc, regs
    <2>6. StoppedWhenUnused'
      BY <2>1 DEF StoppedWhenUnused, regs
    <2>7. Holdings'
      BY <2>1 DEF Holdings
    <2> QED
      BY <2>3, <2>4, <2>5, <2>6, <2>7
  <1>4. ASSUME NEW w \in Writers, Build(w)
        PROVE  IInv'
    <2>1. CASE Goto(w, "alloc", "dead") /\ UNCHANGED <<local, regs, engine>>
      <3>1. /\ pc[w] = "alloc" /\ pc'[w] = "dead"
            /\ pc' \in [Writers -> Points]
            /\ \A v \in Writers \ {w} : pc'[v] = pc[v]
        BY <2>1, GotoMoves DEF Points
      <3>2. TypeOK'
        BY <2>1, <3>1 DEF TypeOK, local, regs, engine, Points
      <3>3. HighWords' /\ EngineAtChain'
        BY <2>1 DEF HighWords, EngineAtChain, local, regs, engine
      <3>4. OwnChain' /\ RegsAtChain'
        BY <2>1, <3>1 DEF OwnChain, RegsAtChain, FirstDesc, local, regs
      <3>5. StoppedWhenUnused'
        BY <2>1, <3>1 DEF StoppedWhenUnused, regs
      <3>6. Holdings'
        BY <2>1, <3>1 DEF Holdings, local
      <3> QED
        BY <3>2, <3>3, <3>4, <3>5, <3>6
    <2>2. CASE ~(Goto(w, "alloc", "dead") /\ UNCHANGED <<local, regs, engine>>)
      <3>1. /\ Goto(w, "alloc", "set_adj")
            /\ UNCHANGED <<pinned, mapped, regs, engine>>
        BY <1>4, <2>2 DEF Build
      <3>2. PICK a \in [lo : Buffers, hi : ConsistentHi] \ DOMAIN chains,
                 n \in 1..MaxDescs :
              /\ desc_bus' = [desc_bus EXCEPT ![w] = a]
              /\ desc_num' = [desc_num EXCEPT ![w] = n]
              /\ chains' = [b \in DOMAIN chains \cup {a} |->
                              IF b = a THEN w ELSE chains[b]]
        BY <1>4, <2>2 DEF Build
      <3>3. /\ pc[w] = "alloc" /\ pc'[w] = "set_adj"
            /\ pc' \in [Writers -> Points]
            /\ \A v \in Writers \ {w} : pc'[v] = pc[v]
        BY <3>1, GotoMoves DEF Points
      <3>4. a \in Buses /\ a.hi = 0
        <4>1. a \in [lo : Buffers, hi : ConsistentHi]
          OBVIOUS
        <4> QED
          BY <4>1, ConsistentBus, Zenon
      <3>5. /\ desc_bus' \in [Writers -> Buses] /\ desc_bus'[w] = a
            /\ \A v \in Writers \ {w} : desc_bus'[v] = desc_bus[v]
        BY <3>2, <3>4 DEF TypeOK
      <3>6. DOMAIN chains' = DOMAIN chains \cup {a}
        BY <3>2
      <3>7. chains' \in [DOMAIN chains' -> Writers]
        BY <3>2, <3>6 DEF TypeOK
      <3>8. desc_num' \in [Writers -> 0..MaxDescs]
        BY <3>2, WriteAssumption DEF TypeOK
      <3>9. TypeOK'
        BY <3>1, <3>3, <3>5, <3>7, <3>8 DEF TypeOK, regs, engine, Points
      <3>10. HighWords'
        BY <3>1, <3>4, <3>5 DEF HighWords, regs
      <3>11. EngineAtChain'
        BY <3>1, <3>6 DEF EngineAtChain, engine
      <3>12. OwnChain'
        BY <3>3, <3>5, <3>6 DEF OwnChain
      <3>13. RegsAtChain'
        BY <3>1, <3>3, <3>6 DEF RegsAtChain, FirstDesc, regs
      <3>14. StoppedWhenUnused'
        BY <3>1, <3>3 DEF StoppedWhenUnused, regs
      <3>15. Holdings'
        BY <3>1, <3>3 DEF Holdings
      <3> QED
        BY <3>9, <3>10, <3>11, <3>12, <3>13, <3>14, <3>15
    <2> QED
      BY <2>1, <2>2
  <1>5. ASSUME NEW w \in Writers, SetAdjacent(w)
        PROVE  IInv'
    <2>1. /\ UNCHANGED <<local, first_lo, first_hi, run, eng, done, stray, late>>
          /\ raced' = raced \cup Meets(w)
          /\ pc[w] = "set_adj" /\ pc'[w] = "set_lo"
          /\ pc' \in [Writers -> Points]
          /\ \A v \in Writers \ {w} : pc'[v] = pc[v]
          /\ first_adj' = IF desc_num[w] > 0 THEN Clip(desc_num[w] - 1) ELSE 0
      BY <1>5, GotoMoves DEF SetAdjacent, Points
    <2>2. first_adj' \in 0..MAX_EXTRA_ADJ
      BY <2>1, WriteAssumption DEF Clip, TypeOK
    <2>8. raced' \subseteq Writers
      BY <2>1 DEF Meets, TypeOK
    <2>3. TypeOK'
      BY <2>1, <2>2, <2>8 DEF TypeOK, local, regs, engine, Points
    <2>4. HighWords' /\ EngineAtChain'
      BY <2>1, <2>2 DEF HighWords, EngineAtChain, local, regs, engine
    <2>5. OwnChain' /\ RegsAtChain'
      BY <2>1, <2>2 DEF OwnChain, RegsAtChain, FirstDesc, local, regs
    <2>6. StoppedWhenUnused'
      BY <2>1, <2>2 DEF StoppedWhenUnused, regs
    <2>7. Holdings'
      BY <2>1, <2>2 DEF Holdings, local
    <2> QED
      BY <2>3, <2>4, <2>5, <2>6, <2>7
  <1>6. ASSUME NEW w \in Writers, SetLo(w)
        PROVE  IInv'
    <2>1. /\ UNCHANGED <<local, first_adj, first_hi, run, engine>>
          /\ pc[w] = "set_lo" /\ pc'[w] = "set_hi"
          /\ pc' \in [Writers -> Points]
          /\ \A v \in Writers \ {w} : pc'[v] = pc[v]
          /\ first_lo' = desc_bus[w].lo
      BY <1>6, GotoMoves DEF SetLo, Points
    <2>2. first_lo' \in Nat /\ FirstDesc' \in DOMAIN chains
      <3>1. desc_bus[w] \in Buses /\ desc_bus[w] \in DOMAIN chains
        BY <2>1 DEF OwnChain, TypeOK
      <3>2. FirstDesc' = desc_bus[w]
        BY <2>1, <3>1 DEF FirstDesc, Buses, HighWords
      <3> QED
        BY <2>1, <3>1, <3>2 DEF Buses
    <2>3. TypeOK'
      BY <2>1, <2>2 DEF TypeOK, local, regs, engine, Points
    <2>4. HighWords' /\ EngineAtChain'
      BY <2>1, <2>2 DEF HighWords, EngineAtChain, local, regs, engine
    <2>5. OwnChain' /\ RegsAtChain'
      BY <2>1, <2>2 DEF OwnChain, RegsAtChain, local, regs
    <2>6. StoppedWhenUnused'
      BY <2>1, <2>2 DEF StoppedWhenUnused, regs
    <2>7. Holdings'
      BY <2>1, <2>2 DEF Holdings, local
    <2> QED
      BY <2>3, <2>4, <2>5, <2>6, <2>7
  <1>7. ASSUME NEW w \in Writers, SetHi(w)
        PROVE  IInv'
    <2>1. /\ UNCHANGED <<local, first_adj, first_lo, run, engine>>
          /\ pc[w] = "set_hi" /\ pc'[w] = "run"
          /\ pc' \in [Writers -> Points]
          /\ \A v \in Writers \ {w} : pc'[v] = pc[v]
          /\ first_hi' = desc_bus[w].hi
      BY <1>7, GotoMoves DEF SetHi, Points
    <2>2. first_hi' = 0 /\ first_hi = 0
      BY <2>1 DEF HighWords
    <2>3. TypeOK'
      BY <2>1, <2>2 DEF TypeOK, local, regs, engine, Points
    <2>4. HighWords' /\ EngineAtChain'
      BY <2>1, <2>2 DEF HighWords, EngineAtChain, local, regs, engine
    <2>5. OwnChain' /\ RegsAtChain'
      BY <2>1, <2>2 DEF OwnChain, RegsAtChain, FirstDesc, local, regs
    <2>6. StoppedWhenUnused'
      BY <2>1, <2>2 DEF StoppedWhenUnused, regs
    <2>7. Holdings'
      BY <2>1, <2>2 DEF Holdings, local
    <2> QED
      BY <2>3, <2>4, <2>5, <2>6, <2>7
  <1>8. ASSUME NEW w \in Writers, EngineStart(w)
        PROVE  IInv'
    <2>1. /\ UNCHANGED <<local, first_adj, first_lo, first_hi, done, stray,
                         raced, late>>
          /\ pc[w] = "run" /\ pc'[w] = "wait"
          /\ pc' \in [Writers -> Points]
          /\ \A v \in Writers \ {w} : pc'[v] = pc[v]
          /\ run' = TRUE
          /\ Launch \/ UNCHANGED eng
      BY <1>8, GotoMoves DEF EngineStart, Points
    <2>2. /\ eng' \in [busy : BOOLEAN, at : Buses, d : 0..MaxDescs]
          /\ eng'.busy => eng'.at \in DOMAIN chains
      <3>1. CASE FirstDesc \in DOMAIN chains /\ Launch
        <4>1. eng' = [busy |-> TRUE, at |-> FirstDesc, d |-> 0]
          BY <3>1 DEF Launch, TypeOK
        <4>2. FirstDesc \in Buses
          BY DEF FirstDesc, Buses, TypeOK
        <4> QED
          BY <4>1, <4>2, <3>1, WriteAssumption
      <3>2. CASE UNCHANGED eng
        BY <3>2 DEF TypeOK, EngineAtChain
      <3> QED
        BY <2>1, <3>1, <3>2 DEF Launch
    <2>3. TypeOK'
      BY <2>1, <2>2 DEF TypeOK, local, regs, engine, Points
    <2>4. HighWords' /\ EngineAtChain'
      BY <2>1, <2>2 DEF HighWords, EngineAtChain, local, regs, engine
    <2>5. OwnChain' /\ RegsAtChain'
      BY <2>1, <2>2 DEF OwnChain, RegsAtChain, FirstDesc, local, regs
    <2>6. StoppedWhenUnused'
      BY <2>1, <2>2 DEF StoppedWhenUnused, regs
    <2>7. Holdings'
      BY <2>1, <2>2 DEF Holdings, local
    <2> QED
      BY <2>3, <2>4, <2>5, <2>6, <2>7
  <1>9. ASSUME NEW w \in Writers, Wait(w)
        PROVE  IInv'
    <2>1. /\ UNCHANGED <<local, regs, eng, done, stray, raced>>
          /\ late' = (late \/ WorksFor(w))
          /\ pc[w] = "wait" /\ pc'[w] = "stop"
          /\ pc' \in [Writers -> Points]
          /\ \A v \in Writers \ {w} : pc'[v] = pc[v]
      BY <1>9, GotoMoves DEF Wait, Points
    <2>2. late' \in BOOLEAN
      BY <2>1 DEF WorksFor, TypeOK
    <2>3. TypeOK'
      BY <2>1, <2>2 DEF TypeOK, local, regs, engine, Points
    <2>4. HighWords' /\ EngineAtChain'
      BY <2>1 DEF HighWords, EngineAtChain, local, regs, engine
    <2>5. OwnChain' /\ RegsAtChain'
      BY <2>1 DEF OwnChain, RegsAtChain, FirstDesc, local, regs
    <2>6. StoppedWhenUnused'
      BY <2>1 DEF StoppedWhenUnused, regs
    <2>7. Holdings'
      BY <2>1 DEF Holdings, local
    <2> QED
      BY <2>3, <2>4, <2>5, <2>6, <2>7
  <1>10. ASSUME NEW w \in Writers, EngineStop(w)
        PROVE  IInv'
    <2>1. /\ UNCHANGED <<local, first_adj, first_lo, first_hi, engine>>
          /\ pc[w] = "stop" /\ pc'[w] = "unmap"
          /\ pc' \in [Writers -> Points]
          /\ \A v \in Writers \ {w} : pc'[v] = pc[v]
          /\ run' = FALSE
      BY <1>10, GotoMoves DEF EngineStop, Points
    <2>3. TypeOK'
      BY <2>1 DEF TypeOK, local, regs, engine, Points
    <2>4. HighWords' /\ EngineAtChain'
      BY <2>1 DEF HighWords, EngineAtChain, local, regs, engine
    <2>5. OwnChain' /\ RegsAtChain'
      BY <2>1 DEF OwnChain, RegsAtChain, FirstDesc, local, regs
    <2>6. StoppedWhenUnused'
      BY <2>1 DEF StoppedWhenUnused, regs
    <2>7. Holdings'
      BY <2>1 DEF Holdings, local
    <2> QED
      BY <2>3, <2>4, <2>5, <2>6, <2>7
  <1>11. ASSUME NEW w \in Writers, UnmapSg(w)
        PROVE  IInv'
    <2>1. /\ UNCHANGED <<pinned, desc_bus, desc_num, chains, regs, engine>>
          /\ pc[w] = "unmap" /\ pc'[w] = "put"
          /\ pc' \in [Writers -> Points]
          /\ \A v \in Writers \ {w} : pc'[v] = pc[v]
          /\ mapped' = mapped \ {w}
      BY <1>11, GotoMoves DEF UnmapSg, Points
    <2>3. TypeOK'
      BY <2>1 DEF TypeOK, local, regs, engine, Points
    <2>4. HighWords' /\ EngineAtChain'
      BY <2>1 DEF HighWords, EngineAtChain, local, regs, engine
    <2>5. OwnChain' /\ RegsAtChain'
      BY <2>1 DEF OwnChain, RegsAtChain, FirstDesc, local, regs
    <2>6. StoppedWhenUnused'
      BY <2>1 DEF StoppedWhenUnused, regs
    <2>7. Holdings'
      BY <2>1 DEF Holdings, local
    <2> QED
      BY <2>3, <2>4, <2>5, <2>6, <2>7
  <1>12. ASSUME NEW w \in Writers, PutPages(w)
        PROVE  IInv'
    <2>1. /\ UNCHANGED <<mapped, desc_bus, desc_num, chains, regs, engine>>
          /\ pc[w] = "put" /\ pc'[w] = "returned"
          /\ pc' \in [Writers -> Points]
          /\ \A v \in Writers \ {w} : pc'[v] = pc[v]
          /\ pinned' = pinned \ {w}
      BY <1>12, GotoMoves DEF PutPages, Points
    <2>3. TypeOK'
      BY <2>1 DEF TypeOK, local, regs, engine, Points
    <2>4. HighWords' /\ EngineAtChain'
      BY <2>1 DEF HighWords, EngineAtChain, local, regs, engine
    <2>5. OwnChain' /\ RegsAtChain'
      BY <2>1 DEF OwnChain, RegsAtChain, FirstDesc, local, regs
    <2>6. StoppedWhenUnused'
      BY <2>1 DEF StoppedWhenUnused, regs
    <2>7. Holdings'
      BY <2>1 DEF Holdings, local
    <2> QED
      BY <2>3, <2>4, <2>5, <2>6, <2>7
  <1>13. CASE Transfer
    <2> DEFINE w == chains[eng.at]
    <2>1. /\ eng.busy /\ UNCHANGED <<pc, local, regs, raced, late>>
          /\ done' = [done EXCEPT ![w] = @ \cup {eng.d}]
          /\ stray' = (stray \/ w \notin mapped)
          /\ eng' = IF run /\ eng.d < desc_num[w] - 1
                      THEN [eng EXCEPT !.d = @ + 1]
                      ELSE Idle
      BY <1>13 DEF Transfer
    <2>2. eng.at \in DOMAIN chains /\ w \in Writers
      BY <2>1 DEF EngineAtChain, TypeOK
    <2> HIDE DEF w
    <2>3. /\ eng' \in [busy : BOOLEAN, at : Buses, d : 0..MaxDescs]
          /\ eng'.busy => eng'.at = eng.at
      <3>1. CASE run /\ eng.d < desc_num[w] - 1
        <4>1. eng' = [eng EXCEPT !.d = @ + 1]
          BY <2>1, <3>1
        <4>2. desc_num[w] \in 0..MaxDescs /\ eng.d \in 0..MaxDescs
          BY <2>2 DEF TypeOK
        <4>3. eng.d + 1 \in 0..MaxDescs
          BY <4>2, <3>1, WriteAssumption
        <4> QED
          BY <4>1, <4>3 DEF TypeOK
      <3>2. CASE ~(run /\ eng.d < desc_num[w] - 1)
        BY <2>1, <3>2, WriteAssumption DEF Idle, NoBus, Buses
      <3> QED
        BY <3>1, <3>2
    <2>4. done' \in [Writers -> SUBSET (0..MaxDescs)] /\ stray' \in BOOLEAN
      BY <2>1, <2>2 DEF TypeOK
    <2>5. TypeOK'
      BY <2>1, <2>3, <2>4 DEF TypeOK, local, regs
    <2>6. EngineAtChain'
      BY <2>1, <2>2, <2>3 DEF EngineAtChain, local
    <2> QED
      BY <2>1, <2>5, <2>6 DEF HighWords, OwnChain, RegsAtChain, FirstDesc,
         StoppedWhenUnused, Holdings, local, regs
  <1>14. CASE Fault
    <2>1. eng' = Idle /\ UNCHANGED <<pc, local, regs, done, stray, raced, late>>
      BY <1>14 DEF Fault
    <2>2. TypeOK' /\ EngineAtChain'
      BY <2>1, WriteAssumption DEF TypeOK, EngineAtChain, Idle, NoBus,
         Buses, local, regs
    <2> QED
      BY <2>1, <2>2 DEF HighWords, OwnChain, RegsAtChain, FirstDesc,
         StoppedWhenUnused, Holdings, local, regs
  <1>15. CASE UNCHANGED vars
    BY <1>15 DEF vars, local, regs, engine, TypeOK, HighWords, OwnChain,
       RegsAtChain, FirstDesc, EngineAtChain, StoppedWhenUnused, Holdings
  <1> QED
    BY <1>1, <1>2, <1>3, <1>4, <1>5, <1>6, <1>7, <1>8, <1>9, <1>10, <1>11,
       <1>12, <1>13, <1>14, <1>15 DEF Next, Step
-----------------------------------------------------------------------------
(***************************************************************************)
(* What is known of chains, registers and engine while calls overlap.  The *)
(* control points after SetLo(w) are the only ones at which the engine can *)
(* have heard of w's chain; a thread outside raced is alone between its    *)
(* first and its last register write.                                      *)
(***************************************************************************)
Holding == {"alloc", "set_adj", "set_lo", "set_hi", "run", "wait", "stop",
            "unmap"}

OwnsChain ==
  \A w \in Writers :
    pc[w] \in {"set_adj"} \cup Starting =>
      desc_bus[w] \in DOMAIN chains /\ chains[desc_bus[w]] = w
RegsSubmitted ==
  \A w \in Writers :
    pc[w] \in {"set_hi", "run"} => pc[chains[FirstDesc]] \in Submitted
EngineSubmitted == eng.busy => pc[chains[eng.at]] \in Submitted
DoneSubmitted == \A w \in Writers : done[w] # {} => pc[w] \in Submitted

(* A thread that met no other has the registers for itself.                *)
UnmetOwnsRegs ==
  \A w \in Writers \ raced :
    pc[w] \in Starting =>
      /\ \A v \in Writers \ {w} : pc[v] \notin Starting
      /\ first_adj = Clip(desc_num[w] - 1)
      /\ pc[w] # "set_lo" => first_lo = desc_bus[w].lo

HoldsMapping == \A w \in Writers : pc[w] \in Holding => w \in mapped

(* As long as neither cause occurred, a busy engine works for a thread     *)
(* that waits, whose pages are mapped.                                     *)
NoCauseNoStray ==
  raced = {} /\ ~late => ~stray /\ (eng.busy => pc[chains[eng.at]] = "wait")

HasDescs == \A w \in Writers : pc[w] = "set_adj" => desc_num[w] > 0

JInv ==
  /\ OwnsChain /\ RegsSubmitted /\ EngineSubmitted /\ DoneSubmitted
  /\ UnmetOwnsRegs /\ HoldsMapping /\ NoCauseNoStray /\ HasDescs

(* Before the first call the engine has heard of no chain.                 *)
LEMMA InitJInv == Init => JInv
  BY DEF Init, JInv, OwnsChain, RegsSubmitted, EngineSubmitted, DoneSubmitted,
     UnmetOwnsRegs, HoldsMapping, NoCauseNoStray, HasDescs, Starting, Holding,
     Idle

(* A busy engine and the registers of a starting thread are at chains of   *)
(* threads.                                                                *)
LEMMA ChainsOfThreads ==
  ASSUME IInv
  PROVE  /\ eng.busy => chains[eng.at] \in Writers
         /\ \A w \in Writers :
              pc[w] \in {"set_hi", "run"} => chains[FirstDesc] \in Writers
  BY DEF IInv, TypeOK, EngineAtChain, RegsAtChain

(***************************************************************************)
(* A step of one thread that touches neither registers nor engine nor      *)
(* chains, and does not come to or leave the points at which it does.      *)
(***************************************************************************)
LEMMA QuietStep ==
  ASSUME IInv, JInv, NEW w \in Writers,
         \A v \in Writers \ {w} : pc'[v] = pc[v],
         pc[w] \notin Starting \cup {"wait"},
         pc'[w] \notin Starting \cup {"set_adj"},
         pc[w] \in Submitted => pc'[w] \in Submitted,
         \A v \in Writers \ {w} : v \in mapped => v \in mapped',
         pc'[w] \in Holding => w \in mapped',
         UNCHANGED <<desc_bus, desc_num, chains, first_adj, first_lo,
                     first_hi, engine>>
  PROVE  JInv'
  <1>1. UNCHANGED <<eng, done, stray, raced, late, FirstDesc>>
    BY DEF engine, FirstDesc
  <1>2. \A v \in Writers : pc[v] \in Submitted => pc'[v] \in Submitted
    OBVIOUS
  <1>3. OwnsChain'
    BY DEF JInv, OwnsChain, Starting
  <1>4. RegsSubmitted'
    BY <1>1, <1>2, ChainsOfThreads DEF JInv, RegsSubmitted, Starting
  <1>5. EngineSubmitted' /\ DoneSubmitted'
    BY <1>1, <1>2, ChainsOfThreads DEF JInv, EngineSubmitted, DoneSubmitted
  <1>6. UnmetOwnsRegs'
    BY <1>1 DEF JInv, UnmetOwnsRegs, Starting
  <1>7. HoldsMapping'
    BY DEF JInv, HoldsMapping
  <1>8. NoCauseNoStray'
    BY <1>1, ChainsOfThreads DEF JInv, NoCauseNoStray
  <1>9. HasDescs'
    BY DEF JInv, HasDescs
  <1> QED
    BY <1>3, <1>4, <1>5, <1>6, <1>7, <1>8, <1>9 DEF JInv

(* A thread builds its chain at an address no chain has; the engine has    *)
(* not heard of it.                                                        *)
LEMMA BuildStep ==
  ASSUME IInv, JInv, NEW w \in Writers, Build(w)
  PROVE  JInv'
  <1> USE DEF Starting
  <1>1. TypeOK
    BY DEF IInv
  <1>2. CASE Goto(w, "alloc", "dead") /\ UNCHANGED <<local, regs, engine>>
    <2>1. /\ pc[w] = "alloc" /\ pc'[w] = "dead"
          /\ \A v \in Writers \ {w} : pc'[v] = pc[v]
      BY <1>1, <1>2 DEF Goto, TypeOK
    <2> QED
      BY <1>2, <2>1, QuietStep DEF local, regs, Submitted, Holding
  <1>3. CASE ~(Goto(w, "alloc", "dead") /\ UNCHANGED <<local, regs, engine>>)
    <2>1. /\ Goto(w, "alloc", "set_adj")
          /\ UNCHANGED <<pinned, mapped, regs, engine>>
      BY <1>3 DEF Build
    <2>2. PICK a \in [lo : Buffers, hi : ConsistentHi] \ DOMAIN chains,
               n \in 1..MaxDescs :
            /\ desc_bus' = [desc_bus EXCEPT ![w] = a]
            /\ desc_num' = [desc_num EXCEPT ![w] = n]
            /\ chains' = [b \in DOMAIN chains \cup {a} |->
                            IF b = a THEN w ELSE chains[b]]
      BY <1>3 DEF Build
    <2>3. /\ pc[w] = "alloc" /\ pc'[w] = "set_adj"
          /\ \A v \in Writers \ {w} : pc'[v] = pc[v]
      BY <1>1, <2>1 DEF Goto, TypeOK
    <2>4. /\ desc_bus'[w] = a /\ desc_num'[w] = n
          /\ \A v \in Writers \ {w} : /\ desc_bus'[v] = desc_bus[v]
                                      /\ desc_num'[v] = desc_num[v]
      BY <1>1, <2>2 DEF TypeOK
    <2>5. /\ chains'[a] = w
          /\ \A b \in DOMAIN chains : chains'[b] = chains[b]
      BY <2>2
    <2>6. UNCHANGED <<eng, done, stray, raced, late, mapped, FirstDesc,
                      first_adj, first_lo>>
      BY <2>1 DEF engine, regs, FirstDesc
    <2>7. \A v \in Writers : pc[v] \in Submitted => pc'[v] \in Submitted
      BY <2>3 DEF Submitted
    <2>8. OwnsChain'
      BY <2>2, <2>3, <2>4, <2>5 DEF JInv, OwnsChain
    <2>9. RegsSubmitted'
      <3>1. \A v \in Writers : pc[v] \in {"set_hi", "run"} =>
              FirstDesc \in DOMAIN chains /\ chains[FirstDesc] \in Writers
        BY ChainsOfThreads DEF IInv, RegsAtChain
      <3> QED
        BY <2>3, <2>5, <2>6, <2>7, <3>1 DEF JInv, RegsSubmitted
    <2>10. EngineSubmitted' /\ DoneSubmitted'
      <3>1. eng.busy => eng.at \in DOMAIN chains /\ chains[eng.at] \in Writers
        BY ChainsOfThreads DEF IInv, EngineAtChain
      <3> QED
        BY <2>5, <2>6, <2>7, <3>1 DEF JInv, EngineSubmitted, DoneSubmitted
    <2>11. UnmetOwnsRegs'
      BY <2>3, <2>4, <2>6 DEF JInv, UnmetOwnsRegs
    <2>12. HoldsMapping'
      BY <2>3, <2>6 DEF JInv, HoldsMapping, Holding
    <2>13. NoCauseNoStray'
      <3>1. eng.busy => eng.at \in DOMAIN chains /\ chains[eng.at] \in Writers
        BY ChainsOfThreads DEF IInv, EngineAtChain
      <3> QED
        BY <2>3, <2>5, <2>6, <3>1 DEF JInv, NoCauseNoStray
    <2>14. HasDescs'
      <3>1. n > 0
        OBVIOUS
      <3> QED
        BY <2>3, <2>4, <3>1 DEF JInv, HasDescs
    <2> QED
      BY <2>8, <2>9, <2>10, <2>11, <2>12, <2>13, <2>14 DEF JInv
  <1> QED
    BY <1>2, <1>3

(* The first register write: from here on two threads that meet are in     *)
(* raced.                                                                  *)
LEMMA SetAdjacentStep ==
  ASSUME IInv, JInv, NEW w \in Writers, SetAdjacent(w)
  PROVE  JInv'
  <1>1. TypeOK
    BY DEF IInv
  <1>2. /\ pc[w] = "set_adj" /\ pc'[w] = "set_lo"
        /\ \A v \in Writers \ {w} : pc'[v] = pc[v]
        /\ raced' = raced \cup Meets(w)
        /\ first_adj' = IF desc_num[w] > 0 THEN Clip(desc_num[w] - 1) ELSE 0
        /\ UNCHANGED <<desc_bus, desc_num, chains, mapped, first_lo, eng, done,
                       stray, late, FirstDesc>>
    BY <1>1 DEF SetAdjacent, Goto, TypeOK, local, FirstDesc
  <1>3. OwnsChain' /\ HasDescs'
    BY <1>2 DEF JInv, OwnsChain, HasDescs, Starting
  <1>4. RegsSubmitted' /\ EngineSubmitted' /\ DoneSubmitted'
    BY <1>2, ChainsOfThreads DEF JInv, RegsSubmitted, EngineSubmitted,
       DoneSubmitted, Submitted
  <1>5. UnmetOwnsRegs'
    <2>1. SUFFICES ASSUME NEW u \in Writers \ raced', pc'[u] \in Starting
                   PROVE  /\ \A v \in Writers \ {u} : pc'[v] \notin Starting
                          /\ first_adj' = Clip(desc_num[u] - 1)
                          /\ pc'[u] # "set_lo" => first_lo = desc_bus[u].lo
      BY <1>2 DEF UnmetOwnsRegs
    <2>2. u \notin raced /\ u \notin Meets(w)
      BY <1>2, <2>1
    <2>3. u = w
      BY <1>2, <2>1, <2>2 DEF Meets
    <2>4. \A v \in Writers \ {w} : pc[v] \notin Starting
      BY <2>2, <2>3 DEF Meets
    <2>5. desc_num[w] > 0
      BY <1>2 DEF JInv, HasDescs
    <2> QED
      BY <1>2, <2>3, <2>4, <2>5
  <1>6. HoldsMapping'
    BY <1>2 DEF JInv, HoldsMapping, Holding
  <1>7. NoCauseNoStray'
    <2>1. raced' = {} => raced = {}
      BY <1>2
    <2> QED
      BY <1>2, <2>1, ChainsOfThreads DEF JInv, NoCauseNoStray
  <1> QED
    BY <1>3, <1>4, <1>5, <1>6, <1>7 DEF JInv

(* The address: the registers now hold the chain of this thread, which has *)
(* submitted it by this write.                                             *)
LEMMA SetLoStep ==
  ASSUME IInv, JInv, NEW w \in Writers, SetLo(w)
  PROVE  JInv'
  <1>1. TypeOK /\ HighWords
    BY DEF IInv
  <1>2. /\ pc[w] = "set_lo" /\ pc'[w] = "set_hi"
        /\ \A v \in Writers \ {w} : pc'[v] = pc[v]
        /\ first_lo' = desc_bus[w].lo
        /\ UNCHANGED <<desc_bus, desc_num, chains, mapped, first_adj, first_hi,
                       eng, done, stray, raced, late>>
    BY <1>1 DEF SetLo, Goto, TypeOK, local, engine
  <1>3. FirstDesc' = desc_bus[w]
    <2>1. desc_bus[w] = [lo |-> desc_bus[w].lo, hi |-> 0] /\ first_hi' = 0
      BY <1>1, <1>2 DEF TypeOK, Buses, HighWords
    <2> QED
      BY <1>2, <2>1 DEF FirstDesc
  <1>4. chains'[FirstDesc'] = w
    BY <1>2, <1>3 DEF JInv, OwnsChain, Starting
  <1>5. OwnsChain' /\ HasDescs'
    BY <1>2 DEF JInv, OwnsChain, HasDescs, Starting
  <1>6. RegsSubmitted' /\ EngineSubmitted' /\ DoneSubmitted'
    BY <1>2, <1>4, ChainsOfThreads DEF JInv, RegsSubmitted, EngineSubmitted,
       DoneSubmitted, Submitted
  <1>7. UnmetOwnsRegs'
    BY <1>2 DEF JInv, UnmetOwnsRegs, Starting
  <1>8. HoldsMapping'
    BY <1>2 DEF JInv, HoldsMapping, Holding
  <1>9. NoCauseNoStray'
    BY <1>2, ChainsOfThreads DEF JInv, NoCauseNoStray
  <1> QED
    BY <1>5, <1>6, <1>7, <1>8, <1>9 DEF JInv

(* The high word is the same for all.                                      *)
LEMMA SetHiStep ==
  ASSUME IInv, JInv, NEW w \in Writers, SetHi(w)
  PROVE  JInv'
  <1>1. TypeOK /\ HighWords
    BY DEF IInv
  <1>2. /\ pc[w] = "set_hi" /\ pc'[w] = "run"
        /\ \A v \in Writers \ {w} : pc'[v] = pc[v]
        /\ UNCHANGED <<desc_bus, desc_num, chains, mapped, first_adj, first_lo,
                       eng, done, stray, raced, late>>
        /\ first_hi' = first_hi
    BY <1>1 DEF SetHi, Goto, TypeOK, local, engine, HighWords
  <1>3. FirstDesc' = FirstDesc
    BY <1>2 DEF FirstDesc
  <1>4. OwnsChain' /\ HasDescs'
    BY <1>2 DEF JInv, OwnsChain, HasDescs, Starting
  <1>5. RegsSubmitted' /\ EngineSubmitted' /\ DoneSubmitted'
    BY <1>2, <1>3, ChainsOfThreads DEF JInv, RegsSubmitted, EngineSubmitted,
       DoneSubmitted, Submitted
  <1>6. UnmetOwnsRegs'
    BY <1>2 DEF JInv, UnmetOwnsRegs, Starting
  <1>7. HoldsMapping'
    BY <1>2 DEF JInv, HoldsMapping, Holding
  <1>8. NoCauseNoStray'
    BY <1>2, ChainsOfThreads DEF JInv, NoCauseNoStray
  <1> QED
    BY <1>4, <1>5, <1>6, <1>7, <1>8 DEF JInv

(* A thread about to set RUN that met no other finds its own address.      *)
LEMMA OwnAddress ==
  ASSUME IInv, JInv, NEW w \in Writers \ raced, pc[w] = "run"
  PROVE  FirstDesc = desc_bus[w] /\ first_adj = Clip(desc_num[w] - 1)
  <1>1. desc_bus[w] = [lo |-> desc_bus[w].lo, hi |-> 0] /\ first_hi = 0
    BY DEF IInv, TypeOK, Buses, HighWords
  <1>2. first_lo = desc_bus[w].lo /\ first_adj = Clip(desc_num[w] - 1)
    BY DEF JInv, UnmetOwnsRegs, Starting
  <1> QED
    BY <1>1, <1>2 DEF FirstDesc

(* Setting RUN: if the engine starts, it is on a submitted chain, and on   *)
(* the thread's own as long as no two threads have met.                    *)
LEMMA EngineStartStep ==
  ASSUME IInv, JInv, NEW w \in Writers, EngineStart(w)
  PROVE  JInv'
  <1>1. TypeOK
    BY DEF IInv
  <1>2. /\ pc[w] = "run" /\ pc'[w] = "wait"
        /\ \A v \in Writers \ {w} : pc'[v] = pc[v]
        /\ UNCHANGED <<desc_bus, desc_num, chains, mapped, first_adj, first_lo,
                       done, stray, raced, late, FirstDesc>>
    BY <1>1 DEF EngineStart, Goto, TypeOK, local, FirstDesc
  <1>3. FirstDesc \in DOMAIN chains /\ chains[FirstDesc] \in Writers
    BY <1>2, ChainsOfThreads DEF IInv, RegsAtChain
  <1>4. \/ eng' = [busy |-> TRUE, at |-> FirstDesc, d |-> 0]
        \/ eng' = eng
    BY <1>3 DEF EngineStart, Launch
  <1>5. OwnsChain' /\ HasDescs'
    BY <1>2 DEF JInv, OwnsChain, HasDescs, Starting
  <1>6. RegsSubmitted' /\ DoneSubmitted'
    BY <1>2, ChainsOfThreads DEF JInv, RegsSubmitted, DoneSubmitted, Submitted
  <1>7. \A v \in Writers : pc[v] \in Submitted => pc'[v] \in Submitted
    BY <1>2 DEF Submitted
  <1>8. EngineSubmitted'
    <2>1. CASE eng' = eng
      BY <1>2, <1>7, <2>1, ChainsOfThreads DEF JInv, EngineSubmitted
    <2>2. CASE eng' = [busy |-> TRUE, at |-> FirstDesc, d |-> 0]
      BY <1>2, <1>3, <1>7, <2>2 DEF JInv, RegsSubmitted, EngineSubmitted
    <2> QED
      BY <1>4, <2>1, <2>2
  <1>9. UnmetOwnsRegs'
    BY <1>2 DEF JInv, UnmetOwnsRegs, Starting
  <1>10. HoldsMapping'
    BY <1>2 DEF JInv, HoldsMapping, Holding
  <1>11. NoCauseNoStray'
    <2>1. SUFFICES ASSUME raced = {}, ~late
                   PROVE  ~stray /\ (eng'.busy => pc'[chains[eng'.at]] = "wait")
      BY <1>2 DEF NoCauseNoStray
    <2>2. ~stray /\ (eng.busy => pc[chains[eng.at]] = "wait")
      BY <2>1 DEF JInv, NoCauseNoStray
    <2>3. CASE eng' = eng
      BY <1>2, <2>2, <2>3, ChainsOfThreads
    <2>4. CASE eng' = [busy |-> TRUE, at |-> FirstDesc, d |-> 0]
      <3>1. FirstDesc = desc_bus[w]
        BY <1>2, <2>1, OwnAddress
      <3>2. chains[FirstDesc] = w
        BY <1>2, <3>1 DEF JInv, OwnsChain, Starting
      <3> QED
        BY <1>2, <2>2, <2>4, <3>2
    <2> QED
      BY <1>4, <2>3, <2>4
  <1> QED
    BY <1>5, <1>6, <1>8, <1>9, <1>10, <1>11 DEF JInv

(* The end of the delay: a thread whose transfer still runs is late.       *)
LEMMA WaitStep ==
  ASSUME IInv, JInv, NEW w \in Writers, Wait(w)
  PROVE  JInv'
  <1>1. TypeOK
    BY DEF IInv
  <1>2. /\ pc[w] = "wait" /\ pc'[w] = "stop"
        /\ \A v \in Writers \ {w} : pc'[v] = pc[v]
        /\ late' = (late \/ WorksFor(w))
        /\ UNCHANGED <<desc_bus, desc_num, chains, mapped, first_adj, first_lo,
                       eng, done, stray, raced, FirstDesc>>
    BY <1>1 DEF Wait, Goto, TypeOK, local, regs, FirstDesc
  <1>3. OwnsChain' /\ HasDescs'
    BY <1>2 DEF JInv, OwnsChain, HasDescs, Starting
  <1>4. RegsSubmitted' /\ EngineSubmitted' /\ DoneSubmitted'
    BY <1>2, ChainsOfThreads DEF JInv, RegsSubmitted, EngineSubmitted,
       DoneSubmitted, Submitted
  <1>5. UnmetOwnsRegs'
    BY <1>2 DEF JInv, UnmetOwnsRegs, Starting
  <1>6. HoldsMapping'
    BY <1>2 DEF JInv, HoldsMapping, Holding
  <1>7. NoCauseNoStray'
    BY <1>2, ChainsOfThreads DEF JInv, NoCauseNoStray, WorksFor
  <1> QED
    BY <1>3, <1>4, <1>5, <1>6, <1>7 DEF JInv

(* The engine completes a descriptor of a submitted chain; without a cause *)
(* its thread waits and has its pages mapped.                              *)
LEMMA TransferStep ==
  ASSUME IInv, JInv, Transfer
  PROVE  JInv'
  <1> DEFINE w == chains[eng.at]
  <1>1. TypeOK /\ eng.busy /\ w \in Writers /\ pc[w] \in Submitted
    BY ChainsOfThreads DEF IInv, Transfer, JInv, EngineSubmitted
  <1>2. /\ done' = [done EXCEPT ![w] = @ \cup {eng.d}]
        /\ stray' = (stray \/ w \notin mapped)
        /\ ~eng'.busy \/ (eng'.busy /\ eng'.at = eng.at)
        /\ UNCHANGED <<pc, desc_bus, desc_num, chains, mapped, first_adj,
                       first_lo, raced, late, FirstDesc>>
    BY <1>1 DEF Transfer, TypeOK, Idle, local, regs, FirstDesc
  <1>3. OwnsChain' /\ HasDescs' /\ RegsSubmitted'
    BY <1>2 DEF JInv, OwnsChain, HasDescs, RegsSubmitted
  <1>7. EngineSubmitted'
    <2>1. pc' = pc /\ chains' = chains
      BY <1>2
    <2>2. eng'.busy => chains'[eng'.at] = w
      BY <1>2, <2>1
    <2> QED
      BY <1>1, <2>1, <2>2 DEF EngineSubmitted
  <1>4. DoneSubmitted'
    BY <1>1, <1>2 DEF JInv, DoneSubmitted, TypeOK
  <1>5. UnmetOwnsRegs' /\ HoldsMapping'
    BY <1>2 DEF JInv, UnmetOwnsRegs, HoldsMapping
  <1>6. NoCauseNoStray'
    <2>1. pc[w] = "wait" => w \in mapped
      BY <1>1 DEF JInv, HoldsMapping, Holding
    <2> QED
      BY <1>1, <1>2, <2>1 DEF JInv, NoCauseNoStray
  <1> QED
    BY <1>3, <1>4, <1>5, <1>6, <1>7 DEF JInv

(* No step of a thread or of the engine breaks this invariant either.      *)
THEOREM StepJInv == IInv /\ JInv /\ [Next]_vars => JInv'
  <1> SUFFICES ASSUME IInv, JInv, [Next]_vars
               PROVE  JInv'
    OBVIOUS
  <1>1. TypeOK
    BY DEF IInv
  <1>2. ASSUME NEW w \in Writers, Enter(w) \/ Pin(w)
        PROVE  JInv'
    <2>1. /\ pc[w] \in {"idle", "pin"} /\ pc'[w] \in {"pin", "map", "dead"}
          /\ \A v \in Writers \ {w} : pc'[v] = pc[v]
          /\ UNCHANGED <<mapped, desc_bus, desc_num, chains, regs, engine>>
      BY <1>1, <1>2 DEF Enter, Pin, Goto, TypeOK, local
    <2> QED
      BY <2>1, QuietStep DEF regs, Starting, Submitted, Holding
  <1>3. ASSUME NEW w \in Writers, MapSg(w)
        PROVE  JInv'
    <2>1. /\ pc[w] = "map" /\ pc'[w] \in {"alloc", "dead"}
          /\ pc'[w] = "alloc" => w \in mapped'
          /\ \A v \in Writers \ {w} : /\ pc'[v] = pc[v]
                                      /\ v \in mapped => v \in mapped'
          /\ UNCHANGED <<desc_bus, desc_num, chains, regs, engine>>
      BY <1>1, <1>3 DEF MapSg, Goto, TypeOK
    <2> QED
      BY <2>1, QuietStep DEF regs, Starting, Submitted, Holding
  <1>4. ASSUME NEW w \in Writers, EngineStop(w)
        PROVE  JInv'
    <2>1. /\ pc[w] = "stop" /\ pc'[w] = "unmap"
          /\ \A v \in Writers \ {w} : pc'[v] = pc[v]
          /\ UNCHANGED <<mapped, desc_bus, desc_num, chains, first_adj,
                         first_lo, first_hi, engine>>
      BY <1>1, <1>4 DEF EngineStop, Goto, TypeOK, local
    <2>2. w \in mapped
      BY <2>1 DEF JInv, HoldsMapping, Holding
    <2> QED
      BY <2>1, <2>2, QuietStep DEF Starting, Submitted, Holding
  <1>5. ASSUME NEW w \in Writers, UnmapSg(w) \/ PutPages(w)
        PROVE  JInv'
    <2>1. /\ pc[w] \in {"unmap", "put"} /\ pc'[w] \in {"put", "returned"}
          /\ \A v \in Writers \ {w} : /\ pc'[v] = pc[v]
                                      /\ v \in mapped => v \in mapped'
          /\ UNCHANGED <<desc_bus, desc_num, chains, regs, engine>>
      BY <1>1, <1>5 DEF UnmapSg, PutPages, Goto, TypeOK
    <2> QED
      BY <2>1, QuietStep DEF regs, Starting, Submitted, Holding
  <1>6. CASE Fault \/ UNCHANGED vars
    <2>1. /\ UNCHANGED <<pc, desc_bus, desc_num, chains, mapped, first_adj,
                         first_lo, done, stray, raced, late, FirstDesc>>
          /\ ~eng'.busy \/ eng' = eng
      BY <1>6 DEF Fault, Idle, vars, local, regs, engine, FirstDesc
    <2> QED
      BY <2>1 DEF JInv, OwnsChain, RegsSubmitted, EngineSubmitted,
         DoneSubmitted, UnmetOwnsRegs, HoldsMapping, NoCauseNoStray, HasDescs
  <1> QED
    BY <1>2, <1>3, <1>4, <1>5, <1>6, BuildStep, SetAdjacentStep, SetLoStep,
       SetHiStep, EngineStartStep, WaitStep, TransferStep DEF Next, Step
-----------------------------------------------------------------------------
(***************************************************************************)
(* For any number of threads in xpcie_h2c_write() at once, any lengths of  *)
(* chains, any engine speed and any failure: the engine starts only on     *)
(* complete chains, RUN is clear when no call is between start and stop,   *)
(* and pages are mapped only while pinned.                                 *)
(***************************************************************************)
THEOREM Safety ==
  Spec => [](TypeOK /\ StartsAtChain /\ StoppedWhenUnused /\ MappedArePinned)
  <1>1. IInv => TypeOK /\ StartsAtChain /\ StoppedWhenUnused /\ MappedArePinned
    BY DEF IInv, RegsAtChain, StartsAtChain, Holdings, MappedArePinned
  <1> QED
    BY <1>1, InitIInv, StepIInv, PTL DEF Spec

(* The variables of any number of calls and of the engine keep their types.*)
COROLLARY WriteTypes == Spec => []TypeOK
  BY Safety, PTL

(* When no call is between engine_start() and engine_stop(), RUN is clear. *)
COROLLARY EngineLeftStopped == Spec => []StoppedWhenUnused
  BY Safety, PTL

(* Pages are mapped for the device only while they are pinned.             *)
COROLLARY UnmapBeforeUnpin == Spec => []MappedArePinned
  BY Safety, PTL

(* Both invariants hold of overlapping calls.                              *)
LEMMA OverlappingCalls == Spec => [](IInv /\ JInv)
  <1>1. IInv /\ JInv /\ [Next]_vars => (IInv /\ JInv)'
    BY StepIInv, StepJInv
  <1> QED
    BY <1>1, InitIInv, InitJInv, PTL DEF Spec

(***************************************************************************)
(* For any number of overlapping calls: one whose register writes met      *)
(* those of no other sets RUN on its own chain with its own count of       *)
(* adjacent descriptors, so the lack of a lock in transfer_start() is the  *)
(* only way two transfers get mixed.                                       *)
(***************************************************************************)
THEOREM UnracedStartsItsOwn == Spec => []UnracedStartIsOwn
  <1>1. IInv /\ JInv => UnracedStartIsOwn
    BY OwnAddress DEF UnracedStartIsOwn
  <1> QED
    BY <1>1, OverlappingCalls, PTL

(***************************************************************************)
(* For any number of overlapping calls, engines and failures: the engine   *)
(* works only on chains handed to it, never on one under construction or   *)
(* of a call that died.                                                    *)
(***************************************************************************)
THEOREM WorksOnlyForSubmitted == Spec => []OnlySubmitted
  <1>1. IInv /\ JInv => OnlySubmitted
    BY DEF JInv, EngineSubmitted, DoneSubmitted, OnlySubmitted, WorksFor
  <1> QED
    BY <1>1, OverlappingCalls, PTL

(***************************************************************************)
(* For any number of overlapping calls, an engine of any speed and any     *)
(* errors: the engine reads a page that is not mapped for it only after    *)
(* two transfer_start()s met or the delay was too short for a transfer.    *)
(***************************************************************************)
THEOREM StrayDmaHasCause == Spec => []StrayHasCause
  <1>1. IInv /\ JInv => StrayHasCause
    BY DEF JInv, NoCauseNoStray, StrayHasCause
  <1> QED
    BY <1>1, OverlappingCalls, PTL
-----------------------------------------------------------------------------
(***************************************************************************)
(* One call at a time, and an engine that is done before mdelay(2000) is   *)
(* over: how h2c_write.sh uses the driver.                                 *)
(***************************************************************************)
OneAtATime == MaxConcurrent = 1 /\ ~SlowEngine

Alone == \A v, w \in InCall : v = w

(* Control points from which the chain is in use; a call that returns has  *)
(* one, a call that dies has none.                                         *)
HasChain == {"set_adj", "set_lo", "set_hi", "run", "wait"}
Leaving  == {"stop", "unmap", "put", "returned"}

(* What is true of a call alone at each point: the registers it has        *)
(* written are still its own when it sets RUN.                             *)
Progress(w) ==
  /\ desc_num[w] > 0 <=> pc[w] \in HasChain \cup Leaving
  /\ pc[w] \notin {"wait"} \cup Leaving => done[w] = {}
  /\ pc[w] \in {"alloc"} \cup HasChain => w \in mapped
  /\ pc[w] \in HasChain =>
       desc_bus[w] \in DOMAIN chains /\ chains[desc_bus[w]] = w
  /\ pc[w] \in {"set_hi", "run"} => first_lo = desc_bus[w].lo

(* A busy engine works for the call that waits, on descriptor eng.d, and   *)
(* has completed the ones before it.                                       *)
WorksForWaiter ==
  eng.busy =>
    /\ run
    /\ \E w \in Writers : /\ pc[w] = "wait" /\ eng.at = desc_bus[w]
                          /\ eng.d < desc_num[w] /\ done[w] = 0..eng.d - 1

SInv ==
  /\ Alone /\ WorksForWaiter /\ NoStrayDma
  /\ \A w \in Writers : Progress(w)

(* Without errors, an idle engine has completed what the waiting call and  *)
(* those that left gave it.                                                *)
Completed ==
  \A w \in Writers :
    pc[w] \in Leaving \/ (pc[w] = "wait" /\ ~eng.busy) =>
      done[w] = 0..desc_num[w] - 1

(* Before the first call nothing is mapped, running or stored.             *)
LEMMA InitSInv == Init => SInv /\ Completed
  BY DEF Init, SInv, Completed, Alone, WorksForWaiter, NoStrayDma, Progress, InCall, Finished, HasChain, Leaving, Idle

(* A call is entered only when none is open.                               *)
LEMMA EntersAlone ==
  ASSUME OneAtATime, Cardinality(InCall) < MaxConcurrent
  PROVE  InCall = {}
  <1>1. IsFiniteSet(InCall)
    BY WriteAssumption, FS_Subset DEF InCall
  <1>2. Cardinality(InCall) \in Nat
    BY <1>1, FS_CardinalityType
  <1>3. Cardinality(InCall) = 0
    BY <1>2 DEF OneAtATime
  <1> QED
    BY <1>1, <1>3, FS_EmptySet

(* While one call is open the other threads are outside, and unless it is  *)
(* in mdelay(2000) the engine is idle.                                     *)
LEMMA OthersOutside ==
  ASSUME TypeOK, SInv, NEW w \in Writers,
         pc[w] \notin Finished \cup {"idle"}
  PROVE  /\ InCall \subseteq {w}
         /\ pc[w] # "wait" => ~eng.busy
  BY DEF SInv, Alone, InCall, WorksForWaiter, Finished

(* A step of a thread that leaves the engine idle keeps the invariant of   *)
(* serial calls when it keeps what is known of that thread.                *)
LEMMA IdleEngineKeeps ==
  ASSUME TypeOK, SInv, NEW w \in Writers, InCall \subseteq {w}, ~eng.busy,
         \A v \in Writers \ {w} : /\ pc'[v] = pc[v]
                                  /\ desc_num'[v] = desc_num[v],
         UNCHANGED <<eng, done, stray>>, Progress(w)',
         pc'[w] \in Leaving \cup {"wait"} =>
           pc[w] \in Leaving \cup {"wait"} /\ desc_num'[w] = desc_num[w]
  PROVE  SInv' /\ (Completed => Completed')
  <1>1. \A v \in Writers \ {w} : pc[v] \in Finished \cup {"idle"}
    BY DEF InCall
  <1>2. Alone'
    BY <1>1 DEF Alone, InCall
  <1>3. \A v \in Writers : Progress(v)'
    <2>1. SUFFICES ASSUME NEW v \in Writers \ {w}
                   PROVE  Progress(v)'
      OBVIOUS
    <2>2. Progress(v) /\ pc[v] \in {"idle", "returned", "dead"}
      BY <1>1 DEF SInv, Finished
    <2>3. pc'[v] = pc[v] /\ desc_num'[v] = desc_num[v] /\ done'[v] = done[v]
      OBVIOUS
    <2> QED
      BY <2>2, <2>3 DEF Progress, HasChain, Leaving
  <1>4. WorksForWaiter' /\ NoStrayDma'
    BY DEF SInv, WorksForWaiter, NoStrayDma
  <1>5. ASSUME Completed
        PROVE  Completed'
    BY <1>5 DEF Completed
  <1> QED
    BY <1>2, <1>3, <1>4, <1>5 DEF SInv

(* Steps of a call before it sets RUN and after it has waited.             *)
LEMMA CallSteps ==
  ASSUME IInv, SInv, OneAtATime, NEW w \in Writers,
         Enter(w) \/ Pin(w) \/ MapSg(w) \/ Build(w) \/ SetAdjacent(w) \/ SetLo(w)
           \/ SetHi(w) \/ Wait(w) \/ EngineStop(w) \/ UnmapSg(w) \/ PutPages(w)
  PROVE  SInv' /\ (Completed => Completed')
  <1>1. TypeOK /\ Progress(w)
    BY DEF IInv, SInv
  <1>2. UNCHANGED <<eng, done, stray>>
    BY DEF Enter, Pin, MapSg, Build, SetAdjacent, SetLo, SetHi, Wait,
       EngineStop, UnmapSg, PutPages, engine
  <1>3. PICK to \in Points : pc' = [pc EXCEPT ![w] = to]
    BY DEF Enter, Pin, MapSg, Build, SetAdjacent, SetLo, SetHi, Wait,
       EngineStop, UnmapSg, PutPages, Goto, Points
  <1>4. /\ pc'[w] = to
        /\ \A v \in Writers \ {w} : pc'[v] = pc[v]
    BY <1>1, <1>3 DEF TypeOK
  <1>5. InCall \subseteq {w} /\ ~eng.busy
    <2>1. CASE Enter(w)
      BY <2>1, EntersAlone DEF Enter, SInv, WorksForWaiter, InCall, Finished
    <2>2. CASE Wait(w)
      BY <2>2, <1>1, OthersOutside DEF Wait, Goto, Finished, OneAtATime
    <2>3. CASE ~Enter(w) /\ ~Wait(w)
      <3>1. pc[w] \notin Finished \cup {"idle", "wait"}
        BY <2>3 DEF Pin, MapSg, Build, SetAdjacent, SetLo, SetHi, EngineStop,
           UnmapSg, PutPages, Goto, Finished
      <3> QED
        BY <3>1, <1>1, OthersOutside
    <2> QED
      BY <2>1, <2>2, <2>3
  <1> DEFINE Kept ==
        /\ Progress(w)'
        /\ \A v \in Writers \ {w} : desc_num'[v] = desc_num[v]
        /\ pc'[w] \in Leaving \cup {"wait"} =>
             pc[w] \in Leaving \cup {"wait"} /\ desc_num'[w] = desc_num[w]
  <1>6. SUFFICES Kept
    BY <1>1, <1>2, <1>4, <1>5, IdleEngineKeeps
  <1>7. CASE Enter(w)
    <2>1. /\ pc[w] = "idle" /\ pc'[w] = "pin"
          /\ UNCHANGED <<mapped, desc_bus, desc_num, chains>>
      BY <1>7, <1>1 DEF Enter, Goto, TypeOK, local, regs
    <2> QED
      BY <1>1, <1>2, <2>1 DEF Progress, HasChain, Leaving, engine
  <1>8. CASE Pin(w)
    <2>1. /\ pc[w] = "pin" /\ pc'[w] \in {"map", "dead"}
          /\ UNCHANGED <<mapped, desc_bus, desc_num, chains>>
      BY <1>8, <1>1 DEF Pin, Goto, TypeOK
    <2> QED
      BY <1>1, <1>2, <2>1 DEF Progress, HasChain, Leaving, engine
  <1>9. CASE MapSg(w)
    <2>1. /\ pc[w] = "map"
          /\ pc'[w] = "dead" \/ (pc'[w] = "alloc" /\ w \in mapped')
          /\ UNCHANGED <<desc_bus, desc_num, chains>>
      BY <1>9, <1>1 DEF MapSg, Goto, TypeOK
    <2> QED
      BY <1>1, <1>2, <2>1 DEF Progress, HasChain, Leaving, engine
  <1>10. CASE Build(w)
    <2>1. CASE Goto(w, "alloc", "dead") /\ UNCHANGED local
      <3>1. /\ pc[w] = "alloc" /\ pc'[w] = "dead"
            /\ UNCHANGED <<mapped, desc_bus, desc_num, chains>>
        BY <2>1, <1>1 DEF Goto, TypeOK, local
      <3> QED
        BY <1>1, <1>2, <3>1 DEF Progress, HasChain, Leaving, engine
    <2>2. CASE ~(Goto(w, "alloc", "dead") /\ UNCHANGED local)
      <3>1. pc[w] = "alloc" /\ pc'[w] = "set_adj" /\ UNCHANGED mapped
        BY <1>10, <2>2, <1>1 DEF Build, Goto, TypeOK
      <3>2. PICK a \in [lo : Buffers, hi : ConsistentHi] \ DOMAIN chains,
                 n \in 1..MaxDescs :
              /\ desc_bus' = [desc_bus EXCEPT ![w] = a]
              /\ desc_num' = [desc_num EXCEPT ![w] = n]
              /\ chains' = [b \in DOMAIN chains \cup {a} |->
                              IF b = a THEN w ELSE chains[b]]
        BY <1>10, <2>2 DEF Build
      <3>3. desc_bus'[w] = a /\ desc_num'[w] = n /\ n > 0
        BY <3>2, <1>1 DEF TypeOK
      <3>4. a \in DOMAIN chains' /\ chains'[a] = w
        BY <3>2
      <3>5. \A v \in Writers \ {w} : desc_num'[v] = desc_num[v]
        BY <3>2, <1>1 DEF TypeOK
      <3> QED
        BY <1>1, <1>2, <3>1, <3>3, <3>4, <3>5
           DEF Progress, HasChain, Leaving, engine
    <2> QED
      BY <2>1, <2>2
  <1>11. CASE SetAdjacent(w)
    <2>1. /\ pc[w] = "set_adj" /\ pc'[w] = "set_lo"
          /\ UNCHANGED <<mapped, desc_bus, desc_num, chains>>
      BY <1>11, <1>1 DEF SetAdjacent, Goto, TypeOK, local
    <2> QED
      BY <1>1, <1>2, <2>1 DEF Progress, HasChain, Leaving
  <1>12. CASE SetLo(w)
    <2>1. /\ pc[w] = "set_lo" /\ pc'[w] = "set_hi"
          /\ UNCHANGED <<mapped, desc_bus, desc_num, chains, first_adj>>
          /\ first_lo' = desc_bus[w].lo
      BY <1>12, <1>1 DEF SetLo, Goto, TypeOK, local, regs
    <2> QED
      BY <1>1, <1>2, <2>1 DEF Progress, HasChain, Leaving, engine
  <1>13. CASE SetHi(w)
    <2>1. /\ pc[w] = "set_hi" /\ pc'[w] = "run"
          /\ UNCHANGED <<mapped, desc_bus, desc_num, chains, first_adj, first_lo>>
      BY <1>13, <1>1 DEF SetHi, Goto, TypeOK, local, regs
    <2> QED
      BY <1>1, <1>2, <2>1 DEF Progress, HasChain, Leaving, engine
  <1>14. CASE Wait(w)
    <2>1. /\ pc[w] = "wait" /\ pc'[w] = "stop"
          /\ UNCHANGED <<mapped, desc_bus, desc_num, chains>>
      BY <1>14, <1>1 DEF Wait, Goto, TypeOK, local, regs
    <2> QED
      BY <1>1, <1>2, <2>1 DEF Progress, HasChain, Leaving, engine
  <1>15. CASE EngineStop(w)
    <2>1. /\ pc[w] = "stop" /\ pc'[w] = "unmap"
          /\ UNCHANGED <<mapped, desc_bus, desc_num, chains>>
      BY <1>15, <1>1 DEF EngineStop, Goto, TypeOK, local, regs
    <2> QED
      BY <1>1, <1>2, <2>1 DEF Progress, HasChain, Leaving, engine
  <1>16. CASE UnmapSg(w)
    <2>1. /\ pc[w] = "unmap" /\ pc'[w] = "put"
          /\ UNCHANGED <<desc_bus, desc_num, chains>>
      BY <1>16, <1>1 DEF UnmapSg, Goto, TypeOK, local, regs
    <2> QED
      BY <1>1, <1>2, <2>1 DEF Progress, HasChain, Leaving, engine
  <1>17. CASE PutPages(w)
    <2>1. /\ pc[w] = "put" /\ pc'[w] = "returned"
          /\ UNCHANGED <<mapped, desc_bus, desc_num, chains>>
      BY <1>17, <1>1 DEF PutPages, Goto, TypeOK, local, regs
    <2> QED
      BY <1>1, <1>2, <2>1 DEF Progress, HasChain, Leaving, engine
  <1> QED
    BY <1>7, <1>8, <1>9, <1>10, <1>11, <1>12, <1>13, <1>14, <1>15, <1>16,
       <1>17

(* engine_start() finds the engine idle and RUN clear, and the registers   *)
(* as the same call left them: the engine starts on that call's chain.     *)
LEMMA StartSteps ==
  ASSUME IInv, SInv, NEW w \in Writers, EngineStart(w)
  PROVE  SInv' /\ (Completed => Completed')
  <1>1. TypeOK /\ Progress(w) /\ HighWords /\ StoppedWhenUnused
    BY DEF IInv, SInv
  <1>2. /\ pc[w] = "run" /\ pc'[w] = "wait" /\ run'
        /\ \A v \in Writers \ {w} : pc'[v] = pc[v]
        /\ UNCHANGED <<mapped, desc_bus, desc_num, chains, done, stray>>
    BY <1>1 DEF EngineStart, Goto, TypeOK, local
  <1>3. InCall \subseteq {w} /\ ~eng.busy
    BY <1>1, <1>2, OthersOutside DEF Finished
  <1>4. ~run
    BY <1>1, <1>2, <1>3 DEF StoppedWhenUnused, InCall, Finished
  <1>5. FirstDesc = desc_bus[w]
    <2>1. desc_bus[w] \in Buses
      BY <1>1 DEF TypeOK
    <2>2. desc_bus[w].lo = first_lo /\ desc_bus[w].hi = first_hi
      BY <1>1, <1>2 DEF Progress, HighWords
    <2>3. desc_bus[w] = [lo |-> desc_bus[w].lo, hi |-> desc_bus[w].hi]
      BY <2>1 DEF Buses
    <2> QED
      BY <2>2, <2>3 DEF FirstDesc
  <1>6. FirstDesc \in DOMAIN chains /\ chains[FirstDesc] = w
    BY <1>1, <1>2, <1>5 DEF Progress, HasChain
  <1>8. eng' = [busy |-> TRUE, at |-> desc_bus[w], d |-> 0]
    BY <1>3, <1>4, <1>5, <1>6 DEF EngineStart, Launch
  <1>9. Alone'
    BY <1>2, <1>3 DEF Alone, InCall
  <1>10. NoStrayDma'
    BY <1>2 DEF SInv, NoStrayDma
  <1>11. done[w] = {} /\ desc_num[w] > 0
    BY <1>1, <1>2 DEF Progress, HasChain, Leaving
  <1>12. WorksForWaiter'
    BY <1>2, <1>8, <1>11 DEF WorksForWaiter
  <1>13. Progress(w)'
    BY <1>1, <1>2 DEF Progress, HasChain, Leaving
  <1>14. ASSUME NEW v \in Writers \ {w}
         PROVE  Progress(v)'
    <2>1. Progress(v) /\ pc[v] \in {"idle", "returned", "dead"}
      BY <1>3 DEF SInv, Finished, InCall
    <2> QED
      BY <1>2, <2>1 DEF Progress, HasChain, Leaving
  <1>15. ASSUME Completed
         PROVE  Completed'
    BY <1>2, <1>3, <1>8, <1>15 DEF Completed, InCall, Finished, Leaving
  <1> QED
    BY <1>9, <1>10, <1>12, <1>13, <1>14, <1>15 DEF SInv

(* A completed descriptor is one of the waiting call's, whose pages are    *)
(* mapped; after the last one, its whole chain is completed.               *)
LEMMA TransferSteps ==
  ASSUME IInv, SInv, Transfer
  PROVE  SInv' /\ (Completed => Completed')
  <1>1. PICK w \in Writers : /\ pc[w] = "wait" /\ eng.at = desc_bus[w]
                             /\ eng.d < desc_num[w] /\ done[w] = 0..eng.d - 1
    BY DEF Transfer, SInv, WorksForWaiter
  <1>2. TypeOK /\ Progress(w) /\ run /\ eng.busy
    BY DEF IInv, SInv, Transfer, WorksForWaiter
  <1>3. InCall \subseteq {w}
    BY <1>1, <1>2, OthersOutside DEF Finished
  <1>4. chains[eng.at] = w /\ w \in mapped
    BY <1>1, <1>2 DEF Progress, HasChain
  <1>5. /\ done' = [done EXCEPT ![w] = @ \cup {eng.d}]
        /\ stray' = (stray \/ w \notin mapped)
        /\ eng' = IF eng.d < desc_num[w] - 1 THEN [eng EXCEPT !.d = @ + 1]
                                             ELSE Idle
        /\ UNCHANGED <<pc, local, regs>>
    BY <1>2, <1>4 DEF Transfer
  <1>6. eng.d \in Nat /\ desc_num[w] \in Nat
    <2>1. eng.d \in 0..MaxDescs /\ desc_num[w] \in 0..MaxDescs
      BY <1>2 DEF TypeOK
    <2> QED
      BY <2>1, WriteAssumption
  <1>7. done'[w] = 0..eng.d
    <2>1. done'[w] = (0..eng.d - 1) \cup {eng.d}
      BY <1>1, <1>2, <1>5 DEF TypeOK
    <2> QED
      BY <2>1, <1>6
  <1>8. \A v \in Writers \ {w} : done'[v] = done[v]
    BY <1>2, <1>5 DEF TypeOK
  <1>9. Alone' /\ NoStrayDma'
    BY <1>4, <1>5 DEF SInv, Alone, InCall, NoStrayDma
  <1>10. \A v \in Writers : Progress(v)'
    <2>1. SUFFICES ASSUME NEW v \in Writers
                   PROVE  Progress(v)'
      OBVIOUS
    <2>2. Progress(v)
      BY DEF SInv
    <2>3. pc[v] # "wait" => done'[v] = done[v]
      BY <1>1, <1>8
    <2> QED
      BY <2>2, <2>3, <1>5 DEF Progress, local, regs
  <1>11. CASE eng.d < desc_num[w] - 1
    <2>1. eng'.busy /\ eng'.at = eng.at /\ eng'.d = eng.d + 1
      BY <1>2, <1>5, <1>11 DEF TypeOK
    <2>2. WorksForWaiter'
      BY <1>1, <1>2, <1>5, <1>6, <1>7, <1>11, <2>1
         DEF WorksForWaiter, local, regs
    <2>3. ASSUME Completed
          PROVE  Completed'
      BY <1>1, <1>3, <1>5, <1>8, <2>1, <2>3
         DEF Completed, local, InCall, Finished, Leaving
    <2> QED
      BY <1>9, <1>10, <2>2, <2>3 DEF SInv
  <1>12. CASE ~(eng.d < desc_num[w] - 1)
    <2>1. ~eng'.busy
      BY <1>5, <1>12 DEF Idle
    <2>2. WorksForWaiter'
      BY <2>1 DEF WorksForWaiter
    <2>3. eng.d = desc_num[w] - 1
      BY <1>1, <1>6, <1>12
    <2>4. done'[w] = 0..desc_num'[w] - 1
      BY <1>5, <1>7, <2>3 DEF local
    <2>5. ASSUME Completed
          PROVE  Completed'
      BY <1>1, <1>3, <1>5, <1>8, <2>1, <2>4, <2>5
         DEF Completed, local, InCall, Finished, Leaving
    <2> QED
      BY <1>9, <1>10, <2>2, <2>5 DEF SInv
  <1> QED
    BY <1>11, <1>12

(* Serial calls keep the invariant, whether the engine meets errors or     *)
(* not; without errors they also complete their chains.                    *)
LEMMA StepSInv ==
  ASSUME OneAtATime, IInv, SInv, [Next]_vars
  PROVE  SInv' /\ (~Faults /\ Completed => Completed')
  <1>1. ASSUME NEW w \in Writers, Enter(w) \/ Step(w)
        PROVE  SInv' /\ (Completed => Completed')
    BY <1>1, CallSteps, StartSteps DEF Step
  <1>2. CASE Fault
    <2>1. /\ ~eng'.busy /\ Faults
          /\ UNCHANGED <<pc, local, regs, done, stray>>
      BY <1>2 DEF Fault, Idle
    <2> QED
      BY <2>1 DEF SInv, Alone, InCall, WorksForWaiter, NoStrayDma,
         Progress, local, regs
  <1>3. CASE UNCHANGED vars
    BY <1>3 DEF vars, local, regs, engine, SInv, Alone, InCall, WorksForWaiter,
       NoStrayDma, Progress, Completed
  <1> QED
    BY <1>1, <1>2, <1>3, TransferSteps DEF Next

(***************************************************************************)
(* When calls do not overlap and the engine is done within 2 s, errors of  *)
(* the engine included: the registers and the chain the engine finds are   *)
(* those of the call in progress, and it works only while that call waits. *)
(***************************************************************************)
THEOREM SerialCalls == OneAtATime => (Spec => [](IInv /\ SInv))
  <1> SUFFICES ASSUME OneAtATime
               PROVE  Spec => [](IInv /\ SInv)
    OBVIOUS
  <1>1. IInv /\ SInv /\ [Next]_vars => (IInv /\ SInv)'
    BY StepIInv, StepSInv
  <1> QED
    BY <1>1, InitIInv, InitSInv, PTL DEF Spec

(* With serial calls the engine reads only pages mapped for its chain,     *)
(* whatever errors it meets.                                               *)
THEOREM SerialDmaIsMapped == OneAtATime => (Spec => []NoStrayDma)
  <1> SUFFICES ASSUME OneAtATime
               PROVE  Spec => []NoStrayDma
    OBVIOUS
  <1> QED
    BY SerialCalls, PTL DEF SInv

(* With serial calls and no errors, the descriptors of a call are complete *)
(* when it has waited.                                                     *)
THEOREM SerialCompletes ==
  OneAtATime /\ ~Faults => (Spec => [](IInv /\ SInv /\ Completed))
  <1> SUFFICES ASSUME OneAtATime, ~Faults
               PROVE  Spec => [](IInv /\ SInv /\ Completed)
    OBVIOUS
  <1>1. IInv /\ SInv /\ Completed /\ [Next]_vars
          => (IInv /\ SInv /\ Completed)'
    BY StepIInv, StepSInv
  <1> QED
    BY <1>1, InitIInv, InitSInv, PTL DEF Spec

(* "wait for the transfer to finish": what mdelay(2000) is there for holds *)
(* when calls are serial and the engine is quick and free of errors.       *)
THEOREM SerialWaitIsEnough ==
  OneAtATime /\ ~Faults => (Spec => []WaitCompletes)
  <1> SUFFICES ASSUME OneAtATime, ~Faults
               PROVE  Spec => []WaitCompletes
    OBVIOUS
  <1>1. Completed => WaitCompletes
    BY DEF Completed, WaitCompletes, Leaving
  <1> QED
    BY <1>1, SerialCompletes, PTL
-----------------------------------------------------------------------------
stored == {w \in Writers : desc_num[w] > 0 /\ done[w] = 0..desc_num[w] - 1}
result == [w \in Writers |-> IF pc[w] = "returned" THEN "count"
                             ELSE IF pc[w] = "dead" THEN "dead" ELSE "none"]

(* A step that leaves every chain's progress alone stores nothing.         *)
LEMMA SameStored ==
  ASSUME UNCHANGED <<desc_num, done>>
  PROVE  stored' = stored
  BY DEF stored

(* A step that takes no call to its end returns nothing.                   *)
LEMMA SameResult ==
  ASSUME NEW w \in Writers, pc[w] \notin Finished, pc'[w] \notin Finished,
         \A v \in Writers \ {w} : pc'[v] = pc[v]
  PROVE  result' = result
  BY DEF result, Finished

(***************************************************************************)
(* A step of a serial call is one of the promise or leaves it alone: the   *)
(* last descriptor stores the buffer, the return comes after it, and a     *)
(* call that dies has stored nothing.                                      *)
(***************************************************************************)
LEMMA StepPromise ==
  ASSUME OneAtATime, ~Faults, IInv, SInv, Completed, [Next]_vars
  PROVE  Promise!Next \/ UNCHANGED <<stored, result>>
  <1>1. TypeOK /\ \A w \in Writers : Progress(w)
    BY DEF IInv, SInv
  <1>2. ASSUME NEW w \in Writers, Goto(w, pc[w], "dead"),
               pc[w] \in {"pin", "map", "alloc"}, UNCHANGED <<desc_num, done>>
        PROVE  Promise!Next
    <2>1. w \notin stored
      BY <1>1, <1>2 DEF stored, Progress, HasChain, Leaving
    <2>2. result[w] = "none" /\ result' = [result EXCEPT ![w] = "dead"]
      BY <1>1, <1>2 DEF result, Goto, TypeOK
    <2>3. Promise!Die(w)
      BY <1>2, <2>1, <2>2, SameStored DEF Promise!Die, stored, result
    <2> QED
      BY <2>3 DEF Promise!Next
  <1>3. ASSUME NEW w \in Writers, PutPages(w)
        PROVE  Promise!Next
    <2>1. /\ pc[w] = "put" /\ pc' = [pc EXCEPT ![w] = "returned"]
          /\ UNCHANGED <<desc_num, done>>
      BY <1>3 DEF PutPages, Goto, engine
    <2>2. w \in stored
      BY <1>1, <2>1 DEF stored, Progress, HasChain, Leaving, Completed
    <2>3. result[w] = "none" /\ result' = [result EXCEPT ![w] = "count"]
      BY <1>1, <2>1 DEF result, TypeOK
    <2>4. Promise!Return(w)
      BY <2>1, <2>2, <2>3, SameStored DEF Promise!Return, stored, result
    <2> QED
      BY <2>4 DEF Promise!Next
  <1>4. ASSUME NEW w \in Writers, Enter(w) \/ Step(w), ~PutPages(w),
               pc'[w] # "dead"
        PROVE  UNCHANGED <<stored, result>>
    <2>1. /\ pc[w] \notin Finished /\ pc'[w] \notin Finished
          /\ \A v \in Writers \ {w} : pc'[v] = pc[v]
          /\ UNCHANGED done
      BY <1>1, <1>4 DEF Enter, Step, Pin, MapSg, Build, SetAdjacent, SetLo,
         SetHi, EngineStart, Wait, EngineStop, UnmapSg, Goto, TypeOK, engine,
         Finished
    <2>2. result' = result
      BY <2>1, SameResult
    <2>3. CASE ~Build(w)
      <3>1. UNCHANGED desc_num
        BY <1>4, <2>3 DEF Enter, Step, Pin, MapSg, SetAdjacent, SetLo,
           SetHi, EngineStart, Wait, EngineStop, UnmapSg, local
      <3> QED
        BY <2>1, <2>2, <3>1, SameStored
    <2>4. CASE Build(w)
      <3>1. pc[w] = "alloc"
        BY <2>4 DEF Build, Goto
      <3>2. desc_num[w] = 0 /\ done[w] = {}
        <4>1. ~(desc_num[w] > 0) /\ done[w] = {}
          BY <1>1, <3>1 DEF Progress, HasChain, Leaving
        <4>2. desc_num[w] \in 0..MaxDescs
          BY <1>1 DEF TypeOK
        <4> QED
          BY <4>1, <4>2, WriteAssumption
      <3>3. PICK n \in 1..MaxDescs : desc_num' = [desc_num EXCEPT ![w] = n]
        BY <1>1, <1>4, <2>4 DEF Build, Goto, TypeOK
      <3>4. desc_num'[w] = n /\ 0 \in 0..n - 1
        BY <1>1, <3>3, WriteAssumption DEF TypeOK
      <3>5. w \notin stored
        BY <3>2 DEF stored
      <3>6. w \notin stored'
        <4>1. done'[w] = {} /\ done'[w] # 0..desc_num'[w] - 1
          BY <2>1, <3>2, <3>4
        <4> QED
          BY <4>1 DEF stored
      <3>7. \A v \in Writers \ {w} : v \in stored' <=> v \in stored
        BY <1>1, <2>1, <3>3 DEF stored, TypeOK
      <3>8. stored' = stored
        BY <3>5, <3>6, <3>7 DEF stored
      <3> QED
        BY <2>2, <3>8
    <2> QED
      BY <2>3, <2>4
  <1>5. ASSUME NEW w \in Writers, Enter(w) \/ Step(w), pc'[w] = "dead"
        PROVE  Promise!Next
    <2>1. /\ Goto(w, pc[w], "dead") /\ pc[w] \in {"pin", "map", "alloc"}
          /\ UNCHANGED <<desc_num, done>>
      BY <1>1, <1>5 DEF Enter, Step, Pin, MapSg, Build, SetAdjacent, SetLo,
         SetHi, EngineStart, Wait, EngineStop, UnmapSg, PutPages, Goto, TypeOK,
         engine, local
    <2> QED
      BY <2>1, <1>2
  <1>6. CASE Transfer
    <2>1. PICK w \in Writers :
            /\ pc[w] = "wait" /\ eng.at = desc_bus[w] /\ eng.d < desc_num[w]
            /\ done[w] = 0..eng.d - 1
      BY <1>6 DEF Transfer, SInv, WorksForWaiter
    <2>2. chains[eng.at] = w
      BY <1>1, <2>1 DEF Progress, HasChain
    <2>3. /\ done' = [done EXCEPT ![w] = @ \cup {eng.d}]
          /\ UNCHANGED <<pc, desc_num>>
      BY <1>6, <2>2 DEF Transfer, local
    <2>4. eng.d \in Nat /\ desc_num[w] \in Nat
      <3>1. eng.d \in 0..MaxDescs /\ desc_num[w] \in 0..MaxDescs
        BY <1>1 DEF TypeOK
      <3> QED
        BY <3>1, WriteAssumption
    <2>5. result' = result /\ result[w] = "none"
      BY <2>1, <2>3 DEF result
    <2>6. w \notin stored
      <3>1. eng.d \in 0..desc_num[w] - 1 /\ eng.d \notin done[w]
        BY <2>1, <2>4
      <3> QED
        BY <3>1 DEF stored
    <2>7. \A v \in Writers \ {w} : v \in stored' <=> v \in stored
      BY <1>1, <2>3 DEF stored, TypeOK
    <2>8. CASE w \in stored'
      <3>1. stored' = stored \cup {w}
        BY <2>7, <2>8 DEF stored
      <3>2. Promise!Store(w)
        BY <2>5, <2>6, <3>1 DEF Promise!Store, stored, result
      <3> QED
        BY <3>2 DEF Promise!Next
    <2>9. CASE w \notin stored'
      <3>1. stored' = stored
        BY <2>6, <2>7, <2>9 DEF stored
      <3> QED
        BY <2>5, <3>1
    <2> QED
      BY <2>8, <2>9
  <1>7. CASE UNCHANGED vars
    BY <1>7 DEF vars, local, engine, stored, result
  <1>8. ~Fault
    BY DEF Fault
  <1> QED
    BY <1>3, <1>4, <1>5, <1>6, <1>7, <1>8 DEF Next

(***************************************************************************)
(* With serial calls, an engine that is done in 2 s and no errors, write() *)
(* keeps its promise for any number of calls and chains of any length: it  *)
(* returns the count only when the whole buffer is in the card.            *)
(***************************************************************************)
THEOREM SerialWriteKeepsPromise ==
  OneAtATime /\ ~Faults => (Spec => KeepsPromise)
  <1> SUFFICES ASSUME OneAtATime, ~Faults
               PROVE  Spec => KeepsPromise
    OBVIOUS
  <1>1. Init => Promise!Init
    BY DEF Init, Promise!Init
  <1>2. IInv /\ SInv /\ Completed /\ [Next]_vars
          => Promise!Next \/ UNCHANGED <<stored, result>>
    BY StepPromise
  <1> QED
    BY <1>1, <1>2, SerialCompletes, PTL DEF Spec, KeepsPromise, Promise!Spec,
       Promise!vars, stored, result
=============================================================================
