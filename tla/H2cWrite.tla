------------------------------ MODULE H2cWrite ------------------------------
(***************************************************************************)
(* Calls of xpcie_h2c_write() of driver/xpcie.c that share one H2C engine. *)
(* The device may be opened any number of times and the driver takes no    *)
(* lock, so the register writes of transfer_start() by several threads     *)
(* interleave.                                                             *)
(*                                                                         *)
(* A call keeps its transfer on its stack; what it shares is the engine.   *)
(* SgMapper models how a call pins its buffer, XdmaTransfer how it builds  *)
(* its chain; here pinning, mapping and building are one step each, with   *)
(* their failures.                                                         *)
(*                                                                         *)
(* The engine is external.  From how the driver uses it: setting RUN when  *)
(* it was clear makes the engine read the first_desc registers and work    *)
(* through the chain found there; it stops at the descriptor with the      *)
(* STOPPED flag, or after the current descriptor once RUN is clear.        *)
(* Setting RUN when it is set does nothing to a busy engine, and may or    *)
(* may not restart an idle one; setting it again while the engine finishes *)
(* its current descriptor makes it go on or start anew.                    *)
(***************************************************************************)
EXTENDS Integers, FiniteSets

CONSTANTS
  Writers,        \* threads, each in one write() call
  MaxDescs,       \* descriptors of the longest chain
  MAX_EXTRA_ADJ,
  Buffers,        \* low words of the addresses of consistent memory
  MaxConcurrent,  \* calls the applications have open at a time
  SlowEngine,     \* TRUE: a transfer may take longer than mdelay(2000)
  Faults          \* TRUE: the engine may stop on an error

ASSUME WriteAssumption ==
  /\ IsFiniteSet(Writers)
  /\ MaxDescs \in Nat \ {0} /\ MAX_EXTRA_ADJ \in Nat /\ MaxConcurrent \in Nat
  /\ Buffers \subseteq Nat
  /\ SlowEngine \in BOOLEAN /\ Faults \in BOOLEAN

VARIABLES
  pc,                   \* control point of each thread
  pinned, mapped,       \* threads whose pages are pinned, DMA-mapped
  desc_bus, desc_num,   \* transfer.desc_bus and .desc_num of each thread
  chains,               \* allocated descriptors: bus address -> thread
  first_adj, first_lo, first_hi, run,  \* registers first_desc_*, RUN bit
  eng,                  \* [busy, at, d]: the chain and descriptor at work
  done,                 \* descriptors completed for each thread
  stray,                \* the engine read a page no longer mapped for it
  raced, late           \* history: the threads whose transfer_start() ran
                        \* while that of another did; a call has stopped
                        \* waiting while the engine worked for it

regs   == <<first_adj, first_lo, first_hi, run>>
engine == <<eng, done, stray, raced, late>>
local  == <<pinned, mapped, desc_bus, desc_num, chains>>
vars   == <<pc, local, regs, engine>>

NoBus == [lo |-> 0, hi |-> 0]
Idle  == [busy |-> FALSE, at |-> NoBus, d |-> 0]

Init ==
  /\ pc = [w \in Writers |-> "idle"]
  /\ pinned = {} /\ mapped = {}
  /\ desc_bus = [w \in Writers |-> NoBus]
  /\ desc_num = [w \in Writers |-> 0]
  /\ chains = [a \in {} |-> a]
  /\ first_adj = 0 /\ first_lo = 0 /\ first_hi = 0 /\ run = FALSE
  /\ eng = Idle
  /\ done = [w \in Writers |-> {}]
  /\ stray = FALSE /\ raced = {} /\ late = FALSE

Goto(w, from, to) ==
  /\ pc[w] = from
  /\ pc' = [pc EXCEPT ![w] = to]

Finished == {"returned", "dead"}
InCall == {w \in Writers : pc[w] \notin Finished \cup {"idle"}}
----------------------------------------------------------------------------
(* The kernel calls xpcie_h2c_write() for a thread.                        *)
Enter(w) ==
  /\ Cardinality(InCall) < MaxConcurrent
  /\ Goto(w, "idle", "pin")
  /\ UNCHANGED <<local, regs, engine>>

(* sg_create_mapper() and sgm_get_user_pages().  If either fails the call  *)
(* dies on NULL or on BUG_ON(!mapped_pages), with no page pinned.          *)
Pin(w) ==
  /\ \/ Goto(w, "pin", "map") /\ pinned' = pinned \cup {w}
     \/ Goto(w, "pin", "dead") /\ UNCHANGED pinned
  /\ UNCHANGED <<mapped, desc_bus, desc_num, chains, regs, engine>>

(* pci_map_sg().  If nothing is mapped the call dies on BUG_ON(number < 1) *)
(* of xdma_desc_alloc(), its pages still pinned.                           *)
MapSg(w) ==
  /\ \/ Goto(w, "map", "alloc") /\ mapped' = mapped \cup {w}
     \/ Goto(w, "map", "dead") /\ UNCHANGED mapped
  /\ UNCHANGED <<pinned, desc_bus, desc_num, chains, regs, engine>>

(* Mutant of ConsistentHi: consistent memory anywhere in 64 bits.          *)
ConsistentHiAny == {0, 1}

(* High words of the addresses of consistent memory: set_dma_mask() asks   *)
(* for 32-bit addresses for the descriptors.                               *)
ConsistentHi == {0}

(* Mutant of Build: the pages are unmapped as soon as the chain is built.  *)
BuildUnmaps(w) ==
  /\ Goto(w, "alloc", "set_adj")
  /\ \E a \in [lo : Buffers, hi : ConsistentHi] \ DOMAIN chains,
        n \in 1..MaxDescs :
       /\ desc_bus' = [desc_bus EXCEPT ![w] = a]
       /\ desc_num' = [desc_num EXCEPT ![w] = n]
       /\ chains' = [b \in DOMAIN chains \cup {a} |->
                       IF b = a THEN w ELSE chains[b]]
  /\ mapped' = mapped \ {w}
  /\ UNCHANGED <<pinned, regs, engine>>

(* Mutant of Build: the address of the chain is given to the engine when   *)
(* the memory is allocated, before the chain is complete.                  *)
BuildAnnounces(w) ==
  /\ Goto(w, "alloc", "set_adj")
  /\ \E a \in [lo : Buffers, hi : ConsistentHi] \ DOMAIN chains,
        n \in 1..MaxDescs :
       /\ desc_bus' = [desc_bus EXCEPT ![w] = a]
       /\ desc_num' = [desc_num EXCEPT ![w] = n]
       /\ chains' = [b \in DOMAIN chains \cup {a} |->
                       IF b = a THEN w ELSE chains[b]]
       /\ first_lo' = a.lo
  /\ UNCHANGED <<pinned, mapped, first_adj, first_hi, run, engine>>

(* xdma_desc_alloc(), transfer_build(), transfer_terminate() and           *)
(* xdma_desc_adjacent(); when the memory is exhausted, the call dies in    *)
(* transfer_build() with pages pinned and mapped.  Nothing ever frees the  *)
(* descriptors: xdma_desc_free() has no caller.                            *)
Build(w) ==
  \/ /\ Goto(w, "alloc", "set_adj")
     /\ \E a \in [lo : Buffers, hi : ConsistentHi] \ DOMAIN chains,
           n \in 1..MaxDescs :
          /\ desc_bus' = [desc_bus EXCEPT ![w] = a]
          /\ desc_num' = [desc_num EXCEPT ![w] = n]
          /\ chains' = [b \in DOMAIN chains \cup {a} |->
                          IF b = a THEN w ELSE chains[b]]
     /\ UNCHANGED <<pinned, mapped, regs, engine>>
  \/ /\ Goto(w, "alloc", "dead")
     /\ UNCHANGED <<local, regs, engine>>

Clip(n) == IF n > MAX_EXTRA_ADJ THEN MAX_EXTRA_ADJ ELSE n

(* Threads that are between the first and the last register write of       *)
(* transfer_start(), and w with them when there are any.                   *)
Starting == {"set_lo", "set_hi", "run"}
Meets(w) ==
  LET others == {v \in Writers \ {w} : pc[v] \in Starting}
  IN  IF others = {} THEN {} ELSE others \cup {w}

(* Mutant of SetAdjacent: not limited to MAX_EXTRA_ADJ.                    *)
SetAdjacentUnlimited(w) ==
  /\ Goto(w, "set_adj", "set_lo")
  /\ first_adj' = desc_num[w] - 1
  /\ raced' = raced \cup Meets(w)
  /\ UNCHANGED <<local, first_lo, first_hi, run, eng, done, stray, late>>

(* transfer_start(): the register first_desc_adjacent ...                  *)
SetAdjacent(w) ==
  /\ Goto(w, "set_adj", "set_lo")
  /\ first_adj' = IF desc_num[w] > 0 THEN Clip(desc_num[w] - 1) ELSE 0
  /\ raced' = raced \cup Meets(w)
  /\ UNCHANGED <<local, first_lo, first_hi, run, eng, done, stray, late>>

(* Mutant of SetLo: the address of a busy engine is left alone.            *)
SetLoIfIdle(w) ==
  /\ Goto(w, "set_lo", "set_hi")
  /\ first_lo' = IF eng.busy THEN first_lo ELSE desc_bus[w].lo
  /\ UNCHANGED <<local, first_adj, first_hi, run, engine>>

(* ... the registers first_desc_lo ...                                     *)
SetLo(w) ==
  /\ Goto(w, "set_lo", "set_hi")
  /\ first_lo' = desc_bus[w].lo
  /\ UNCHANGED <<local, first_adj, first_hi, run, engine>>

(* ... and first_desc_hi ...                                               *)
SetHi(w) ==
  /\ Goto(w, "set_hi", "run")
  /\ first_hi' = desc_bus[w].hi
  /\ UNCHANGED <<local, first_adj, first_lo, run, engine>>

FirstDesc == [lo |-> first_lo, hi |-> first_hi]

(* The engine fetches the first block.  Where no chain is, it finds no     *)
(* magic number and stops.                                                 *)
Launch ==
  IF FirstDesc \in DOMAIN chains
    THEN eng' = [busy |-> TRUE, at |-> FirstDesc, d |-> 0]
    ELSE UNCHANGED eng

(* ... and engine_start(), which sets RUN.                                 *)
EngineStart(w) ==
  /\ Goto(w, "run", "wait")
  /\ run' = TRUE
  /\ \/ ~(run /\ eng.busy) /\ Launch
     \/ (run \/ eng.busy) /\ UNCHANGED eng
  /\ UNCHANGED <<local, first_adj, first_lo, first_hi, done, stray, raced, late>>

WorksFor(w) == eng.busy /\ chains[eng.at] = w

(* Mutant of Wait: polls until its own transfer is complete.               *)
WaitPolls(w) ==
  /\ Goto(w, "wait", "stop")
  /\ done[w] = 0..desc_num[w] - 1
  /\ late' = (late \/ WorksFor(w))
  /\ UNCHANGED <<local, regs, eng, done, stray, raced>>

(* Mutant of Wait: does not wait.                                          *)
WaitNot(w) ==
  /\ Goto(w, "wait", "stop")
  /\ late' = (late \/ WorksFor(w))
  /\ UNCHANGED <<local, regs, eng, done, stray, raced>>

(* mdelay(2000) is over.  Unless the engine may be slow, it is idle then.  *)
(* The status is read, and only printed.                                   *)
Wait(w) ==
  /\ Goto(w, "wait", "stop")
  /\ SlowEngine \/ ~eng.busy
  /\ late' = (late \/ WorksFor(w))
  /\ UNCHANGED <<local, regs, eng, done, stray, raced>>

(* Mutant of EngineStop: leaves a busy engine alone.                       *)
EngineStopIfIdle(w) ==
  /\ Goto(w, "stop", "unmap")
  /\ run' = (run /\ eng.busy)
  /\ UNCHANGED <<local, first_adj, first_lo, first_hi, engine>>

(* engine_stop() clears RUN.                                               *)
EngineStop(w) ==
  /\ Goto(w, "stop", "unmap")
  /\ run' = FALSE
  /\ UNCHANGED <<local, first_adj, first_lo, first_hi, engine>>

(* Mutant of UnmapSg: the pages are put before they are unmapped.          *)
UnmapSgLate(w) ==
  /\ Goto(w, "unmap", "put")
  /\ pinned' = pinned \ {w}
  /\ UNCHANGED <<mapped, desc_bus, desc_num, chains, regs, engine>>

(* pci_unmap_sg().                                                         *)
UnmapSg(w) ==
  /\ Goto(w, "unmap", "put")
  /\ mapped' = mapped \ {w}
  /\ UNCHANGED <<pinned, desc_bus, desc_num, chains, regs, engine>>

(* sgm_put_user_pages(), sg_destroy_mapper() and return count.             *)
PutPages(w) ==
  /\ Goto(w, "put", "returned")
  /\ pinned' = pinned \ {w}
  /\ UNCHANGED <<mapped, desc_bus, desc_num, chains, regs, engine>>
----------------------------------------------------------------------------
(* The engine completes a descriptor and goes to the next, unless it is    *)
(* the last (flag STOPPED) or RUN has been cleared.                        *)
Transfer ==
  /\ eng.busy
  /\ LET w == chains[eng.at]
     IN  /\ done' = [done EXCEPT ![w] = @ \cup {eng.d}]
         /\ stray' = (stray \/ w \notin mapped)
         /\ eng' = IF run /\ eng.d < desc_num[w] - 1
                     THEN [eng EXCEPT !.d = @ + 1]
                     ELSE Idle
  /\ UNCHANGED <<pc, local, regs, raced, late>>

(* The engine gives up on an error.                                        *)
Fault ==
  /\ Faults /\ eng.busy
  /\ eng' = Idle
  /\ UNCHANGED <<pc, local, regs, done, stray, raced, late>>

(* A thread in the system call.                                            *)
Step(w) ==
  \/ Pin(w) \/ MapSg(w) \/ Build(w)
  \/ SetAdjacent(w) \/ SetLo(w) \/ SetHi(w)
  \/ EngineStart(w) \/ Wait(w) \/ EngineStop(w)
  \/ UnmapSg(w) \/ PutPages(w)

Next == (\E w \in Writers : Enter(w) \/ Step(w)) \/ Transfer \/ Fault

Spec == Init /\ [][Next]_vars

(* A thread in the kernel keeps running, and the engine keeps working.     *)
FairSpec ==
  Spec /\ (\A w \in Writers : WF_vars(Step(w))) /\ WF_vars(Transfer)
----------------------------------------------------------------------------
Buses == [lo : Nat, hi : Nat]

(* The type invariant; first_desc_adjacent fits its field.                 *)
TypeOK ==
  /\ pc \in [Writers -> {"idle", "pin", "map", "alloc", "set_adj", "set_lo",
                         "set_hi", "run", "wait", "stop", "unmap", "put",
                         "returned", "dead"}]
  /\ pinned \subseteq Writers /\ mapped \subseteq Writers
  /\ desc_bus \in [Writers -> Buses]
  /\ desc_num \in [Writers -> 0..MaxDescs]
  /\ chains \in [DOMAIN chains -> Writers]
  /\ first_adj \in 0..MAX_EXTRA_ADJ
  /\ first_lo \in Nat /\ first_hi \in Nat /\ run \in BOOLEAN
  /\ eng \in [busy : BOOLEAN, at : Buses, d : 0..MaxDescs]
  /\ done \in [Writers -> SUBSET (0..MaxDescs)]
  /\ stray \in BOOLEAN /\ raced \subseteq Writers /\ late \in BOOLEAN

(***************************************************************************)
(* first_desc_lo and first_desc_hi are written one after the other by any  *)
(* number of threads, yet an engine that starts always starts at the first *)
(* descriptor of some complete chain, never at an address made of two      *)
(* halves: set_dma_mask() keeps all high words equal.                      *)
(***************************************************************************)
StartsAtChain ==
  \A w \in Writers : pc[w] = "run" => FirstDesc \in DOMAIN chains

(***************************************************************************)
(* The registers of transfer_start() are written without a lock.  A call   *)
(* whose register writes met those of no other call finds its own chain    *)
(* and its own count in them when it sets RUN, whatever other calls did    *)
(* before, are waiting for, or tear down meanwhile: only overlapping       *)
(* transfer_start()s can mix two transfers.                                *)
(***************************************************************************)
UnracedStartIsOwn ==
  \A w \in Writers \ raced :
    pc[w] = "run" => /\ FirstDesc = desc_bus[w]
                     /\ first_adj = Clip(desc_num[w] - 1)

(***************************************************************************)
(* The engine works only for calls that have given it their chain: never   *)
(* on a chain still being built by another thread, nor for a call that     *)
(* died on the way, though nothing frees the descriptors and any thread    *)
(* may set RUN.                                                            *)
(***************************************************************************)
Submitted == {"set_hi", "run", "wait", "stop", "unmap", "put", "returned"}
OnlySubmitted ==
  \A w \in Writers : done[w] # {} \/ WorksFor(w) => pc[w] \in Submitted

(***************************************************************************)
(* The engine reads a page that is no longer mapped for its chain only     *)
(* after one of two causes: two transfer_start()s met, or mdelay(2000) was *)
(* too short for the call's own transfer.  Overlapping calls that do       *)
(* neither, lost starts, stops by another call and errors are harmless.    *)
(***************************************************************************)
StrayHasCause == stray => raced # {} \/ late

(* However calls overlap, RUN is clear when no call is between its         *)
(* engine_start() and its engine_stop(): no call leaves the engine armed.  *)
StoppedWhenUnused ==
  (\A w \in Writers : pc[w] \notin {"wait", "stop"}) => ~run

(***************************************************************************)
(* A page is mapped for DMA only while it is pinned, and a call that       *)
(* returns has given up both.  A call that dies keeps what it had.         *)
(***************************************************************************)
MappedArePinned ==
  /\ mapped \subseteq pinned
  /\ \A w \in Writers : pc[w] \in {"idle", "returned"} => w \notin pinned

(* Every call comes to an end, whatever the others and the engine do.      *)
EveryCallEnds ==
  \A w \in Writers : pc[w] = "pin" ~> pc[w] \in Finished

(* The engine never reads a page that is no longer mapped for its chain.   *)
NoStrayDma == ~stray

(* The comment on mdelay(2000), "wait for the transfer to finish": after   *)
(* it the descriptors of the call are all completed.                       *)
WaitCompletes ==
  \A w \in Writers :
    pc[w] \in {"stop", "unmap", "put", "returned"} =>
      done[w] = 0..desc_num[w] - 1

(***************************************************************************)
(* With one call at a time, an engine that is done in 2 s and no errors, a *)
(* call returns the count only when its whole buffer is in the card.       *)
(***************************************************************************)
Promise == INSTANCE DmaWrite WITH
  stored <- {w \in Writers : desc_num[w] > 0 /\ done[w] = 0..desc_num[w] - 1},
  result <- [w \in Writers |-> IF pc[w] = "returned" THEN "count"
                               ELSE IF pc[w] = "dead" THEN "dead" ELSE "none"]
KeepsPromise == Promise!Spec
============================================================================
