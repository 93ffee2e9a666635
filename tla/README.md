# A verification of the xpcie driver

xpcie is a simplified Linux driver for the Xilinx XDMA IP core, with a few user
programs. The host writes a user buffer into a PCIe card by DMA: `write()` on
the h2c device pins the pages of the buffer, describes them by a scatterlist,
turns that list into a chain of descriptors, hands the chain to the DMA engine
through a few registers, waits, and gives everything back. This directory holds
TLA+ models of that path, the TLC configurations that check them on small
instances, and proofs checked by TLAPS.

All paths and line numbers refer to `src/`.

## 1. The system

### Components

| component | code | state | operations |
|---|---|---|---|
| scatter-gather mapper | `xpcie.c:76-402` | `struct sg_mapping_t`: `pages[]`, `sgl[]`, `max_pages`, `mapped_pages`; references on pages | create, get user pages, kernel pages, put pages, destroy |
| descriptor chain builder | `xpcie.c:852-1168` | array of `struct xdma_desc` in consistent memory, its bus address, the local `xdma_transfer` | alloc, set, build, link, control, terminate, adjacent |
| h2c write path and engine control | `xpcie.c:495-635, 1206-1285` | per call: the transfer; shared: `first_desc_*` and `control` registers of the engine | write, start, stop |
| module lifecycle and PCI binding | `xpcie.c:405-493, 637-727, 1370-1446` | `xpcie_dev`, `bar[]`, `engine_regs_h2c`, `engine_sgdma_regs`; registrations in the kernel | init, exit, probe, remove |
| memory mapping of BARs | `xpcie_user_mmap()`, `xpcie_h2c_mmap()` | the mappings of processes | `mmap` |
| user and c2h devices | `xpcie.c` | open files | open, release; read and write are stubs that return 0 |
| register access tool | `app/reg_rw.c` | a mapping of a BAR | read or write one register |
| lock classes | `app/Lock.h`, `app/Lock.cpp` | a pthread lock and a guarded value; a named semaphore | `LockedValue`: get, set, increase, decrease; `PosixSemaphore`: construct, post, wait; `CMutex` |
| thread class | `app/Thread.cpp` | thread id, running and detached flags | start, join, detach, destroy |
| test program | `app/test_xpcie.cpp` | a mapping of a BAR | reads registers |
| logging, scripts | `app/LogUtils.*`, `*.sh`, `etc/` | - | output, start-up |

### How they interact

`xpcie_h2c_write()` calls the mapper, `pci_map_sg()`, the chain builder and
`transfer_start()` in one thread; everything but the engine is local to the
call. The engine runs on its own, reads descriptors and pages by bus address,
and talks back only through a status register, which the driver prints and does
not test: there is no interrupt handler. The register pointers are globals that
`xpcie_probe()` sets through `map_bars()`, and that `transfer_start()` uses.
The kernel calls probe and remove at module load and unload and at hotplug; the
character devices make the write path reachable between
`register_chrdev()` and `unregister_chrdev()`. `mmap()` gives a process the
registers of a BAR; what the process then does with them, as `reg_rw` does,
passes by the driver. The lock and thread classes are a library for programs
around the driver; they use pthreads and named semaphores only.

### What is hard here

* Page arithmetic: partial pages at both ends of the buffer, one-page buffers,
  buffers of 0 bytes (`xpcie.c:87`, `217-258`).
* Partial failures: fewer pages pinned than asked, each allocation failing, and
  return codes that the callers drop (`1224-1243`, `706-708`, `1425`).
* Merging of contiguous entries, the descriptor size limit, the 4K boundary of
  descriptor prefetch (`1011-1022`, `1155`).
* Concurrency: `write()` takes no lock, and four register writes plus RUN are
  one logical operation (`605-623`).
* Timing: a fixed delay of 2 s stands for completion (`625-628`).
* Order of registration and release; one set of globals for every device.
* Mappings that outlive the file, the binding or the device (`771`, `815`), and
  a size check by unsigned subtraction (`775`).
* Data races in `app/`: `++_value` under a lock whose results are not tested
  (`Lock.h:92`), a destructor that detaches and then cancels a thread
  (`Thread.cpp:47`), a semaphore that outlives a killed process (`Lock.cpp:82`).

The list of these hazards, each at its line and with the properties aimed at
it, is in `PROJECT.json`.

## 2. Modules

| module | models |
|---|---|
| `SgMapper` | one life of an `sg_mapping_t` |
| `XdmaTransfer` | from a mapped scatterlist to the registers of the engine |
| `DmaWrite` | abstract: what a `write()` promises |
| `H2cWrite` | several `write()` calls sharing an engine; implements `DmaWrite` when calls are serial |
| `H2cTransfer` | composes `SgMapper` and `XdmaTransfer`: one call from the user buffer to the started engine |
| `XpcieDriver` | load, unload, probe, remove; open, write, mmap, close |
| `BarMmap` | the arithmetic of mmap, in unsigned long |
| `RegRw` | `reg_rw` processes working through mmap; uses `BarMmap` |
| `AtomicValue` | abstract: a value with atomic operations |
| `LockedValue` | the class of `Lock.h` with its `RWLock`; implements `AtomicValue` |
| `Workers` | `Thread` objects whose threads share a `PosixSemaphore` |
| `MCSgMapper`, `MCXdmaTransfer`, `MCH2cTransfer`, `MCH2cWrite`, `MCRegRw` | inputs for TLC |
| `ArithmeticFacts` | lemmas about division, page boundaries and sequences of integers |
| `H2cTransferProofs` | proofs about `SgMapper` and about `H2cTransfer`, which uses it |
| `XdmaTransferProofs`, `H2cWriteProofs`, `XpcieDriverProofs`, `RegRwProofs`, `LockedValueProofs`, `WorkersProofs` | proofs about the module of that name |

Each module also holds, right before the definition concerned, deliberately
wrong variants (marked *Mutant of ...*). No specification uses them; replacing
the definition by the variant must make TLC report a named property violated,
which shows that the property depends on the code.

### SgMapper

State: the fields of `sg_mapping_t` (`max_pages`, `mapped_pages`, `sgl`), the
arguments and the loop variables of the functions, `heap` (which of the three
`kcalloc()`ed objects exist) and `pinned` (pages with a reference). A page is
its index in `pages[]`; addresses are natural numbers.

| action | code |
|---|---|
| `CreateMapper` | `sg_create_mapper()`, with NULL for length 0 and for each failing allocation |
| `GetUserPages`, `OutUnmap` | first half of `sgm_get_user_pages()` and its error exit |
| `KernelPages` | first half of `sgm_kernel_pages()` (no caller in the driver) |
| `FillFirst`, `FillNext`, `FillLast` | the fill code, the same in both functions, with its BUG_ONs |
| `CheckMapped` | the assertions of `xpcie_h2c_write()` on the mapper |
| `PutUserPages`, `DestroyMapper` | the release |

External: `get_user_pages_fast()` pins any number of pages or fails;
`vmalloc_to_page()` finds a page, none, or one in high memory.

### XdmaTransfer

State: the scatterlist `pci_map_sg()` left, the locals of `transfer_build()`,
the descriptors, and what the `first_desc` registers get. Addresses are split
into a low and a high word of size `WORD` as `PCI_DMA_L` and `PCI_DMA_H` do.
An entry of the list carries its place `pos` in the user buffer, used by the
properties alone. Actions: `MapSg`, `DescAlloc`, `BuildEntry` (one round of the
loop), `BuildLast`, `Terminate`, `Adjacent`, `Start`.

Entries may be longer than a page, because an IOMMU may merge pages. The field
`src` of a fresh descriptor is written before it is used; the model gives it 0.

### H2cTransfer

`H2cTransfer` extends `SgMapper` and instantiates `XdmaTransfer`, so each step
of the call is an action of one of the two, with the other's variables
unchanged. `MapSg` joins them: it places the pages anywhere in bus memory, in
any order (`frame`, over the constant `Frames`), and cuts them into entries so
that an entry holds only pages that follow each other there (`Cuts`); or it maps
nothing. `Release` (`PutUserPages`) waits for `transfer_start()`. Thus the list
`XdmaTransfer` starts from is no longer an input but what the mapper left, and
`ListFollows` shows that it is one of the inputs `XdmaTransfer` is checked for.

### DmaWrite and H2cWrite

`DmaWrite` has two variables: the calls whose buffer is in the card and what
each call returned. It returns the count only for a stored buffer.

`H2cWrite` has, for each thread, a control point, its pins, its mapping, and
its chain; the four registers; and the engine. `Enter`, `Pin`, `MapSg`, `Build`
do in one step each what the two modules above detail; each register write of
`transfer_start()`, the end of the delay, `engine_stop()`, the unmapping and
the release are steps of their own, so every interleaving of register accesses
is explored. `Transfer` and `Fault` are the engine, modelled from how the
driver uses it: it reads `first_desc_*` when RUN becomes set, works through the
chain, stops at the STOPPED descriptor or when RUN is clear. Setting RUN a
second time is underspecified, so the model lets it do either thing.

Three constants say which world is checked: `MaxConcurrent` (whether calls
overlap), `SlowEngine` (whether a transfer may outlast the delay), `Faults`.

Three variables are history, not state of the program: `stray` (the engine has
read a page no longer mapped for it), `raced` (the threads whose register writes
in `transfer_start()` fell between those of another) and `late` (a call has
stopped waiting while the engine still worked for it). They let the properties
name the causes of what goes wrong.

The refinement mapping: a call is stored when all the descriptors of its chain
are done, its result is `count` once it has returned.

### XpcieDriver

State: registrations (`drv`, `chr`, `class`, `nodes`), devices (`present`,
`bound`, `enables`, `regions`, `iomaps`), the driver's globals, what the PCI
core is doing, open files and mapped BARs. `leaked` counts, for each device, the
enables that a failed `request_regions()` left (`xpcie.c:702-704` returns without
disabling the device); it fails for a device in use, or for any other reason.
Plugging in a device makes a new `pci_dev` with fresh counts. Actions are the stages of
`xpcie_init()` and `xpcie_exit()`, each with its failure; the stages of probe
and remove; plug and unplug; open and close of the three devices, the uses of
`xpcie_dev` (`UseDev`) and the register accesses of a write, `Mmap`, `Touch` (an access through a mapping) and
`Munmap`. A mapping stays when the file is closed. The variable `calm`,
chosen once at the start, says whether services may fail and devices may come
and go in this behaviour.

External: the PCI core (one probe or remove at a time; all present devices are
probed before `pci_register_driver()` returns), and the module loader, which
honours `.owner = THIS_MODULE` for open and for mapped files. What the kernel does after a failed
`xpcie_init()` that left its registrations in place is not modelled: the module
is `failed` and stays so.

### BarMmap and RegRw

`BarMmap` holds the arithmetic of the two mmap functions as operators: offset,
bus address, the size left, the test, and where `io_remap_pfn_range()` leads a
byte, all modulo `ULONG`. `RegRw` runs `reg_rw` in several processes on it:
`Main` (the command line and `open()`), `MapBar`, `Read`, `Write`, `Munmap`. The
target is tested against nothing, so `Read` and `Write` go to any address
(`Offset`, modulo `ULONG`); the bytes outside the mapping meet other memory of
the process, which holds anything (`Elsewhere`), or none, and then the process
gets a signal (`Crash`). `MapOther` stands for a program that maps another part
of the BAR. A word is a function of its four bytes, and
the byte order of the host is an input, because `ltohl()` and the like are the
identity or a swap depending on it. As in the code, a command line with a type
and no data reads (although the program announces a write), and a word read
leaves `main()` without `munmap()`.

### AtomicValue and LockedValue

`AtomicValue` has the value, the operation each thread is in, and its result;
an operation takes effect in one step between call and return. `LockedValue`
has `_value`, the state of the reader-writer lock and, for each thread, its
control point and its `t`; `++` and `--` are a load and a store. The refinement
mapping gives a thread its result once it is past its effect.

### Workers

State: the objects with `m_tid`, `m_running` and `m_detached`; the pthreads; the
semaphore; what `main` is in. `start()`, `join()` and the destructor are two
steps each, with the threads running in between. `run()` is pure virtual, so
the model supplies one: any number of rounds of `wait()` and `post()`, then
return, or block at a cancellation point. `wait()` may also return -1
(`WaitInterrupted`); then there is nothing to post. `OpenSem` is the constructor
of the semaphore: `sem_open()` takes the `mode` argument `O_RDWR` for permission
bits (`Mode`), so the next process of a user other than root cannot open what
the first created, and its `assert()` ends it (`aborted`); the call may fail the
first time, too. `Crash` kills the process, or takes up after such an abort, and
starts it again with a constructor value of its choice; the semaphore stays.
`stale` records that a
pthread function was given the id of a thread that is gone, which is undefined.

The class documents no contract. `Misuse` states the one the code needs: an
object is started once, a detached thread is not joined, an object is destroyed
only after its thread was joined. Main may do otherwise in the model, too;
`proper` records whether it did.

## 3. Runs

### Passing

| run | instance | properties |
|---|---|---|
| `mapper` | mapper and chain builder together; pages of 4 bytes, 8 alignments, 0 to 14 bytes, every placement of the pages in four frames and every merging | `TypeOK` `TableFits` `NoBug` `SglExact` `PinsCounted` `ListFollows` `WholeBuffer` `PinnedWhileBuilt` `TransferEnds` |
| `chain` | up to 6 entries, every pattern of gaps, offsets and tails, one entry of up to 3 pages | `TypeOK` `InsideArray` `ChainComplete` `FetchesInside` `TransferExact` `DescWithinMax` |
| `writes_serial` | 3 calls one after the other, chains of up to 3 | `KeepsPromise` |
| `writes_concurrent` | 2 overlapping calls, slow engine, faults | `TypeOK` `StartsAtChain` `UnracedStartIsOwn` `OnlySubmitted` `StrayHasCause` `StoppedWhenUnused` `MappedArePinned` `EveryCallEnds` |
| `driver` | 1 device, 2 processes, failures and hotplug | `AccessMapped` `BarsKnown` `InUseUntouched` `UnboundIsClean` `CleanUnload` `MappingsBound` `LoadSettles` |
| `registers` | 2 processes, 5 kinds of BAR, both byte orders, targets in the mapping, across both its ends and behind it | `MmapExact` `AccessExact` |
| `locks` | 3 threads, 4 calls between them, values modulo 3 | `NoRace` `IsAtomic` `CallsReturn` |
| `threads` | 2 objects, started up to twice, a semaphore of 1 or 2, one crash or failed construction | `ProperUseIsSafe` `NoneLeft` `TokensConserved` `DestroyedThreadsGo` |

What they show, in words:

* `mapper`: the scatterlist is the buffer cut at page boundaries, `max_pages`
  is always enough although its check is compiled out, no BUG_ON of the fill
  loops fires, the references are balanced on every path. End to end: every
  byte of the user buffer is fetched from the bus address of its page and
  stored at `*ppos` plus its place, by exactly one descriptor, and nothing else
  is stored; the pages stay pinned while descriptors name them. The call ends,
  or dies on `BUG_ON(number < 1)` or a NULL descriptor with its pages pinned and
  the engine untouched.
* `chain`: the engine meets exactly the descriptors in use, in order, and stops
  at the last; it never prefetches beyond the chain or across 4K, although
  `first_desc_adjacent` is not clipped at 4K; the destinations tile the target
  range and every entry is carried whole; entries of at most a page never make
  a descriptor too long.
* `writes_serial`: with one call at a time and an engine that is fast enough,
  `write()` does what `DmaWrite` promises.
* `writes_concurrent`: with no assumption on timing or overlap these remain:
  the engine starts only on complete chains, since the 32-bit consistent DMA
  mask keeps the high words equal; a call whose register writes met those of no
  other starts the engine on its own chain with its own count of adjacent
  descriptors; the engine works only for calls that gave it their chain; it
  reads pages no longer mapped only after two `transfer_start()`s met or the
  delay was too short; RUN is clear when nobody is between start and stop; a
  page is mapped only while pinned; every call ends.
* `driver`: what probe took remove gives back, and a failing probe leaves nothing
  behind but one enable for each `request_regions()` that failed, in use or not;
  `bar[]` always names the mapped
  BARs, a device held by another driver is left alone, nothing survives
  `rmmod`, loading and unloading end; and as long as the device stays and
  nothing fails, no register access misses a mapped BAR and a mapped BAR
  belongs to a device the driver is bound to. Without that condition the model
  reaches the rest: a pulled device is still accessed through `engine_regs_h2c`
  and `xpcie_dev`, and since `xpcie_dev` is set before the regions are
  requested, mmap maps a device another driver holds.
* `registers`: mmap grants exactly the requests that fit into the BAR, an absent
  BAR (whose length the code computes as 1) included. Whatever the target, the
  bytes of an access that lie in the mapping are those of the BAR that the
  command line names, in little-endian order, on either kind of host, and no
  other register changes; nothing is promised of bytes outside the mapping,
  which a read may report and a write may overwrite unnoticed. `MmapExact` is for offsets up to the length of the BAR: behind
  it the subtraction wraps around and the request is granted, which the model
  reproduces and the property leaves out.
* `locks`: `LockedValue` is atomic: it implements `AtomicValue`, without a data
  race, and every call returns.
* `threads`: used within the contract, the class never gives pthreads a dead id
  and no thread runs in a destroyed object; an object started once leaves no
  unjoinable thread, however it is used, and its destructor ends the thread
  wherever it is, unless it met a dead id; tokens are lost only by a crash, and
  then for good, as the constructor of the next process cannot reset the
  semaphore, and neither a failing constructor nor an interrupted wait makes or
  loses one. Outside the contract
  the model reaches both ends of the destructor's race (the thread ends between
  detach and cancel; or it goes on in the destroyed object), and a leak after a
  second `start()`, because `join()` set `m_detached`.

Deadlock checking is off everywhere: calls end, threads die on a BUG_ON, and a
failed load is final.

### Violations: where the code differs from what is said of it

| run | said | shown |
|---|---|---|
| `mapper_ready` | the assertions at `xpcie.c:1231-1232` | a 0-byte write, a failed allocation or a short pin stops the thread on a NULL mapper or on the assertion |
| `chain_limits` | `xpcie.h:117`, maximum size of a descriptor; `xpcie.c:942`, `len` a multiple of 4 | the length follows the user buffer and is not rounded; merged entries longer than a page exceed the maximum, since one page of room is kept |
| `write_lost` | `xpcie.c:625`, wait for the transfer to finish | two overlapping calls and a fast engine: one transfer never runs, its call goes on and returns `count` |
| `driver_two` | `xpcie.c:416`, addresses for mapped BARs | a second device overwrites the addresses of the first |

The instance of `write_lost` also breaks `NoStrayDma`: a late starter can run
the chain another call left in the registers after that call has released its
pages. It has the same cause, two `transfer_start()`s that met, so one run
stands for both; `StrayHasCause` shows that there is no third cause besides this
one and the delay. With
`SlowEngine` or `Faults` a single call breaks `WaitCompletes` as well: the
delay is over before the transfer, or the transfer has failed, and the status
register is not tested.

### Why the bounds are enough

* `mapper`: with pages of 4 bytes, 14 bytes at 8 alignments touch one to five
  pages with every combination of partial and whole first and last page, so
  each branch and at least three rounds of the middle loop occur. The proof
  removes the bound. In four frames up to four pages follow each other, are
  apart, in descending order, or the same page of bus memory (a page may be
  mapped twice in a buffer), with every merging that respects the placement;
  file positions next to `WORD` make destinations
  outgrow the low word.
* `chain`: 8-byte fetch pages hold 4 descriptors of 2 bytes, so chains of 6
  cross a boundary; `MAX_EXTRA_ADJ = 2` is reached; the maximum of 15 bytes is
  reached by three pages and is no multiple of a page, so both tests of
  `transfer_build()` decide; `WORD = 16` makes addresses cross the low word.
* `writes_*`: two calls give every race over the registers; the third call of
  the serial run is for state left by earlier calls. Chains of three
  descriptors with `MAX_EXTRA_ADJ = 1` reach the clip, and three places for two
  chains let addresses differ. The model is symmetric in `Writers`, but symmetry
  is not used, because liveness is checked.
* `driver`: `MaxEnables = 3` bounds the enable count, which grows by one with
  every probe whose `request_regions()` fails; `Load` stops at the bound. Two
  such failures fit below it.
* `registers`: a bus of 32 addresses in pages of 4 holds a BAR that ends at the
  last address, so sums do reach `ULONG`; BARs are smaller than a page, smaller
  than `MAP_SIZE`, equal to it, larger, and absent; a target and a width lie
  inside, across and behind the end of the mapping, and across its start (the
  sum wraps around). Two processes suffice for
  an access between another's mapping and its access.
* `locks`: 3 threads are a reader, a writer and one that waits; 4 calls let
  each thread call again after another; `MODULUS = 3` makes values wrap around.
* `threads`: two threads on a semaphore of one block each other; two starts show
  what the flags keep from the first; one crash is enough to lose every token a
  process can hold, or to reopen the semaphore after a failure. The number of
  rounds in `run()` is not bounded.

### Fairness

* `SgMapper`, `H2cTransfer`: weak fairness of the only thread.
* `H2cWrite`: weak fairness of each thread inside the call (the kernel
  schedules it; the delay is a busy wait) and of the engine's `Transfer`. No
  fairness for `Enter` or `Fault`. `EveryCallEnds` needs nothing of the engine
  when it may be slow, because the delay ends by itself.
* `XpcieDriver`: weak fairness of the PCI core; strong fairness of the threads
  of `insmod` and `rmmod`, which wait for a lock that hotplug events take again
  and again (the lock is handed over in turn). None for users, `Load`,
  `Unload`, plugging.
* `LockedValue`: weak fairness of each thread inside a call. The lock of glibc
  may prefer readers and starve a writer under an endless stream of them; the
  number of calls is finite here, so weak fairness is enough and no more is
  assumed.
* `Workers`: weak fairness of each pthread, and of `main` inside a call; none for
  what `main` calls next, nor for `Crash` or for the signal that interrupts a
  `wait()`. `sem_wait()` promises no order, and a thread in `wait()` need not get
  a token; `DestroyedThreadsGo` needs only that a cancelled thread gets on.
* `XdmaTransfer` and `RegRw` are checked for safety alone.

## 4. Proofs

Every safety property of the passing runs, action properties and refinements
included, is a theorem; the five liveness properties are not (see below). Each
inductive invariant also holds in every state TLC reaches in the instance of the
component's run.

### H2cTransferProofs: the mapper

`Safety`: `Spec => [](TypeOK /\ SglExact /\ TableFits /\ NoBug /\ PinsCounted)`
for every `PAGE_SIZE` in `Nat \ {0}` (`PageSizeAssumption`) and all sets of
addresses and lengths of natural numbers (`BufferAssumption`).

`SglExact` is not inductive: it speaks of the end of the loops. The inductive
invariant `IInv` adds

* `Entering`: before the loop the table has `MaxPages(len)` entries, `count` is
  still `len`, and `len > 0` once a mapper exists;
* `Filling`: inside the loop entries `0..i-1` are the parts of the buffer in
  their pages, and `count` is what is left, `offset + len - PAGE_SIZE * i`.

From `Filling` it follows that the BUG_ONs hold, because the bytes left and the
pages left agree. The page arithmetic is in lemmas: `Geometry` (how the number
of pages, offset and length are related, and `nr_pages <= MaxPages(len)`),
`PartFirst` and `PartRest` (the reference for the first and the other pages),
which rest on `ArithmeticFacts` (`DivMod`, `MulMono`, `MulCancel`, `Span`,
`PageBoundary`). The theorem thus shows that the compiled-out check on
`max_pages` at `xpcie.c:170` is redundant for any page size and any buffer.
The corollaries `MapperTypes`, `ArraysSuffice`, `NoAssertionFires` and
`ReferencesBalance` state `TypeOK`, `TableFits`, `NoBug` and `PinsCounted` one
by one.

### H2cTransferProofs: the call

`UsesMapper`: `WriteSpec => Spec`, every behaviour of the composition is, seen
from the mapper, one of `SgMapper`; so `Safety` above holds inside a write call
(`MapperInCall`).

`BuiltOnPinnedPages`: `WriteSpec => []PinnedWhileBuilt`, for every placement of
the pages and every failure. The inductive invariant `WInv` adds `HasMapper`
(what a mapper at the control point `mapped` holds) and `Building` (while the
chain is being built the mapper stays at that point). The steps of
`XdmaTransfer` enter through `ChainSteps`, which is all the proof needs to know
of them: they happen after `pci_map_sg()` and before the engine is started, and
leave the mapper alone.

`ListIsAsAssumed` (`ListFollows`) and `WholeBufferStored` (`WholeBuffer`), for
every buffer, page size, file position, placement of the pages and way to merge
them. The invariant `CInv` says that the table stays filled until it is mapped
(`Filled`), that the chain builder has not begun before (`NotBegun`), that from
then on every byte of the buffer is found, through the entry that holds it, at
its bus address (`Placed`), and that the chain builder is in a state of its own
inductive invariant, `XP!IInv` of `XdmaTransferProofs`, which is instantiated.
So the two components meet in one step, `pci_map_sg()`: `EntryFacts` computes
an entry from the pages it is made of, `CutFacts` shows that the pages of an
entry follow each other in bus memory, `ListMade` that the entries follow each
other from byte 0 to `len`, `ByteInEntry` that a byte keeps its
place when pages are merged. Every other step is one of the mapper or one of
the chain builder, and the component's proof covers it. At the end,
`ByteIsStored` finds the entry that holds a byte and the descriptor that
carries the entry, and `ChainTiles` shows that no other one stores there.

`TransferAssumption` asks of the constants what `XdmaTransfer` asks of them,
and that `MaxEntries`, a bound of the model, admits the entries of the longest
buffer.

### XdmaTransferProofs

`TypeCorrect`, `StaysInside` (`InsideArray`, and `BUG_ON(j > sgl_nents)` never
fires), `ChainIsComplete`, `TransferIsExact`, `LengthsWithinMax`
(`DescWithinMax`) and `FetchesStayInside`, for every list `IsSGL` admits, every
end point address and every place of the chain at a page boundary.

The inductive invariant is about the loop of `transfer_build()`: `Allocated`
(`j <= i < sgl_nents`, so a descriptor is there for every block), `Linked` (each
descriptor leads to the next, the last in use stops), `Collecting` (the block
being collected ends where entry `i` begins, in bus memory and in the end point;
the `j` descriptors written tile the end point up to `ep_addr`; each earlier
entry is carried by a descriptor or lies in the block), `Stored` (the same after
the loop), `Limits` and `Prefetch`. `FetchesStayInside` needs `RecordInPage`:
descriptors at multiples of their size in a page, of which the size is a
divisor, never straddle its end.

`SizeAssumption`: sizes are positive, the fetch page divides the word and the
descriptor size the fetch page, `MAX_EXTRA_ADJ + 1` descriptors fit into a fetch
page (16 * 32 bytes in 4096: this is why the unclipped `first_desc_adjacent` is
harmless), and a page is no longer than `XDMA_DESC_MAX_BYTES`.
`InputAssumption`: the chain begins at a page, as `pci_alloc_consistent()`
promises.

### H2cWriteProofs: calls that overlap

`Safety`: `Spec => [](TypeOK /\ StartsAtChain /\ StoppedWhenUnused /\
MappedArePinned)` for any finite set of threads, any bound on the length of
chains, any `MAX_EXTRA_ADJ`, any buffers, with or without overlap, slow engine
and faults (`WriteAssumption`).

The inductive invariant `IInv` adds `HighWords` (every high word is 0, the
reason why two half-written addresses cannot mix), `OwnChain` (a thread about to
write its address has a chain there), `RegsAtChain` (between a thread's write of
`first_desc_lo` and its `engine_start()` the registers name some chain, this one
or that of a later writer), `EngineAtChain` (a busy engine is at a chain) and
`Holdings` (what a thread has pinned and mapped at each point). The corollaries
`WriteTypes`, `EngineLeftStopped` and `UnmapBeforeUnpin` state three of the
parts one by one.

Three more theorems say what overlapping calls can do to each other, under the
same assumptions:

* `UnracedStartsItsOwn` (`UnracedStartIsOwn`): a call whose register writes met
  no other's sets RUN on its own chain with its own count;
* `WorksOnlyForSubmitted` (`OnlySubmitted`): the engine never works on a chain
  under construction or of a call that died;
* `StrayDmaHasCause` (`StrayHasCause`): stray DMA follows only from two
  `transfer_start()`s that met or a delay that was too short.

Their invariant `JInv` adds, to `IInv`, `OwnsChain` (the chain at a thread's
address is its own), `RegsSubmitted`, `EngineSubmitted` and `DoneSubmitted` (the
registers of a starting thread, a busy engine and completed descriptors all
belong to threads past `SetLo`), `UnmetOwnsRegs` (a thread outside `raced` is
alone between its first and its last register write, and the registers are its
own), `HoldsMapping`, and `NoCauseNoStray` (as long as neither cause occurred, a
busy engine works for a thread that waits).

### H2cWriteProofs: one call at a time

What the driver promises it keeps only when calls do not overlap and the engine
is done before the delay is over; the violation run `write_lost` shows the
contrary. These theorems therefore have the hypothesis `OneAtATime`
(`MaxConcurrent = 1 /\ ~SlowEngine`), the setting of the run `writes_serial`,
for any number of calls and chains of any length:

* `SerialDmaIsMapped` (`NoStrayDma`), with faults of the engine or without;
* `SerialWaitIsEnough` (`WaitCompletes`) and `SerialWriteKeepsPromise`
  (`KeepsPromise`, the refinement of `DmaWrite`), without faults, since the
  driver does not test the status: the hypothesis adds `~Faults`.

The invariant `SInv` adds `Alone` (one call is open), `Progress` (what the call
has at each point; the registers it wrote are its own when it sets RUN) and
`WorksForWaiter` (a busy engine works for the call that waits, and has done the
descriptors before the current one). `Completed` adds that an idle engine is
done with the chain of the waiting call. The refinement is proved step by step:
the engine's step on the last descriptor is `Store`, the return is `Return`, a
BUG_ON or a NULL descriptor is `Die`, every other step is a stutter.

### XpcieDriverProofs

For any sets of devices and users (`DriverAssumption`: `NULL` is neither a
device nor a BAR):

* `InUseStaysUntouched`, `UnloadIsClean` (`CleanUnload`), and `BooksBalance`:
  the part of `UnboundIsClean` that does not depend on `bar[]`, at every stage of
  probe and remove and on every error path. It exempts no device: the enable
  count is the owner's, the driver's while it has the device, and exactly one
  for each failed `request_regions()` (`leaked`);
* `AccessIsMapped` (`AccessMapped`, if there is a device at all) and
  `MappingsAreBound`, which by their statement are for `calm` behaviours;
* `OneDeviceBarsKnown` (`BarsKnown`) and `OneDeviceIsClean` (`UnboundIsClean`)
  under the hypothesis `OneDevice`. It is needed: with two devices `bar[]` is
  overwritten, as the run `driver_two` shows.

The inductive invariant has `Control` and `Registered` (what is registered at
each point of init and exit), `Attached` (what the PCI core may be doing; a
bound device is present or being removed), `Accounts` (who has the regions of a
device and how often it is enabled, at each stage of probe and remove) and
`Quiet` (no file is open before registration nor after rmmod was let through).
`Calm` is the additional invariant of calm behaviours: once
`pci_register_driver()` has returned every device is bound and the globals lead
to one of them. `One` is that of a single device.

### RegRwProofs

`MmapIsExact` (`MmapExact`) and the action property `AccessIsExact`
(`AccessExact`), for every page size, every width of `unsigned long`, every
number of processes, every byte order and command line. `RegAssumption` states
what PCI grants: a BAR is less than the whole bus, and one that is as long as a
page begins with a page. The arithmetic is in `NoWrap` (for offsets up to the
length of the BAR the subtraction of `xpcie.c:775` does not wrap around; an
absent BAR has length 1 for the code, which is less than any request),
`Grants` and `LeadsToBar`. The inductive invariant says that what a process has
mapped is what it asked for and the driver did not find it too long. The target
is any address: `OffsetValue` and `OffsetsDiffer` follow the sum modulo `ULONG`,
`AccessFacts` finds the bytes of the access that lie in the mapping, and the
theorem is about those. The rest are the byte orders: `ReadIsExact` and `WriteIsExact` show that the swap undoes
the order of the host.

### LockedValueProofs

`RaceFree` (`NoRace`) and `Atomicity` (`IsAtomic`, the refinement of
`AtomicValue`), for any set of threads, any number of calls and any modulus
(`NoneAssumption`: `NONE` is no value and no operation). The inductive
invariant: between `Lock` and `UnLock` a thread has the lock its operation asks
for, a writer excludes readers (`Locking`), and what `++` and `--` have loaded
is still the value when they store (`Fresh`). The access is the step that takes
effect; for `++` and `--` it is the store.

### WorkersProofs

`TokensAreConserved`, `ProperUse` (`ProperUseIsSafe`) and `NoneIsLeft`
(`NoneLeft`), for any number of objects, threads, starts and crashes
(`WorkersAssumption`: `NULL` is no count). The inductive invariant: the threads
that exist are those of the starts made, and `m_tid` names the last
(`Numbered`); the tokens are counted, over a finite set of holders, through
constructors that fail or reopen, interrupted waits and crashes (`Tokens`);
for an object started once, what `m_running` and `m_detached` say of its thread
at every point of `start()`, `join()` and the destructor (`Members`); and what
`main` cannot have done while it kept to the contract (`Proper`).

### Induction

The library's induction theorems take an operator and cannot be used. Where
the proofs need induction over an index, `ArithmeticFacts!LeastNat` (a set of
natural numbers has a least element, from `WFMin`) stands in for it: the set is
that of the counterexamples. `Ascending` (steps up make a sequence ascend) and
`Between` (a value between the first and the last lies between two neighbours)
are proved so; they give `ByteIsStored` and `WholeBufferStored`.

### Model-checked only

The liveness properties `TransferEnds`, `EveryCallEnds`, `LoadSettles`,
`CallsReturn` and `DestroyedThreadsGo`: they rest on fairness, which the prover does
not handle. And, naturally, the four violations.

## 5. Not modelled

* Bodies that change no state: read and write of the user device (0 is
  returned), `xpcie_h2c_read()` (count is returned), `transfer_dump()`,
  `Thread::self()`.
* Code without a caller: `test_h2c()`, and `xdma_desc_free()`; the models
  therefore never free a chain. Paths of `transfer_build()` and
  `xdma_desc_link()` for arguments no caller passes: device to host,
  non-incrementing addresses, forced descriptors.
* `CMutex`: two calls passed on to a pthread mutex, without a caller. Destruction
  of a lock in use, and the failure of `pthread_rwlock_rdlock()` at its greatest
  number of readers, which `ReadLock()` would not notice.
* `test_xpcie.cpp`: a variant of `reg_rw` for one board; `LogUtils`: formatting
  and output; scripts, rules and makefiles.
* The exit status of `reg_rw` (a word read returns the word); what the programs
  print.
* Wrap-around of virtual and bus addresses of user buffers: the VFS and the PCI
  layer exclude it.

## 6. Plan

The system is modelled as far as its code keeps state, and what can be proved
of the properties the runs check is proved. What is left are theorems beyond
the runs' properties, in this order:

1. `XpcieDriver`: with any number of devices, which BARs stay mapped after the
   driver is gone (a bound on what `unmap_bars()` loses).
2. `H2cWrite`: which guarantee of `SerialWriteKeepsPromise` remains with faults.
3. `BarMmap`: that behind the end of the BAR every request of less than the
   address space is granted, the converse of `NoWrap`.
