------------------------------- MODULE RegRw -------------------------------
(***************************************************************************)
(* The program app/reg_rw.c, run by several users at a time on the BAR of  *)
(* one device, and the mmap() of the driver it works through.  Other       *)
(* programs map other parts of the BAR.                                    *)
(*                                                                         *)
(* A uint32_t is the function of its four bytes, byte 0 the least          *)
(* significant; the byte order of the host is an input.  A target that is  *)
(* not a multiple of the access width is accessed in one go, as an x86     *)
(* host does.                                                              *)
(***************************************************************************)
EXTENDS BarMmap

CONSTANTS
  Procs,     \* the processes
  Bars,      \* the BARs considered
  MAP_SIZE,  \* what reg_rw maps
  Bytes,     \* the values of a byte
  Contents,  \* what the bus addresses hold at first
  Calls,     \* command lines of reg_rw: [argc, target, type, data]
  Elsewhere, \* words that other memory of a process may hold
  Requests,  \* calls of mmap() other programs make: [pgoff, size]
  NULL

Addresses == 0..ULONG - 1
Word      == [0..3 -> Bytes]

(* A BAR is less than the bus, and PCI puts it at a multiple of its size,  *)
(* a power of two: one as long as a page begins with a page.               *)
ASSUME RegAssumption ==
  /\ Bars \subseteq [start : Addresses, end : Addresses]
  /\ \A b \in Bars :
       /\ b.start <= b.end /\ BarLen(b) < ULONG
       /\ BarLen(b) >= PAGE_SIZE => b.start % PAGE_SIZE = 0
  /\ MAP_SIZE \in Nat \ {0} /\ 0 \in Bytes /\ ULONG >= 4
  /\ Contents \in [Addresses -> Bytes]
  /\ \A c \in Calls : c.argc \in Nat /\ c.target \in Addresses /\ c.data \in Word
  /\ Elsewhere \subseteq Word
  /\ \A r \in Requests : r.pgoff \in Nat /\ r.size \in Nat \ {0}
  /\ Calls \cap Requests = {}

VARIABLES
  bar,      \* the BAR
  host,     \* the byte order of the host: "little" or "big"
  mem,      \* what the bus addresses hold
  pc,       \* control point of each process
  args,     \* its command line or its request, or NULL
  vma,      \* what it has mapped, [pgoff, vsize], or NULL
  result    \* what it has read, or NULL

machine == <<bar, host>>
vars    == <<machine, mem, pc, args, vma, result>>

Init ==
  /\ bar \in Bars /\ host \in {"little", "big"}
  /\ mem = Contents
  /\ pc = [p \in Procs |-> "shell"]
  /\ args = [p \in Procs |-> NULL]
  /\ vma = [p \in Procs |-> NULL]
  /\ result = [p \in Procs |-> NULL]

Goto(p, from, to) == pc[p] = from /\ pc' = [pc EXCEPT ![p] = to]
----------------------------------------------------------------------------
(* The access width in bytes: a word unless the type says otherwise.       *)
access_width(c) ==
  IF c.argc >= 4 /\ c.type = "b" THEN 1
  ELSE IF c.argc >= 4 /\ c.type = "h" THEN 2 ELSE 4

(* Only a command line with data writes; with a type alone it still reads. *)
Writes(c) == c.argc >= 5

(* __bswap_16() and __bswap_32(), for n = 2 and 4: the low n bytes.        *)
Swap(v, n) == [k \in 0..3 |-> IF k < n THEN v[n - 1 - k] ELSE 0]

(* Mutant of Little: the macros of a little-endian host everywhere.        *)
LittleNever(v, n) == v

(* ltohs(), ltohl(), htols() and htoll().                                  *)
Little(v, n) == IF host = "big" THEN Swap(v, n) ELSE v

(* Byte k in memory of an n byte integer is its byte HostByte(k, n).       *)
HostByte(k, n) == IF host = "big" THEN n - 1 - k ELSE k

(* main() up to mmap(): the arguments, of which there must be two, then    *)
(* open(), which may fail.                                                 *)
Main(p, c) ==
  /\ \/ Goto(p, "shell", "failed") /\ UNCHANGED args
     \/ /\ c.argc >= 3
        /\ Goto(p, "shell", "mmap")
        /\ args' = [args EXCEPT ![p] = c]
  /\ UNCHANGED <<machine, mem, vma, result>>

(***************************************************************************)
(* mmap() in the driver: -EINVAL if the request is too long; -EAGAIN when  *)
(* io_remap_pfn_range() fails; else vsize bytes from page pgoff on.        *)
(***************************************************************************)
Mmap(p, pgoff, vsize, from, to) ==
  /\ \/ /\ TooLong(bar, pgoff, vsize)
        /\ Goto(p, from, "refused")
        /\ UNCHANGED vma
     \/ /\ ~TooLong(bar, pgoff, vsize)
        /\ Goto(p, from, "failed")
        /\ UNCHANGED vma
     \/ /\ ~TooLong(bar, pgoff, vsize)
        /\ Goto(p, from, to)
        /\ vma' = [vma EXCEPT ![p] = [pgoff |-> pgoff, vsize |-> vsize]]
  /\ UNCHANGED <<machine, mem, result>>

(* reg_rw maps MAP_SIZE bytes from the start of the BAR, or gives up.      *)
MapBar(p) == Mmap(p, 0, PageAlign(MAP_SIZE), "mmap", "access") /\ UNCHANGED args

(* Another program maps a part of the BAR.                                 *)
MapOther(p, r) ==
  /\ Mmap(p, r.pgoff, PageAlign(r.size), "shell", "mapped")
  /\ args' = [args EXCEPT ![p] = r]

(* Byte k of the access is at map_base + target + k, whatever target is:   *)
(* the sum is taken modulo ULONG and not tested against the mapping.       *)
Offset(c, k) == (c.target + k) % ULONG
Width(p) == access_width(args[p])

(* The bytes of the access that lie in the mapping, and the bus address of *)
(* one of them.                                                            *)
Hits(p) == {k \in 0..Width(p) - 1 : Offset(args[p], k) < vma[p].vsize}
At(p, k) == BusAddr(bar, vma[p].pgoff, Offset(args[p], k))

(* An access that leaves the mapping may meet no memory: a signal.         *)
Crash(p) ==
  /\ pc[p] = "access" /\ Hits(p) # 0..Width(p) - 1
  /\ Goto(p, "access", "killed")
  /\ vma' = [vma EXCEPT ![p] = NULL]
  /\ UNCHANGED <<machine, mem, args, result>>

(***************************************************************************)
(* A read at any target, and what it reports.  Bytes outside the mapping   *)
(* may belong to other memory of the process, which holds anything.  A     *)
(* word read returns from main() at once, and the exit releases the        *)
(* mapping; the others go on to munmap().                                  *)
(***************************************************************************)
Read(p) ==
  /\ pc[p] = "access" /\ ~Writes(args[p])
  /\ \E other \in Elsewhere :
       LET n == Width(p)
           there == [k \in 0..3 |-> IF k \in Hits(p) THEN mem[At(p, k)]
                                                     ELSE other[k]]
           loaded == [k \in 0..3 |-> IF k < n THEN there[HostByte(k, n)] ELSE 0]
       IN  result' = [result EXCEPT ![p] = Little(loaded, n)]
  /\ Goto(p, "access", IF Width(p) = 4 THEN "done" ELSE "munmap")
  /\ vma' = [vma EXCEPT ![p] = IF Width(p) = 4 THEN NULL ELSE @]
  /\ UNCHANGED <<machine, mem, args>>

(* A write at any target; the bytes outside the mapping go to other memory *)
(* of the process, if there is any.                                        *)
Write(p) ==
  /\ pc[p] = "access" /\ Writes(args[p])
  /\ LET n == Width(p)
         writeval == Little(args[p].data, n)
     IN  mem' = [a \in Addresses |->
                  IF \E k \in Hits(p) : a = At(p, k)
                    THEN writeval[HostByte(CHOOSE k \in Hits(p) : a = At(p, k), n)]
                    ELSE mem[a]]
  /\ Goto(p, "access", "munmap")
  /\ UNCHANGED <<machine, args, vma, result>>

(* munmap(), which may fail, close() and the end of main().                *)
Munmap(p) ==
  /\ Goto(p, "munmap", "done") \/ Goto(p, "munmap", "failed")
  /\ vma' = [vma EXCEPT ![p] = NULL]
  /\ UNCHANGED <<machine, mem, args, result>>

(* The other program exits.                                                *)
Exit(p) ==
  /\ Goto(p, "mapped", "done")
  /\ vma' = [vma EXCEPT ![p] = NULL]
  /\ UNCHANGED <<machine, mem, args, result>>

Next ==
  \E p \in Procs :
    \/ \E c \in Calls : Main(p, c)
    \/ \E r \in Requests : MapOther(p, r)
    \/ MapBar(p) \/ Crash(p) \/ Read(p) \/ Write(p) \/ Munmap(p) \/ Exit(p)

Spec == Init /\ [][Next]_vars
----------------------------------------------------------------------------
(* What process p asks mmap() for.                                         *)
Request(p) ==
  IF args[p] \in Calls THEN [pgoff |-> 0, size |-> MAP_SIZE] ELSE args[p]

(***************************************************************************)
(* For an offset up to the length of the BAR, mmap() grants what fits into *)
(* the BAR and refuses what does not, and a granted mapping leads, byte by *)
(* byte, to the BAR from the offset on and not beyond its end.  An absent  *)
(* BAR, one smaller than a page and one smaller than MAP_SIZE are among    *)
(* those considered.  (Behind the end of the BAR psize wraps around.)      *)
(***************************************************************************)
MmapExact ==
  \A p \in Procs :
    args[p] # NULL /\ Request(p).pgoff * PAGE_SIZE <= BarLen(bar) =>
      LET from  == Request(p).pgoff * PAGE_SIZE
          vsize == PageAlign(Request(p).size)
      IN  /\ pc[p] = "refused" => from + vsize > BarLen(bar)
          /\ vma[p] # NULL =>
               \A v \in 0..vsize - 1 :
                 /\ BusAddr(bar, vma[p].pgoff, v) = bar.start + from + v
                 /\ bar.start + from + v <= bar.end

(* The bytes of an access that a mapping of MAP_SIZE leads to the BAR, and *)
(* their places there.                                                     *)
Reached(c)   == {k \in 0..access_width(c) - 1 : Offset(c, k) < PageAlign(MAP_SIZE)}
Target(c, k) == bar.start + Offset(c, k)

Accesses(p) == pc[p] = "access" /\ pc'[p] \in {"munmap", "done"}

(* The access of the step: where it goes, what it stores or reports.       *)
AccessStep ==
  /\ mem' # mem => \E p \in Procs : Accesses(p) /\ Writes(args[p])
  /\ \A p \in Procs : Accesses(p) =>
       LET c == args[p]
       IN  /\ \A k \in Reached(c) : Target(c, k) <= bar.end
           /\ IF Writes(c)
                THEN /\ \A k \in Reached(c) : mem'[Target(c, k)] = c.data[k]
                     /\ \A a \in Addresses \ {Target(c, k) : k \in Reached(c)} :
                          mem'[a] = mem[a]
                ELSE /\ \A k \in Reached(c) : result'[p][k] = mem[Target(c, k)]
                     /\ \A k \in access_width(c)..3 : result'[p][k] = 0

(***************************************************************************)
(* reg_rw tests its target against nothing, maps a fixed MAP_SIZE, which   *)
(* may be more than the BAR has, and swaps bytes by the host's order.      *)
(* Wherever the target leads, inside the mapping, across one of its ends   *)
(* or away from it, and whatever other processes do:  the bytes that lie   *)
(* in the mapping are bytes of the BAR; a write stores the low bytes of    *)
(* the data there, least significant first, and no other register changes; *)
(* a read reports the bytes there.  Of bytes outside the mapping nothing   *)
(* is promised: the process may get a signal, or meet its other memory.    *)
(***************************************************************************)
AccessExact == [][AccessStep]_vars
============================================================================
