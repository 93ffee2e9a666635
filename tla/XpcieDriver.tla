----------------------------- MODULE XpcieDriver -----------------------------
(***************************************************************************)
(* The life of the module driver/xpcie.c: xpcie_init(), xpcie_exit(),      *)
(* xpcie_probe(), xpcie_remove() and what they call, against user          *)
(* processes that open its devices, write to h2c, and map BARs: BAR 0      *)
(* through the user device and BAR 1 through h2c.  read() and write() of   *)
(* the user device and read() of h2c return at once and change nothing;    *)
(* the c2h device has no operation but release.                            *)
(*                                                                         *)
(* The driver keeps one set of globals (xpcie_dev, bar[], the engine       *)
(* register pointers) for all the devices it is bound to.                  *)
(*                                                                         *)
(* External, from how the driver uses them: the PCI core probes every      *)
(* device present before pci_register_driver() returns, probes and removes *)
(* one device at a time, and calls remove() only on devices whose probe()  *)
(* returned 0; the module loader refuses to unload a module while a file   *)
(* whose fops name it as owner is open or mapped.                          *)
(***************************************************************************)
EXTENDS Integers, FiniteSets

CONSTANTS
  Devices,     \* PCI devices matching the id table
  Users,       \* processes that use the device nodes
  MaxEnables,  \* bound on the enable count of a device
  NULL

Names == {"user", "h2c", "c2h"}   \* DRV_NAME_USER, _H2C, _C2H
BarIndexes == {0, 1}              \* USER_BAR_INDEX, DMA_BAR_INDEX

ASSUME DriverAssumption ==
  /\ MaxEnables \in Nat
  /\ NULL \notin Devices \cup (Devices \X BarIndexes)

VARIABLES
  calm,       \* TRUE: kernel services do not fail and devices stay
  mod,        \* the module: "unloaded", "init", "live", "exit", "failed"
  at,         \* control point of xpcie_init() and xpcie_exit()
  drv,        \* pci_register_driver() in effect
  chr, class, nodes,  \* character devices, the class, the device nodes
  present, bound,     \* devices plugged in, devices probe() accepted
  inuse,      \* devices another driver holds
  enables,    \* the enable count of each device
  leaked,     \* how many of those are left by a failed probe()
  regions,    \* who has the regions of each device
  iomaps,     \* BARs mapped into the kernel: <<device, index>>
  work,       \* what the PCI core is doing: [op, dev, step]
  pending,    \* devices it has still to probe or remove for the module
  xpcie_dev, bar, engine_regs,  \* the globals
  file,       \* each process: "closed", the device open, or "write" (to h2c)
  vma,        \* each process: the BAR it has mapped, or NULL
  access      \* the last use of the device: "none", "ok" or "fault"

module  == <<calm, mod, at, drv, chr, class, nodes>>
device  == <<present, bound, inuse, enables, leaked, regions, iomaps>>
globals == <<xpcie_dev, bar, engine_regs>>
user    == <<file, vma, access>>
vars    == <<module, device, work, pending, globals, user>>

NoWork == [op |-> "none", dev |-> NULL, step |-> "none"]
Working(op, step) == work.op = op /\ work.step = step
Then(step) == work' = [work EXCEPT !.step = step]
Fails == IF calm THEN {FALSE} ELSE BOOLEAN

Init ==
  /\ calm \in BOOLEAN
  /\ mod = "unloaded" /\ at = "none"
  /\ drv = FALSE /\ chr = {} /\ class = FALSE /\ nodes = {}
  /\ present \in IF calm THEN {Devices} ELSE SUBSET Devices
  /\ bound = {}
  /\ inuse \in IF calm THEN {{}} ELSE SUBSET present
  /\ enables = [d \in Devices |-> IF d \in inuse THEN 1 ELSE 0]
  /\ leaked = [d \in Devices |-> 0]
  /\ regions = [d \in Devices |-> IF d \in inuse THEN "other" ELSE "free"]
  /\ iomaps = {}
  /\ work = NoWork /\ pending = {}
  /\ xpcie_dev = NULL /\ bar = [k \in BarIndexes |-> NULL]
  /\ engine_regs = NULL
  /\ file = [u \in Users |-> "closed"] /\ vma = [u \in Users |-> NULL]
  /\ access = "none"
-----------------------------------------------------------------------------
(* insmod: the globals of the freshly loaded module are zero.              *)
Load ==
  /\ mod = "unloaded" /\ work = NoWork
  /\ \A d \in Devices : enables[d] < MaxEnables
  /\ mod' = "init" /\ at' = "register_driver"
  /\ xpcie_dev' = NULL /\ bar' = [k \in BarIndexes |-> NULL]
  /\ engine_regs' = NULL
  /\ UNCHANGED <<calm, drv, chr, class, nodes, device, work, pending, user>>

(* Every error of xpcie_init() goes to err_class, which undoes nothing,    *)
(* and the kernel then frees the module.                                   *)
InitFails ==
  /\ mod' = "failed" /\ at' = "none"
  /\ UNCHANGED <<calm, drv, chr, class, nodes, pending>>

(* pci_register_driver(): the devices present will be probed.              *)
RegisterDriver ==
  /\ at = "register_driver"
  /\ \E failed \in Fails :
       IF failed
         THEN InitFails
         ELSE /\ drv' = TRUE /\ pending' = present /\ at' = "probing"
              /\ UNCHANGED <<calm, mod, chr, class, nodes>>
  /\ UNCHANGED <<device, work, globals, user>>

(* Mutant of Probed: waits until a device is there.                        *)
ProbedWaits ==
  /\ at = "probing" /\ pending = {} /\ work = NoWork /\ bound # {}
  /\ at' = "user"
  /\ UNCHANGED <<calm, mod, drv, chr, class, nodes, device, work, pending, globals,
                 user>>

(* pci_register_driver() returns 0, whether or not a probe() succeeded.    *)
Probed ==
  /\ at = "probing" /\ pending = {} /\ work = NoWork
  /\ at' = "user"
  /\ UNCHANGED <<calm, mod, drv, chr, class, nodes, device, work, pending, globals,
                 user>>

(* The next stage of xpcie_init() after register_chrdev() of a name.       *)
AfterChrdev == [user |-> "h2c", h2c |-> "c2h", c2h |-> "class"]

(* register_chrdev() for user, h2c and c2h in turn.                        *)
RegisterChrdev ==
  /\ at \in Names
  /\ \E failed \in Fails :
       IF failed
         THEN InitFails
         ELSE /\ chr' = chr \cup {at} /\ at' = AfterChrdev[at]
              /\ UNCHANGED <<calm, mod, drv, class, nodes, pending>>
  /\ UNCHANGED <<device, work, globals, user>>

ClassCreate ==
  /\ at = "class"
  /\ \E failed \in Fails :
       IF failed
         THEN InitFails
         ELSE /\ class' = TRUE /\ at' = "nodes"
              /\ UNCHANGED <<calm, mod, drv, chr, nodes, pending>>
  /\ UNCHANGED <<device, work, globals, user>>

(* The three device_create() calls, whose results are not tested.          *)
DeviceCreate ==
  /\ at = "nodes"
  /\ nodes' \in IF calm THEN {Names} ELSE SUBSET Names
  /\ mod' = "live" /\ at' = "none"
  /\ UNCHANGED <<calm, drv, chr, class, device, work, pending, globals, user>>

Unused == \A u \in Users : file[u] = "closed" /\ vma[u] = NULL

(* Mutant of Unload: a mapping does not hold its file.                     *)
UnloadWhileMapped ==
  /\ mod = "live" /\ \A u \in Users : file[u] = "closed"
  /\ mod' = "exit" /\ at' = "device_destroy"
  /\ UNCHANGED <<calm, drv, chr, class, nodes, device, work, pending, globals, user>>

(* Mutant of Unload: the fops do not name their owner.                     *)
UnloadWhileOpen ==
  /\ mod = "live"
  /\ mod' = "exit" /\ at' = "device_destroy"
  /\ UNCHANGED <<calm, drv, chr, class, nodes, device, work, pending, globals, user>>

(* rmmod: refused while a file of the module is open or mapped.  From here *)
(* on open() fails.                                                        *)
Unload ==
  /\ mod = "live" /\ Unused
  /\ mod' = "exit" /\ at' = "device_destroy"
  /\ UNCHANGED <<calm, drv, chr, class, nodes, device, work, pending, globals, user>>

(* xpcie_exit(): the nodes, the class, the character devices ...           *)
DeviceDestroy ==
  /\ at = "device_destroy"
  /\ nodes' = {} /\ class' = FALSE /\ at' = "unregister_chrdev"
  /\ UNCHANGED <<calm, mod, drv, chr, device, work, pending, globals, user>>

(* Mutant of UnregisterChrdev: one of the three is forgotten.              *)
UnregisterChrdevTwo ==
  /\ at = "unregister_chrdev"
  /\ chr' = {"c2h"} /\ at' = "unregister_driver"
  /\ UNCHANGED <<calm, mod, drv, class, nodes, device, work, pending, globals, user>>

UnregisterChrdev ==
  /\ at = "unregister_chrdev"
  /\ chr' = {} /\ at' = "unregister_driver"
  /\ UNCHANGED <<calm, mod, drv, class, nodes, device, work, pending, globals, user>>

(* ... and pci_unregister_driver(), which removes every bound device.      *)
UnregisterDriver ==
  /\ at = "unregister_driver" /\ work = NoWork
  /\ drv' = FALSE /\ pending' = bound /\ at' = "removing"
  /\ UNCHANGED <<calm, mod, chr, class, nodes, device, work, globals, user>>

Unloaded ==
  /\ at = "removing" /\ pending = {} /\ work = NoWork
  /\ mod' = "unloaded" /\ at' = "none"
  /\ UNCHANGED <<calm, drv, chr, class, nodes, device, work, pending, globals, user>>
-----------------------------------------------------------------------------
(* The PCI core turns to a device, for the module or after a hotplug.      *)
StartProbe(d) ==
  /\ at = "probing" /\ d \in pending /\ work = NoWork
  /\ pending' = pending \ {d}
  /\ work' = [op |-> "probe", dev |-> d, step |-> "enable"]
  /\ UNCHANGED <<module, device, globals, user>>

StartRemove(d) ==
  /\ at = "removing" /\ d \in pending /\ work = NoWork
  /\ pending' = pending \ {d}
  /\ work' = [op |-> "remove", dev |-> d, step |-> "unmap"]
  /\ UNCHANGED <<module, device, globals, user>>

(* A device is plugged in, with a new pci_dev, or pulled out; one in use   *)
(* stays.  Hotplug events and the probing or removing for the module       *)
(* exclude each other.                                                     *)
Plug(d) ==
  /\ ~calm /\ d \notin present /\ work = NoWork
  /\ at \notin {"probing", "removing"} /\ mod # "failed"
  /\ present' = present \cup {d}
  /\ enables' = [enables EXCEPT ![d] = 0]
  /\ leaked' = [leaked EXCEPT ![d] = 0]
  /\ work' = IF drv THEN [op |-> "probe", dev |-> d, step |-> "enable"]
                    ELSE NoWork
  /\ UNCHANGED <<module, bound, inuse, regions, iomaps, pending, globals, user>>

Unplug(d) ==
  /\ ~calm /\ d \in present \ inuse /\ work = NoWork
  /\ at \notin {"probing", "removing"} /\ mod # "failed"
  /\ present' = present \ {d}
  /\ work' = IF d \in bound
               THEN [op |-> "remove", dev |-> d, step |-> "unmap"]
               ELSE NoWork
  /\ UNCHANGED <<module, bound, inuse, enables, leaked, regions, iomaps, pending,
                 globals, user>>

(* xpcie_probe(): remembers the device and enables it.                     *)
ProbeEnable ==
  /\ Working("probe", "enable")
  /\ xpcie_dev' = work.dev
  /\ \E failed \in Fails :
       IF failed
         THEN work' = NoWork /\ UNCHANGED enables
         ELSE /\ enables' = [enables EXCEPT ![work.dev] = @ + 1]
              /\ Then("regions")
  /\ UNCHANGED <<module, present, bound, inuse, leaked, regions, iomaps, pending,
                 bar, engine_regs, user>>

(* Mutant of ProbeRegions: takes the regions without asking.               *)
ProbeRegionsTakes ==
  /\ Working("probe", "regions")
  /\ regions' = [regions EXCEPT ![work.dev] = "ours"]
  /\ Then("map")
  /\ UNCHANGED <<module, present, bound, inuse, enables, leaked, iomaps, pending,
                 globals, user>>

(* request_regions(): fails for a device in use, and for one whose regions *)
(* cannot be had otherwise; probe() then returns the error and leaves the  *)
(* device enabled.                                                         *)
ProbeRegions ==
  /\ Working("probe", "regions")
  /\ \E failed \in Fails :
       IF regions[work.dev] = "free" /\ ~failed
         THEN /\ regions' = [regions EXCEPT ![work.dev] = "ours"]
              /\ Then("map")
              /\ UNCHANGED leaked
         ELSE /\ leaked' = [leaked EXCEPT ![work.dev] = @ + 1]
              /\ work' = NoWork
              /\ UNCHANGED regions
  /\ UNCHANGED <<module, present, bound, inuse, enables, iomaps, pending,
                 globals, user>>

(* map_single_bar(): a BAR of length 0 is skipped, leaving bar[k] as it    *)
(* was; pci_iomap() gives the address of the BAR, or NULL.                 *)
MapSingleBar(k, got) ==
  CASE got = "mapped" -> <<work.dev, k>>
    [] got = "absent" -> bar[k]
    [] got = "failed" -> NULL

(***************************************************************************)
(* map_bars() maps both BARs, the engine registers being wherever bar[1]   *)
(* is; set_dma_mask() follows.  Neither result is tested, and probe()      *)
(* returns 0.                                                              *)
(***************************************************************************)
ProbeMap ==
  /\ Working("probe", "map")
  /\ \E got \in IF calm THEN [BarIndexes -> {"mapped"}]
                        ELSE [BarIndexes -> {"mapped", "absent", "failed"}] :
       /\ bar' = [k \in BarIndexes |-> MapSingleBar(k, got[k])]
       /\ iomaps' = iomaps \cup
                    {<<work.dev, k>> : k \in {x \in BarIndexes : got[x] = "mapped"}}
  /\ engine_regs' = bar'[1]
  /\ bound' = bound \cup {work.dev}
  /\ work' = NoWork
  /\ UNCHANGED <<module, present, inuse, enables, leaked, regions, pending, xpcie_dev,
                 user>>

(* Mutant of RemoveUnmap: bar[] is not cleared.                            *)
RemoveUnmapStale ==
  /\ Working("remove", "unmap")
  /\ iomaps' = iomaps \ {bar[k] : k \in BarIndexes}
  /\ Then("release")
  /\ UNCHANGED <<module, present, bound, inuse, enables, leaked, regions, pending,
                 globals, user>>

(* xpcie_remove(): unmap_bars() ...                                        *)
RemoveUnmap ==
  /\ Working("remove", "unmap")
  /\ iomaps' = iomaps \ {bar[k] : k \in BarIndexes}
  /\ bar' = [k \in BarIndexes |-> NULL]
  /\ Then("release")
  /\ UNCHANGED <<module, present, bound, inuse, enables, leaked, regions, pending,
                 xpcie_dev, engine_regs, user>>

(* Mutant of RemoveRelease: the device is not disabled.                    *)
RemoveReleaseOnly ==
  /\ Working("remove", "release")
  /\ regions' = [regions EXCEPT ![work.dev] = "free"]
  /\ bound' = bound \ {work.dev}
  /\ work' = NoWork
  /\ UNCHANGED <<module, present, inuse, enables, leaked, iomaps, pending, globals,
                 user>>

(* ... pci_release_regions() and pci_disable_device().                     *)
RemoveRelease ==
  /\ Working("remove", "release")
  /\ regions' = [regions EXCEPT ![work.dev] = "free"]
  /\ enables' = [enables EXCEPT ![work.dev] = @ - 1]
  /\ bound' = bound \ {work.dev}
  /\ work' = NoWork
  /\ UNCHANGED <<module, present, inuse, leaked, iomaps, pending, globals, user>>
-----------------------------------------------------------------------------
(* open() on one of the devices: xpcie_user_open() and xpcie_h2c_open()    *)
(* always succeed, with or without a device behind them; c2h has none.     *)
Open(u, name) ==
  /\ file[u] = "closed" /\ name \in chr /\ mod \in {"init", "live"}
  /\ file' = [file EXCEPT ![u] = name]
  /\ UNCHANGED <<module, device, work, pending, globals, vma, access>>

(* The release functions, not while a write() is under way.  A mapping     *)
(* outlives close().                                                       *)
Close(u) ==
  /\ file[u] \in Names
  /\ file' = [file EXCEPT ![u] = "closed"]
  /\ UNCHANGED <<module, device, work, pending, globals, vma, access>>

(* A use of xpcie_dev, which is NULL before the first probe() and is left  *)
(* behind by remove().                                                     *)
UseDev == access' = IF xpcie_dev \in present THEN "ok" ELSE "fault"

(* xpcie_h2c_write(): pci_map_sg() and xdma_desc_alloc() on xpcie_dev ...  *)
Write(u) ==
  /\ file[u] = "h2c"
  /\ UseDev
  /\ file' = [file EXCEPT ![u] = "write"]
  /\ UNCHANGED <<module, device, work, pending, globals, vma>>

(* ... one read_register() or write_register() of transfer_start() ...     *)
Register(u) ==
  /\ file[u] = "write"
  /\ access' = IF engine_regs \in iomaps THEN "ok" ELSE "fault"
  /\ UNCHANGED <<module, device, work, pending, globals, file, vma>>

(* ... and pci_unmap_sg() on xpcie_dev, which may be another one by now.   *)
WriteReturns(u) ==
  /\ file[u] = "write"
  /\ UseDev
  /\ file' = [file EXCEPT ![u] = "h2c"]
  /\ UNCHANGED <<module, device, work, pending, globals, vma>>

(* The BAR that mmap() on a device maps.                                   *)
BarOf == [user |-> 0, h2c |-> 1]

(* xpcie_user_mmap() and xpcie_h2c_mmap() look up the BAR in xpcie_dev.    *)
(* It may be too small for the request, or io_remap_pfn_range() fail.      *)
Mmap(u) ==
  /\ file[u] \in DOMAIN BarOf /\ vma[u] = NULL
  /\ UseDev
  /\ \/ UNCHANGED vma /\ (calm => xpcie_dev \notin present)
     \/ /\ xpcie_dev \in present
        /\ vma' = [vma EXCEPT ![u] = <<xpcie_dev, BarOf[file[u]]>>]
  /\ UNCHANGED <<module, device, work, pending, globals, file>>

(* A load or store through the mapping, which calls nothing of the driver. *)
Touch(u) ==
  /\ vma[u] # NULL
  /\ access' = IF vma[u][1] \in present THEN "ok" ELSE "fault"
  /\ UNCHANGED <<module, device, work, pending, globals, file, vma>>

Munmap(u) ==
  /\ vma[u] # NULL
  /\ vma' = [vma EXCEPT ![u] = NULL]
  /\ UNCHANGED <<module, device, work, pending, globals, file, access>>

Loader ==
  \/ RegisterDriver \/ Probed \/ RegisterChrdev \/ ClassCreate \/ DeviceCreate
  \/ DeviceDestroy \/ UnregisterChrdev \/ UnregisterDriver \/ Unloaded

PciCore ==
  \/ \E d \in Devices : StartProbe(d) \/ StartRemove(d)
  \/ ProbeEnable \/ ProbeRegions \/ ProbeMap
  \/ RemoveUnmap \/ RemoveRelease

Next ==
  \/ Load \/ Unload \/ Loader
  \/ PciCore
  \/ \E d \in Devices : Plug(d) \/ Unplug(d)
  \/ \E u \in Users :
       \/ \E name \in Names : Open(u, name)
       \/ Close(u) \/ Write(u) \/ Register(u) \/ WriteReturns(u)
       \/ Mmap(u) \/ Touch(u) \/ Munmap(u)

Spec == Init /\ [][Next]_vars

(* The threads of insmod and rmmod and of the PCI core keep running; the   *)
(* loader, which waits for the core, gets its turn between two hotplugs.   *)
FairSpec == Spec /\ SF_vars(Loader) /\ WF_vars(PciCore)
-----------------------------------------------------------------------------
(***************************************************************************)
(* As long as kernel services do not fail and the device stays, no         *)
(* register access of a write() falls outside a mapped BAR and neither     *)
(* write() nor mmap() uses a device that is not there, whatever insmod,    *)
(* rmmod and other processes do meanwhile.                                 *)
(***************************************************************************)
AccessMapped == calm => access # "fault"

(***************************************************************************)
(* Under the same conditions, a BAR a process has mapped belongs to a      *)
(* device that this driver is bound to, also after the file was closed:    *)
(* its regions are not given back while a process can reach its registers. *)
(***************************************************************************)
MappingsBound ==
  calm => \A u \in Users :
            vma[u] # NULL => vma[u][1] \in bound /\ regions[vma[u][1]] = "ours"

(* The comment on bar[], "addresses for mapped BARs": it holds exactly the *)
(* BARs that are mapped, so that unmap_bars() unmaps all of them, once.    *)
BarsKnown == iomaps = {bar[k] : k \in BarIndexes} \ {NULL}

(***************************************************************************)
(* A device in use by another driver keeps its regions and stays enabled,  *)
(* over any number of loads, probes and removals: "assume device is in use *)
(* so do not disable it later".                                            *)
(***************************************************************************)
InUseUntouched ==
  \A d \in inuse : regions[d] = "other" /\ enables[d] >= 1 /\ d \notin bound

(***************************************************************************)
(* A device the driver is not bound to or busy with is as it was found: no *)
(* BAR of it is mapped, its regions are free or with their owner, and it   *)
(* is disabled or as often enabled as its owner did, except for one enable *)
(* for each probe() whose request_regions() failed.  All that probe() took *)
(* remove() gives back, once, and every other error path of probe() leaves *)
(* nothing behind.                                                         *)
(***************************************************************************)
Found(d) == IF d \in inuse THEN 1 ELSE 0
UnboundIsClean ==
  \A d \in Devices \ bound :
    work.dev # d =>
      /\ enables[d] = Found(d) + leaked[d]
      /\ regions[d] = IF d \in inuse THEN "other" ELSE "free"
      /\ \A k \in BarIndexes : <<d, k>> \notin iomaps

(* After rmmod nothing of the module is left in the kernel: no callback    *)
(* into freed code, no open file, no bound device.                         *)
CleanUnload ==
  mod = "unloaded" =>
    /\ ~drv /\ chr = {} /\ ~class /\ nodes = {} /\ bound = {}
    /\ Unused

(* insmod and rmmod come to an end.                                        *)
LoadSettles == mod \in {"init", "exit"} ~> mod \in {"live", "failed", "unloaded"}
=============================================================================
