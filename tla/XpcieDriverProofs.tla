-------------------------- MODULE XpcieDriverProofs --------------------------
(***************************************************************************)
(* Theorems about XpcieDriver: for any number of devices and processes,    *)
(* what probe() and remove() take and give back, what is left after rmmod, *)
(* and that accesses stay within mapped BARs; for one device, that bar[]   *)
(* knows every mapped BAR.                                                 *)
(***************************************************************************)
EXTENDS XpcieDriver, TLAPS

InitAt == {"register_driver", "probing"} \cup Names \cup {"class", "nodes"}
ExitAt == {"device_destroy", "unregister_chrdev", "unregister_driver",
           "removing"}
Works  == [op : {"none", "probe", "remove"}, dev : Devices \cup {NULL},
           step : {"none", "enable", "regions", "map", "unmap", "release"}]

TypeOK ==
  /\ calm \in BOOLEAN /\ drv \in BOOLEAN /\ class \in BOOLEAN
  /\ mod \in {"unloaded", "init", "live", "exit", "failed"}
  /\ at \in InitAt \cup ExitAt \cup {"none"}
  /\ chr \subseteq Names
  /\ present \subseteq Devices /\ bound \subseteq Devices
  /\ inuse \subseteq Devices /\ pending \subseteq Devices
  /\ enables \in [Devices -> Nat] /\ leaked \in [Devices -> Nat]
  /\ regions \in [Devices -> {"free", "ours", "other"}]
  /\ work \in Works
  /\ file \in [Users -> Names \cup {"closed", "write"}]
  /\ vma \in [Users -> (Devices \X BarIndexes) \cup {NULL}]

(* Where the module is in xpcie_init() and xpcie_exit(), and what is       *)
(* registered there.                                                       *)
Control ==
  /\ mod = "init" <=> at \in InitAt
  /\ mod = "exit" <=> at \in ExitAt
  /\ mod = "live" => drv
  /\ mod = "unloaded" => ~drv
  /\ at \in InitAt \cup ExitAt =>
       (drv <=> at \notin {"register_driver", "removing"})

Registered ==
  /\ mod = "unloaded" \/ at \in {"register_driver", "probing",
                                 "unregister_driver", "removing"} => chr = {}
  /\ mod = "unloaded" \/ at \in {"unregister_chrdev", "unregister_driver",
                                 "removing"} => ~class /\ nodes = {}

(* The PCI core probes what is present and not bound, and removes what is  *)
(* bound, one device at a time.                                            *)
OneAtATime ==
  \/ work = NoWork
  \/ /\ work.op = "probe" /\ work.step \in {"enable", "regions", "map"}
     /\ work.dev \in present \ bound
  \/ /\ work.op = "remove" /\ work.step \in {"unmap", "release"}
     /\ work.dev \in bound

Removing(d) == work.op = "remove" /\ work.dev = d

Attached ==
  /\ OneAtATime
  /\ inuse \subseteq present
  /\ \A d \in bound : d \in present \/ Removing(d)
  /\ ~drv /\ at # "removing" => bound = {} /\ work = NoWork
  /\ at = "probing" =>
       /\ pending \subseteq present \ bound
       /\ work.op # "remove" /\ work.dev \notin pending
  /\ at = "removing" =>
       /\ work.op # "probe" /\ pending \subseteq bound /\ work.dev \notin pending
       /\ \A d \in bound : d \in pending \/ Removing(d)

(* The books on each device: who has its regions, how often it is enabled. *)
Probing(d, steps) == work.op = "probe" /\ work.dev = d /\ work.step \in steps
Held(d) == IF d \in bound \/ Probing(d, {"regions", "map"}) THEN 1 ELSE 0
Accounts ==
  \A d \in Devices :
    /\ regions[d] = "other" <=> d \in inuse
    /\ regions[d] = "ours" <=> d \in bound \/ Probing(d, {"map"})
    /\ enables[d] = Found(d) + leaked[d] + Held(d)

(* No process has a file or a mapping before the character devices are     *)
(* registered, or once rmmod was let through.                              *)
Quiet ==
  mod \in {"unloaded", "exit"} \/ at \in {"register_driver", "probing"} => Unused

IInv == TypeOK /\ Control /\ Registered /\ Attached /\ Accounts /\ Quiet

(* While kernel services do not fail and devices stay, every device is     *)
(* bound once pci_register_driver() has returned, and the globals lead to  *)
(* one of them.                                                            *)
Settled ==
  \/ at \in Names \cup {"class", "nodes"} \/ mod = "live"
  \/ at \in {"device_destroy", "unregister_chrdev", "unregister_driver"}
Calm ==
  calm =>
    /\ inuse = {} /\ present = Devices /\ mod # "failed"
    /\ at = "probing" =>
         \A d \in Devices : d \in bound \/ d \in pending \/ work.dev = d
    /\ Settled => bound = Devices /\ work = NoWork
    /\ (\E d \in Devices : d \in bound \/ Probing(d, {"regions", "map"})) =>
         xpcie_dev \in Devices
    /\ bound # {} /\ at # "removing" => engine_regs \in iomaps
    /\ access # "fault" \/ Devices = {}

(* With one device, bar[] is what is mapped, and empty unless it is bound. *)
NoBars == bar = [k \in BarIndexes |-> NULL]
OneDevice == \E d : Devices = {d}
One ==
  /\ BarsKnown
  /\ bound = {} \/ (work.op = "remove" /\ work.step = "release") => NoBars
-----------------------------------------------------------------------------
(* The first states satisfy the invariant.                                 *)
LEMMA InitIInv == Init => IInv
  <1> SUFFICES ASSUME Init
               PROVE  IInv
    OBVIOUS
  <1>1. TypeOK
    BY DEF Init, TypeOK, InitAt, ExitAt, Works, NoWork, Names
  <1>2. Control /\ Registered /\ Attached /\ Quiet
    BY DEF Init, Control, Registered, Attached, OneAtATime, Quiet, Unused,
       InitAt, ExitAt, Names
  <1>3. Accounts
    BY DEF Init, Accounts, Probing, NoWork, Found, Held
  <1> QED
    BY <1>1, <1>2, <1>3 DEF IInv

(* The books do not depend on what xpcie_init() and xpcie_exit() register. *)
LEMMA AccountsKept ==
  ASSUME IInv, UNCHANGED <<bound, inuse, enables, leaked, regions, work>>
  PROVE  Accounts'
  BY DEF IInv, Accounts, Probing, Found, Held

(* The steps of xpcie_init().                                              *)
LEMMA InitSteps ==
  ASSUME IInv,
         \/ Load \/ RegisterDriver \/ Probed \/ RegisterChrdev
         \/ ClassCreate \/ DeviceCreate
  PROVE  IInv'
  <1> USE DEF IInv, device, user, globals
  <1>1. CASE Load
    <2>1. TypeOK' /\ Control' /\ Registered'
      BY <1>1 DEF Load, TypeOK, Control, Registered, InitAt, ExitAt, Names
    <2>2. Attached' /\ Quiet'
      BY <1>1 DEF Load, Control, Attached, OneAtATime, Removing, Quiet, Unused,
         InitAt, ExitAt
    <2> QED
      BY <1>1, <2>1, <2>2, AccountsKept DEF Load
  <1>2. CASE RegisterDriver
    <2>1. UNCHANGED <<calm, chr, class, nodes, present, bound, inuse, enables,
                      leaked, regions, work, file, vma>>
      BY <1>2 DEF RegisterDriver, InitFails
    <2>2. TypeOK' /\ Control' /\ Registered'
      BY <1>2, <2>1 DEF RegisterDriver, InitFails, TypeOK, Control, Registered,
         InitAt, ExitAt, Names
    <2>3. Attached' /\ Quiet'
      BY <1>2, <2>1, DriverAssumption DEF RegisterDriver, InitFails, Control,
         Attached, OneAtATime, Removing, Quiet, Unused, NoWork, TypeOK, InitAt
    <2> QED
      BY <2>1, <2>2, <2>3, AccountsKept
  <1>3. CASE Probed
    <2>1. TypeOK' /\ Control' /\ Registered'
      BY <1>3 DEF Probed, TypeOK, Control, Registered, InitAt, ExitAt, Names
    <2>2. Attached' /\ Quiet'
      BY <1>3 DEF Probed, Control, Attached, OneAtATime, Removing, Quiet, Unused,
         InitAt
    <2> QED
      BY <1>3, <2>1, <2>2, AccountsKept DEF Probed
  <1>4. CASE RegisterChrdev
    <2>1. UNCHANGED <<calm, drv, class, nodes, present, bound, inuse, enables,
                      leaked, regions, work, pending, file, vma>>
      BY <1>4 DEF RegisterChrdev, InitFails
    <2>2. at \in Names /\ AfterChrdev[at] \in {"h2c", "c2h", "class"}
      BY <1>4 DEF RegisterChrdev, AfterChrdev, Names
    <2>3. TypeOK' /\ Control' /\ Registered'
      <3>1. CASE InitFails
        BY <2>1, <2>2, <3>1 DEF InitFails, TypeOK, Control, Registered, InitAt,
           ExitAt, Names
      <3>2. CASE chr' = chr \cup {at} /\ at' = AfterChrdev[at] /\ mod' = mod
        BY <2>1, <2>2, <3>2 DEF TypeOK, Control, Registered, InitAt, ExitAt,
           Names
      <3> QED
        BY <1>4, <3>1, <3>2 DEF RegisterChrdev
    <2>4. Attached' /\ Quiet'
      BY <1>4, <2>1, <2>2 DEF RegisterChrdev, InitFails, Control, Attached,
         OneAtATime, Removing, Quiet, Unused, InitAt, ExitAt, Names
    <2> QED
      BY <2>1, <2>3, <2>4, AccountsKept
  <1>5. CASE ClassCreate
    <2>1. UNCHANGED <<calm, drv, chr, nodes, present, bound, inuse, enables,
                      leaked, regions, work, pending, file, vma>>
      BY <1>5 DEF ClassCreate, InitFails
    <2>2. TypeOK' /\ Control' /\ Registered'
      BY <1>5, <2>1 DEF ClassCreate, InitFails, TypeOK, Control, Registered,
         InitAt, ExitAt, Names
    <2>3. Attached' /\ Quiet'
      BY <1>5, <2>1 DEF ClassCreate, InitFails, Control, Attached, OneAtATime,
         Removing, Quiet, Unused, InitAt, ExitAt, Names
    <2> QED
      BY <2>1, <2>2, <2>3, AccountsKept
  <1>6. CASE DeviceCreate
    <2>1. TypeOK' /\ Control' /\ Registered'
      BY <1>6 DEF DeviceCreate, TypeOK, Control, Registered, InitAt, ExitAt,
         Names
    <2>2. Attached' /\ Quiet'
      BY <1>6 DEF DeviceCreate, Control, Attached, OneAtATime, Removing, Quiet,
         Unused, InitAt, ExitAt, Names
    <2> QED
      BY <1>6, <2>1, <2>2, AccountsKept DEF DeviceCreate
  <1> QED
    BY <1>1, <1>2, <1>3, <1>4, <1>5, <1>6

(* The steps of xpcie_exit().                                              *)
LEMMA ExitSteps ==
  ASSUME IInv,
         \/ Unload \/ DeviceDestroy \/ UnregisterChrdev \/ UnregisterDriver
         \/ Unloaded
  PROVE  IInv'
  <1> USE DEF IInv, device, user, globals
  <1>1. CASE Unload
    <2>1. TypeOK' /\ Control' /\ Registered'
      BY <1>1 DEF Unload, TypeOK, Control, Registered, InitAt, ExitAt, Names
    <2>2. Attached' /\ Quiet'
      BY <1>1 DEF Unload, Control, Attached, OneAtATime, Removing, Quiet, Unused
    <2> QED
      BY <1>1, <2>1, <2>2, AccountsKept DEF Unload
  <1>2. CASE DeviceDestroy
    <2>1. TypeOK' /\ Control' /\ Registered'
      BY <1>2 DEF DeviceDestroy, TypeOK, Control, Registered, InitAt, ExitAt,
         Names
    <2>2. Attached' /\ Quiet'
      BY <1>2 DEF DeviceDestroy, Control, Attached, OneAtATime, Removing, Quiet,
         Unused, InitAt, ExitAt
    <2> QED
      BY <1>2, <2>1, <2>2, AccountsKept DEF DeviceDestroy
  <1>3. CASE UnregisterChrdev
    <2>1. TypeOK' /\ Control' /\ Registered'
      BY <1>3 DEF UnregisterChrdev, TypeOK, Control, Registered, InitAt, ExitAt,
         Names
    <2>2. Attached' /\ Quiet'
      BY <1>3 DEF UnregisterChrdev, Control, Attached, OneAtATime, Removing,
         Quiet, Unused, InitAt, ExitAt
    <2> QED
      BY <1>3, <2>1, <2>2, AccountsKept DEF UnregisterChrdev
  <1>4. CASE UnregisterDriver
    <2>1. TypeOK' /\ Control' /\ Registered'
      BY <1>4 DEF UnregisterDriver, TypeOK, Control, Registered, InitAt, ExitAt,
         Names
    <2>2. Attached' /\ Quiet'
      BY <1>4, DriverAssumption DEF UnregisterDriver, Control, Attached,
         OneAtATime, Removing, Quiet, Unused, InitAt, ExitAt, NoWork, TypeOK
    <2> QED
      BY <1>4, <2>1, <2>2, AccountsKept DEF UnregisterDriver
  <1>5. CASE Unloaded
    <2>1. TypeOK' /\ Control' /\ Registered'
      BY <1>5 DEF Unloaded, TypeOK, Control, Registered, InitAt, ExitAt, Names
    <2>2. Attached' /\ Quiet'
      BY <1>5 DEF Unloaded, Control, Attached, OneAtATime, Removing, Quiet,
         Unused, InitAt, ExitAt, NoWork
    <2> QED
      BY <1>5, <2>1, <2>2, AccountsKept DEF Unloaded
  <1> QED
    BY <1>1, <1>2, <1>3, <1>4, <1>5

(* What the PCI core does, and what users do, changes nothing of what is   *)
(* registered.                                                             *)
LEMMA ModuleKept ==
  ASSUME IInv, UNCHANGED module
  PROVE  Control' /\ Registered'
  BY DEF IInv, module, Control, Registered

(* What the PCI core does gives no user anything while the module is out.  *)
LEMMA QuietKept ==
  ASSUME IInv, UNCHANGED module, UNCHANGED user
  PROVE  Quiet'
  BY DEF IInv, module, user, Quiet, Unused

(* The steps of the PCI core.                                              *)
LEMMA PciSteps ==
  ASSUME IInv, PciCore
  PROVE  IInv'
  <1> USE DEF IInv
  <1>1. UNCHANGED module /\ UNCHANGED user
    BY DEF PciCore, StartProbe, StartRemove, ProbeEnable, ProbeRegions,
       ProbeMap, RemoveUnmap, RemoveRelease
  <1>2. Control' /\ Registered' /\ Quiet'
    BY <1>1, ModuleKept, QuietKept
  <1>3. UNCHANGED <<calm, mod, at, drv, chr, class, nodes, file, vma, access>>
    BY <1>1 DEF module, user
  <1> USE DEF Works, NoWork, Working, Then
  <1>4. ASSUME NEW d \in Devices, StartProbe(d)
        PROVE  IInv'
    <2>1. /\ at = "probing" /\ d \in pending /\ work = NoWork
          /\ pending' = pending \ {d}
          /\ work' = [op |-> "probe", dev |-> d, step |-> "enable"]
          /\ UNCHANGED <<present, bound, inuse, enables, leaked, regions>>
      BY <1>4 DEF StartProbe, device
    <2>2. TypeOK'
      BY <1>3, <2>1 DEF TypeOK
    <2>3. Attached'
      BY <1>3, <2>1 DEF Attached, OneAtATime, Removing, TypeOK, Control, InitAt
    <2>4. Accounts'
      BY <2>1 DEF Accounts, Probing, Found, Held
    <2> QED
      BY <1>2, <2>2, <2>3, <2>4
  <1>5. ASSUME NEW d \in Devices, StartRemove(d)
        PROVE  IInv'
    <2>1. /\ at = "removing" /\ d \in pending /\ work = NoWork
          /\ pending' = pending \ {d}
          /\ work' = [op |-> "remove", dev |-> d, step |-> "unmap"]
          /\ UNCHANGED <<present, bound, inuse, enables, leaked, regions>>
      BY <1>5 DEF StartRemove, device
    <2>2. TypeOK'
      BY <1>3, <2>1 DEF TypeOK
    <2>3. Attached'
      BY <1>3, <2>1 DEF Attached, OneAtATime, Removing, TypeOK
    <2>4. Accounts'
      BY <2>1 DEF Accounts, Probing, Found, Held
    <2> QED
      BY <1>2, <2>2, <2>3, <2>4
  <1>6. CASE ProbeEnable
    <2>1. /\ work.op = "probe" /\ work.step = "enable"
          /\ UNCHANGED <<present, bound, inuse, leaked, regions, pending>>
          /\ \/ work' = NoWork /\ UNCHANGED enables
             \/ /\ enables' = [enables EXCEPT ![work.dev] = @ + 1]
                /\ work' = [work EXCEPT !.step = "regions"]
      BY <1>6 DEF ProbeEnable
    <2>2. work.dev \in present \ bound /\ work.dev \in Devices
      BY <2>1 DEF Attached, OneAtATime, TypeOK
    <2>3. TypeOK'
      BY <1>3, <2>1, <2>2 DEF TypeOK
    <2>4. Attached'
      BY <1>3, <2>1, <2>2, DriverAssumption DEF Attached, OneAtATime, Removing,
         TypeOK
    <2>5. Accounts'
      BY <2>1, <2>2 DEF Accounts, Probing, Found, Held, TypeOK
    <2> QED
      BY <1>2, <2>3, <2>4, <2>5
  <1>7. CASE ProbeRegions
    <2>1. /\ work.op = "probe" /\ work.step = "regions"
          /\ UNCHANGED <<present, bound, inuse, enables, pending>>
          /\ \/ /\ regions[work.dev] = "free"
                /\ regions' = [regions EXCEPT ![work.dev] = "ours"]
                /\ work' = [work EXCEPT !.step = "map"]
                /\ UNCHANGED leaked
             \/ /\ leaked' = [leaked EXCEPT ![work.dev] = @ + 1]
                /\ work' = NoWork /\ UNCHANGED regions
      BY <1>7 DEF ProbeRegions
    <2>2. work.dev \in present \ bound /\ work.dev \in Devices
      BY <2>1 DEF Attached, OneAtATime, TypeOK
    <2>3. TypeOK'
      BY <1>3, <2>1, <2>2 DEF TypeOK
    <2>4. Attached'
      BY <1>3, <2>1, <2>2, DriverAssumption DEF Attached, OneAtATime, Removing,
         TypeOK
    <2>5. Accounts'
      BY <2>1, <2>2 DEF Accounts, Probing, Found, Held, TypeOK
    <2> QED
      BY <1>2, <2>3, <2>4, <2>5
  <1>8. CASE ProbeMap
    <2>1. /\ work.op = "probe" /\ work.step = "map" /\ work' = NoWork
          /\ bound' = bound \cup {work.dev}
          /\ UNCHANGED <<present, inuse, enables, leaked, regions, pending>>
      BY <1>8 DEF ProbeMap
    <2>2. work.dev \in present \ bound /\ work.dev \in Devices
      BY <2>1 DEF Attached, OneAtATime, TypeOK
    <2>3. TypeOK'
      BY <1>3, <2>1, <2>2 DEF TypeOK
    <2>4. Attached'
      BY <1>3, <2>1, <2>2, DriverAssumption DEF Attached, OneAtATime, Removing,
         TypeOK
    <2>5. Accounts'
      BY <2>1, <2>2 DEF Accounts, Probing, Found, Held, TypeOK
    <2> QED
      BY <1>2, <2>3, <2>4, <2>5
  <1>9. CASE RemoveUnmap
    <2>1. /\ work.op = "remove" /\ work.step = "unmap"
          /\ work' = [work EXCEPT !.step = "release"]
          /\ UNCHANGED <<present, bound, inuse, enables, leaked, regions, pending>>
      BY <1>9 DEF RemoveUnmap
    <2>2. work.dev \in bound
      BY <2>1 DEF Attached, OneAtATime
    <2>3. TypeOK'
      BY <1>3, <2>1 DEF TypeOK
    <2>4. Attached'
      BY <1>3, <2>1, <2>2 DEF Attached, OneAtATime, Removing, TypeOK
    <2>5. Accounts'
      BY <2>1, <2>2 DEF Accounts, Probing, Found, Held, TypeOK
    <2> QED
      BY <1>2, <2>3, <2>4, <2>5
  <1>10. CASE RemoveRelease
    <2>1. /\ work.op = "remove" /\ work.step = "release" /\ work' = NoWork
          /\ regions' = [regions EXCEPT ![work.dev] = "free"]
          /\ enables' = [enables EXCEPT ![work.dev] = @ - 1]
          /\ bound' = bound \ {work.dev}
          /\ UNCHANGED <<present, inuse, leaked, pending>>
      BY <1>10 DEF RemoveRelease
    <2>2. work.dev \in bound /\ work.dev \in Devices
      BY <2>1 DEF Attached, OneAtATime, TypeOK
    <2>3. regions[work.dev] = "ours" /\ work.dev \notin inuse
          /\ enables[work.dev] = leaked[work.dev] + 1
      BY <2>2 DEF Accounts, Found, Held, TypeOK
    <2>4. TypeOK'
      BY <1>3, <2>1, <2>2, <2>3 DEF TypeOK
    <2>5. Attached'
      BY <1>3, <2>1, <2>2, DriverAssumption DEF Attached, OneAtATime, Removing,
         TypeOK
    <2>6. Accounts'
      BY <2>1, <2>2, <2>3 DEF Accounts, Probing, Found, Held, TypeOK
    <2> QED
      BY <1>2, <2>4, <2>5, <2>6
  <1> QED
    BY <1>4, <1>5, <1>6, <1>7, <1>8, <1>9, <1>10 DEF PciCore

(* A device is plugged in or pulled out.                                   *)
LEMMA HotplugSteps ==
  ASSUME IInv, NEW d \in Devices, Plug(d) \/ Unplug(d)
  PROVE  IInv'
  <1> USE DEF IInv
  <1>1. UNCHANGED module /\ UNCHANGED user
    BY DEF Plug, Unplug
  <1>2. Control' /\ Registered' /\ Quiet'
    BY <1>1, ModuleKept, QuietKept
  <1>3. UNCHANGED <<calm, mod, at, drv, chr, class, nodes, file, vma, access>>
    BY <1>1 DEF module, user
  <1>4. /\ work = NoWork /\ at \notin {"probing", "removing"}
        /\ UNCHANGED <<bound, inuse, regions, pending>>
    BY DEF Plug, Unplug
  <1> USE DEF Works, NoWork
  <1>5. CASE Plug(d)
    <2>1. /\ d \notin present /\ present' = present \cup {d}
          /\ enables' = [enables EXCEPT ![d] = 0]
          /\ leaked' = [leaked EXCEPT ![d] = 0]
          /\ work' = IF drv THEN [op |-> "probe", dev |-> d, step |-> "enable"]
                            ELSE NoWork
      BY <1>5 DEF Plug
    <2>2. d \notin bound /\ d \notin inuse
      BY <1>4, <2>1 DEF Attached, Removing
    <2>3. TypeOK'
      BY <1>3, <1>4, <2>1 DEF TypeOK
    <2>4. Attached'
      BY <1>3, <1>4, <2>1, <2>2 DEF Attached, OneAtATime, Removing, TypeOK
    <2>5. Accounts'
      BY <1>4, <2>1, <2>2 DEF Accounts, Probing, Found, Held, TypeOK
    <2> QED
      BY <1>2, <2>3, <2>4, <2>5
  <1>6. CASE Unplug(d)
    <2>1. /\ present' = present \ {d} /\ d \notin inuse
          /\ UNCHANGED <<enables, leaked>>
          /\ work' = IF d \in bound
                       THEN [op |-> "remove", dev |-> d, step |-> "unmap"]
                       ELSE NoWork
      BY <1>6 DEF Unplug
    <2>3. TypeOK'
      BY <1>3, <1>4, <2>1 DEF TypeOK
    <2>4. Attached'
      BY <1>3, <1>4, <2>1 DEF Attached, OneAtATime, Removing, TypeOK
    <2>5. Accounts'
      BY <1>4, <2>1 DEF Accounts, Probing, Found, Held
    <2> QED
      BY <1>2, <2>3, <2>4, <2>5
  <1> QED
    BY <1>5, <1>6

(* What the processes do with their files and mappings.                    *)
UserStep(u) ==
  \/ \E name \in Names : Open(u, name)
  \/ Close(u) \/ Write(u) \/ Register(u) \/ WriteReturns(u)
  \/ Mmap(u) \/ Touch(u) \/ Munmap(u)

(* The steps of the processes.                                             *)
LEMMA UserSteps ==
  ASSUME IInv, NEW u \in Users, UserStep(u)
  PROVE  IInv'
  <1> USE DEF IInv
  <1>1. UNCHANGED module /\ UNCHANGED <<device, work, pending, globals>>
    BY DEF UserStep, Open, Close, Write, Register, WriteReturns, Mmap, Touch,
       Munmap
  <1>2. UNCHANGED <<calm, mod, at, drv, chr, class, nodes, present, bound, inuse,
                    enables, leaked, regions, iomaps, work, pending, xpcie_dev, bar,
                    engine_regs>>
    BY <1>1 DEF module, device, globals
  <1>3. Control' /\ Registered'
    BY <1>1, ModuleKept
  <1>4. Attached' /\ Accounts'
    BY <1>2, AccountsKept DEF Attached, OneAtATime, Removing
  <1>5. /\ file' \in [Users -> Names \cup {"closed", "write"}]
        /\ vma' \in [Users -> (Devices \X BarIndexes) \cup {NULL}]
    <2>1. CASE Mmap(u)
      <3>1. file[u] \in {"user", "h2c"} /\ UNCHANGED file
        BY <2>1 DEF Mmap, BarOf
      <3>2. BarOf[file[u]] \in BarIndexes
        BY <3>1 DEF BarOf, BarIndexes
      <3>3. \/ UNCHANGED vma
            \/ /\ xpcie_dev \in present
               /\ vma' = [vma EXCEPT ![u] = <<xpcie_dev, BarOf[file[u]]>>]
        BY <2>1 DEF Mmap
      <3>4. xpcie_dev \in present => xpcie_dev \in Devices
        BY DEF TypeOK
      <3> HIDE DEF BarOf
      <3> QED
        BY <3>1, <3>2, <3>3, <3>4 DEF TypeOK
    <2>2. CASE ~Mmap(u)
      BY <2>2 DEF UserStep, Open, Close, Write, Register, WriteReturns, Touch,
         Munmap, TypeOK, Names
    <2> QED
      BY <2>1, <2>2
  <1>6. TypeOK'
    BY <1>2, <1>5 DEF TypeOK
  <1>7. Quiet'
    <2> SUFFICES ASSUME \/ mod \in {"unloaded", "exit"}
                        \/ at \in {"register_driver", "probing"}
                 PROVE  Unused'
      BY <1>2 DEF Quiet
    <2>1. Unused /\ file[u] = "closed" /\ vma[u] = NULL
      BY DEF Quiet, Unused
    <2>2. ~\E name \in Names : Open(u, name)
      BY DEF Open, Registered, Control
    <2> QED
      BY <2>1, <2>2 DEF UserStep, Close, Write, Register, WriteReturns, Mmap,
         Touch, Munmap, BarOf, Names
  <1> QED
    BY <1>3, <1>4, <1>6, <1>7

(* Every step keeps the invariant.                                         *)
LEMMA StepIInv == IInv /\ [Next]_vars => IInv'
  <1> SUFFICES ASSUME IInv, [Next]_vars
               PROVE  IInv'
    OBVIOUS
  <1>1. CASE UNCHANGED vars
    BY <1>1 DEF vars, module, device, globals, user, IInv, TypeOK, Control,
       Registered, Attached, OneAtATime, Removing, Accounts, Probing, Found, Held,
       Quiet, Unused
  <1>2. CASE Next
    BY <1>2, InitSteps, ExitSteps, PciSteps, HotplugSteps, UserSteps
       DEF Next, Loader, UserStep
  <1> QED
    BY <1>1, <1>2

(* The invariant holds through every load and unload.                      *)
THEOREM Invariance == Spec => []IInv
  BY InitIInv, StepIInv, PTL DEF Spec

(* A device another driver uses keeps its regions and stays enabled, and   *)
(* this driver is never bound to it, with any number of devices.           *)
THEOREM InUseStaysUntouched == Spec => []InUseUntouched
  <1>1. IInv => InUseUntouched
    BY DEF IInv, TypeOK, Accounts, Found, Held, InUseUntouched
  <1> QED
    BY <1>1, Invariance, PTL

(* After rmmod no registration, file, mapping or bound device is left,     *)
(* whatever was plugged in or pulled out, and wherever probe() failed.     *)
THEOREM UnloadIsClean == Spec => []CleanUnload
  <1>1. IInv => CleanUnload
    BY DEF IInv, Control, Registered, Attached, Quiet, CleanUnload, ExitAt
  <1> QED
    BY <1>1, Invariance, PTL

(* The books of a device: its regions are its owner's while it is in use,  *)
(* and the driver's from request_regions() to remove(); it is enabled once *)
(* by its owner, once by the driver from pci_enable_device() to remove(),  *)
(* and once more for each probe() that failed in request_regions().        *)
Balanced ==
  \A d \in Devices :
    /\ regions[d] = IF d \in inuse THEN "other"
                    ELSE IF d \in bound \/ Probing(d, {"map"}) THEN "ours"
                    ELSE "free"
    /\ enables[d] = Found(d) + leaked[d] + Held(d)

(* For any number of devices the books balance at every step of probe()    *)
(* and remove() and on every error path; only request_regions() failing    *)
(* leaves something behind, and then exactly one enable.                   *)
THEOREM BooksBalance == Spec => []Balanced
  <1>1. IInv => Balanced
    BY DEF IInv, TypeOK, Accounts, Balanced
  <1> QED
    BY <1>1, Invariance, PTL
-----------------------------------------------------------------------------
(* bar[] and the mapped BARs change in probe() and remove() only, and with *)
(* each load of the module.                                                *)
LEMMA BarsKept ==
  ASSUME [Next]_vars, ~Load, ~PciCore
  PROVE  UNCHANGED <<bar, iomaps, bound>>
  BY DEF Next, Loader, vars, device, globals, RegisterDriver, Probed,
     RegisterChrdev, ClassCreate, DeviceCreate, Unload, DeviceDestroy,
     UnregisterChrdev, UnregisterDriver, Unloaded, Plug, Unplug, Open, Close,
     Write, Register, WriteReturns, Mmap, Touch, Munmap

(* With one device, every step keeps bar[] in accord with what is mapped.  *)
LEMMA StepOne ==
  ASSUME OneDevice, IInv, One, [Next]_vars
  PROVE  One'
  <1>1. PICK d0 : Devices = {d0}
    BY DEF OneDevice
  <1>2. CASE Load
    <2>1. /\ UNCHANGED <<iomaps, bound, work>> /\ NoBars'
          /\ mod = "unloaded"
      BY <1>2 DEF Load, device, NoBars
    <2>2. bound = {}
      BY <2>1 DEF IInv, Control, Attached, ExitAt
    <2>3. NoBars
      BY <2>2 DEF One
    <2> QED
      BY <2>1, <2>3 DEF One, BarsKnown, NoBars
  <1>3. CASE PciCore
    <2>1. CASE \E d \in Devices : StartProbe(d) \/ StartRemove(d)
      <3>1. UNCHANGED <<bar, iomaps, bound>> /\ work'.step # "release"
        BY <2>1 DEF StartProbe, StartRemove, device, globals
      <3> QED
        BY <3>1 DEF One, BarsKnown, NoBars
    <2>2. CASE ProbeEnable \/ ProbeRegions
      <3>1. UNCHANGED <<bar, iomaps, bound>> /\ work'.op # "remove"
        BY <2>2 DEF ProbeEnable, ProbeRegions, globals, Working, Then, NoWork,
           IInv, TypeOK, Works
      <3> QED
        BY <3>1 DEF One, BarsKnown, NoBars
    <2>3. CASE ProbeMap
      <3>1. PICK got \in [BarIndexes -> {"mapped", "absent", "failed"}] :
              /\ bar' = [k \in BarIndexes |-> MapSingleBar(k, got[k])]
              /\ iomaps' = iomaps \cup
                   {<<work.dev, k>> : k \in {x \in BarIndexes : got[x] = "mapped"}}
        BY <2>3 DEF ProbeMap
      <3>2. /\ work.op = "probe" /\ work' = NoWork
            /\ bound' = bound \cup {work.dev}
        BY <2>3 DEF ProbeMap, Working
      <3>3. work.dev = d0 /\ bound = {} /\ bound' # {}
        BY <1>1, <3>2 DEF IInv, TypeOK, Attached, OneAtATime, NoWork
      <3>4. NoBars /\ iomaps = {}
        BY <3>3 DEF One, BarsKnown, NoBars
      <3>5. \A k \in BarIndexes :
              bar'[k] = IF got[k] = "mapped" THEN <<d0, k>> ELSE NULL
        BY <3>1, <3>3, <3>4 DEF MapSingleBar, NoBars
      <3>6. \A k \in BarIndexes : <<d0, k>> # NULL
        BY <1>1, DriverAssumption
      <3>7. iomaps' = {bar'[k] : k \in BarIndexes} \ {NULL}
        BY <3>1, <3>3, <3>4, <3>5, <3>6
      <3> QED
        BY <3>2, <3>3, <3>7 DEF One, BarsKnown, NoWork
    <2>4. CASE RemoveUnmap
      <3>1. iomaps' = iomaps \ {bar[k] : k \in BarIndexes} /\ NoBars'
        BY <2>4 DEF RemoveUnmap, NoBars
      <3>2. iomaps' = {}
        BY <3>1 DEF One, BarsKnown
      <3> QED
        BY <3>1, <3>2 DEF One, BarsKnown, NoBars
    <2>5. CASE RemoveRelease
      <3>1. UNCHANGED <<bar, iomaps>> /\ NoBars
        BY <2>5 DEF RemoveRelease, globals, Working, One
      <3> QED
        BY <3>1 DEF One, BarsKnown, NoBars
    <2> QED
      BY <1>3, <2>1, <2>2, <2>3, <2>4, <2>5 DEF PciCore
  <1>4. CASE ~Load /\ ~PciCore
    <2>1. UNCHANGED <<bar, iomaps, bound>>
      BY <1>4, BarsKept
    <2>2. UNCHANGED work \/ work'.step # "release"
      BY <1>4 DEF Next, Loader, vars, device, RegisterDriver, Probed,
         RegisterChrdev, ClassCreate, DeviceCreate, Unload, DeviceDestroy,
         UnregisterChrdev, UnregisterDriver, Unloaded, Plug, Unplug, Open,
         Close, Write, Register, WriteReturns, Mmap, Touch, Munmap, NoWork
    <2> QED
      BY <2>1, <2>2 DEF One, BarsKnown, NoBars
  <1> QED
    BY <1>2, <1>3, <1>4

(* With one device bar[] holds exactly the mapped BARs, so unmap_bars()    *)
(* unmaps all of them, once; with two it does not.                         *)
THEOREM OneDeviceBarsKnown == OneDevice => (Spec => []BarsKnown)
  <1> SUFFICES ASSUME OneDevice
               PROVE  Spec => []BarsKnown
    OBVIOUS
  <1>1. Init => One
    BY DEF Init, One, BarsKnown, NoBars
  <1>2. IInv /\ One /\ [Next]_vars => One'
    BY StepOne
  <1>3. One => BarsKnown
    BY DEF One
  <1> QED
    BY <1>1, <1>2, <1>3, Invariance, PTL DEF Spec

(* With one device, all that probe() took remove() gave back, its mapped   *)
(* BARs included; a failed request_regions() leaves one enable and no more.*)
THEOREM OneDeviceIsClean == OneDevice => (Spec => []UnboundIsClean)
  <1> SUFFICES ASSUME OneDevice
               PROVE  Spec => []UnboundIsClean
    OBVIOUS
  <1>1. Init => One
    BY DEF Init, One, BarsKnown, NoBars
  <1>2. IInv /\ One /\ [Next]_vars => One'
    BY StepOne
  <1>3. IInv /\ One => UnboundIsClean
    <2> SUFFICES ASSUME IInv, One, NEW d \in Devices \ bound, work.dev # d
                 PROVE  /\ enables[d] = Found(d) + leaked[d]
                        /\ regions[d] = IF d \in inuse THEN "other" ELSE "free"
                        /\ \A k \in BarIndexes : <<d, k>> \notin iomaps
      BY DEF UnboundIsClean
    <2>1. /\ enables[d] = Found(d) + leaked[d]
          /\ regions[d] = IF d \in inuse THEN "other" ELSE "free"
      BY DEF IInv, TypeOK, Accounts, Probing, Found, Held
    <2>2. bound = {}
      BY DEF OneDevice, IInv, TypeOK
    <2>3. iomaps = {}
      BY <2>2 DEF One, BarsKnown, NoBars
    <2> QED
      BY <2>1, <2>3
  <1> QED
    BY <1>1, <1>2, <1>3, Invariance, PTL DEF Spec
-----------------------------------------------------------------------------
(* While nothing fails, xpcie_init() gets to "live" with every device      *)
(* bound.                                                                  *)
LEMMA CalmInitSteps ==
  ASSUME IInv, Calm, calm,
         \/ Load \/ RegisterDriver \/ Probed \/ RegisterChrdev
         \/ ClassCreate \/ DeviceCreate
  PROVE  Calm'
  <1> USE DEF device, user, globals
  <1>1. CASE Load
    <2>1. /\ mod = "unloaded" /\ mod' = "init" /\ at' = "register_driver"
          /\ UNCHANGED <<calm, present, bound, inuse, iomaps, work, access>>
      BY <1>1 DEF Load
    <2>2. bound = {} /\ work = NoWork
      BY <2>1 DEF IInv, Control, Attached, ExitAt
    <2> QED
      BY <2>1, <2>2 DEF Calm, Settled, Probing, NoWork, Names
  <1>2. CASE RegisterDriver
    <2>1. /\ at = "register_driver" /\ at' = "probing" /\ pending' = present
          /\ mod' = mod
          /\ UNCHANGED <<calm, present, bound, inuse, iomaps, work, access,
                         xpcie_dev, engine_regs>>
      BY <1>2 DEF RegisterDriver, Fails
    <2>2. mod = "init"
      BY <2>1 DEF IInv, Control, InitAt
    <2> QED
      BY <2>1, <2>2 DEF Calm, Settled, Probing, Names
  <1>3. CASE Probed
    <2>1. /\ at = "probing" /\ at' = "user" /\ pending = {} /\ work = NoWork
          /\ UNCHANGED <<calm, mod, present, bound, inuse, iomaps, work, access,
                         xpcie_dev, engine_regs>>
      BY <1>3 DEF Probed
    <2>2. bound = Devices
      BY <2>1, DriverAssumption DEF Calm, NoWork, IInv, TypeOK
    <2> QED
      BY <2>1, <2>2 DEF Calm, Probing
  <1>4. CASE RegisterChrdev \/ ClassCreate \/ DeviceCreate
    <2>1. \A name \in Names : AfterChrdev[name] # "probing"
      BY DEF AfterChrdev, Names
    <2>2. Settled /\ at # "removing"
      BY <1>4 DEF RegisterChrdev, ClassCreate, DeviceCreate, Settled, Names
    <2>3. mod' # "failed" /\ at' # "probing"
      <3>1. mod # "failed"
        BY DEF Calm
      <3> QED
        BY <1>4, <2>1, <3>1 DEF RegisterChrdev, ClassCreate, DeviceCreate, Fails
    <2>4. UNCHANGED <<calm, present, bound, inuse, iomaps, work, access,
                      xpcie_dev, engine_regs>>
      BY <1>4 DEF RegisterChrdev, ClassCreate, DeviceCreate, InitFails
    <2> QED
      BY <2>2, <2>3, <2>4 DEF Calm, Probing
  <1> QED
    BY <1>1, <1>2, <1>3, <1>4

(* xpcie_exit().                                                           *)
LEMMA CalmExitSteps ==
  ASSUME IInv, Calm, calm,
         \/ Unload \/ DeviceDestroy \/ UnregisterChrdev \/ UnregisterDriver
         \/ Unloaded
  PROVE  Calm'
  <1> USE DEF device, user, globals
  <1>1. /\ mod' # "failed" /\ at' # "probing"
        /\ UNCHANGED <<calm, present, bound, inuse, iomaps, work, access,
                       xpcie_dev, engine_regs>>
    BY DEF Unload, DeviceDestroy, UnregisterChrdev, UnregisterDriver, Unloaded,
       Calm
  <1>2. CASE Unload \/ DeviceDestroy \/ UnregisterChrdev \/ UnregisterDriver
    <2>1. Settled /\ at # "removing"
      BY <1>2 DEF Unload, DeviceDestroy, UnregisterChrdev, UnregisterDriver,
         Settled, IInv, Control, ExitAt
    <2> QED
      BY <1>1, <2>1 DEF Calm, Probing
  <1>3. CASE Unloaded
    <2>1. /\ at = "removing" /\ pending = {} /\ work = NoWork
          /\ mod' = "unloaded" /\ at' = "none"
      BY <1>3 DEF Unloaded
    <2>2. bound = {}
      BY <2>1 DEF IInv, Attached, Removing, NoWork
    <2> QED
      BY <1>1, <2>1, <2>2 DEF Calm, Settled, Probing, Names, NoWork
  <1> QED
    BY <1>2, <1>3

(* The PCI core: no probe() fails, and devices are removed for rmmod only. *)
LEMMA CalmPciSteps ==
  ASSUME IInv, Calm, calm, PciCore
  PROVE  Calm'
  <1>1. /\ UNCHANGED <<calm, mod, at, present, inuse, access>>
    BY DEF PciCore, StartProbe, StartRemove, ProbeEnable, ProbeRegions,
       ProbeMap, RemoveUnmap, RemoveRelease, module, device, user
  <1>2. inuse = {} /\ present = Devices /\ mod # "failed"
        /\ (access # "fault" \/ Devices = {})
    BY DEF Calm
  <1>3. ~Settled
    BY DEF Calm, PciCore, StartProbe, StartRemove, ProbeEnable, ProbeRegions,
       ProbeMap, RemoveUnmap, RemoveRelease, Working, NoWork, Settled, IInv,
       Control, InitAt, ExitAt, Names
  <1>4. ~Settled'
    BY <1>1, <1>3 DEF Settled
  <1>5. work # NoWork => at \in {"probing", "removing"}
    BY <1>2, <1>3 DEF Settled, IInv, TypeOK, Control, Attached, InitAt, ExitAt,
       Names
  <1>6. CASE \E d \in Devices : StartProbe(d) \/ StartRemove(d)
    <2>1. PICK d \in Devices : StartProbe(d) \/ StartRemove(d)
      BY <1>6
    <2>2. /\ work = NoWork /\ work'.dev = d /\ pending' = pending \ {d}
          /\ work'.step \notin {"regions", "map"}
          /\ UNCHANGED <<bound, iomaps, xpcie_dev, engine_regs>>
      BY <2>1 DEF StartProbe, StartRemove, device, globals
    <2> QED
      BY <1>1, <1>2, <1>4, <2>2, DriverAssumption DEF Calm, Probing, NoWork
  <1>7. CASE ProbeEnable
    <2>1. /\ work.op = "probe" /\ work'.dev = work.dev
          /\ xpcie_dev' = work.dev
          /\ UNCHANGED <<bound, iomaps, engine_regs, pending>>
      BY <1>7 DEF ProbeEnable, Working, Then, Fails, IInv, TypeOK, Works
    <2>2. work.dev \in Devices
      BY <2>1 DEF IInv, TypeOK, Attached, OneAtATime, NoWork
    <2> QED
      BY <1>1, <1>2, <1>4, <2>1, <2>2 DEF Calm
  <1>8. CASE ProbeRegions
    <2>1. work.op = "probe" /\ work.step = "regions"
      BY <1>8 DEF ProbeRegions, Working
    <2>2. work.dev \in Devices \ bound
      BY <2>1 DEF IInv, TypeOK, Attached, OneAtATime, NoWork
    <2>3. regions[work.dev] = "free"
      BY <1>2, <2>1, <2>2 DEF IInv, TypeOK, Accounts, Probing
    <2>4. /\ work' = [work EXCEPT !.step = "map"]
          /\ UNCHANGED <<bound, iomaps, pending, xpcie_dev, engine_regs>>
      BY <1>8, <2>3 DEF ProbeRegions, Then, Fails, globals
    <2>5. work'.op = work.op /\ work'.dev = work.dev
      BY <2>4 DEF IInv, TypeOK, Works
    <2>6. xpcie_dev \in Devices
      BY <2>1, <2>2 DEF Calm, Probing
    <2> QED
      BY <1>1, <1>2, <1>4, <2>4, <2>5, <2>6 DEF Calm
  <1>9. CASE ProbeMap
    <2>1. /\ work.op = "probe" /\ work.step = "map" /\ work' = NoWork
          /\ bound' = bound \cup {work.dev}
          /\ UNCHANGED <<pending, xpcie_dev>>
      BY <1>9 DEF ProbeMap, Working
    <2>2. work.dev \in Devices
      BY <2>1 DEF IInv, TypeOK, Attached, OneAtATime, NoWork
    <2>3. xpcie_dev \in Devices
      BY <2>1, <2>2 DEF Calm, Probing
    <2>4. PICK got \in [BarIndexes -> {"mapped"}] :
            /\ bar' = [k \in BarIndexes |-> MapSingleBar(k, got[k])]
            /\ iomaps' = iomaps \cup
                 {<<work.dev, k>> : k \in {x \in BarIndexes : got[x] = "mapped"}}
      BY <1>9 DEF ProbeMap
    <2>5. engine_regs' = <<work.dev, 1>>
      BY <1>9, <2>4 DEF ProbeMap, MapSingleBar, BarIndexes
    <2>6. engine_regs' \in iomaps'
      BY <2>4, <2>5 DEF BarIndexes
    <2> QED
      BY <1>1, <1>2, <1>4, <2>1, <2>3, <2>6 DEF Calm
  <1>10. CASE RemoveUnmap \/ RemoveRelease
    <2>1. /\ work.op = "remove" /\ work'.op # "probe"
          /\ bound' \subseteq bound /\ UNCHANGED xpcie_dev
      BY <1>10 DEF RemoveUnmap, RemoveRelease, Working, Then, NoWork, globals,
         IInv, TypeOK, Works
    <2>2. at = "removing"
      BY <1>5, <2>1 DEF IInv, Attached, NoWork
    <2> QED
      BY <1>1, <1>2, <1>4, <2>1, <2>2 DEF Calm, Probing
  <1> QED
    BY <1>6, <1>7, <1>8, <1>9, <1>10 DEF PciCore

(* The processes: who has a file open can only find the devices bound.     *)
LEMMA CalmUserSteps ==
  ASSUME IInv, Calm, calm, NEW u \in Users, UserStep(u)
  PROVE  Calm'
  <1>1. UNCHANGED <<calm, mod, at, drv, chr, class, nodes, present, bound, inuse,
                    enables, leaked, regions, iomaps, work, pending, xpcie_dev, bar,
                    engine_regs>>
    BY DEF UserStep, Open, Close, Write, Register, WriteReturns, Mmap, Touch,
       Munmap, module, device, globals
  <1>2. access' # "fault" \/ Devices = {}
    <2> SUFFICES ASSUME Devices # {}, access' = "fault"
                 PROVE  FALSE
      OBVIOUS
    <2>1. access # "fault" /\ present = Devices /\ mod # "failed"
      BY DEF Calm
    <2>2. \/ file[u] = "write" /\ engine_regs \notin iomaps
          \/ file[u] # "closed" /\ xpcie_dev \notin present
          \/ vma[u] # NULL /\ vma[u][1] \notin present
      BY <2>1 DEF UserStep, Open, Close, Write, Register, WriteReturns, Mmap,
         Touch, Munmap, UseDev, BarOf
    <2>3. Settled /\ at # "removing"
      BY <2>1, <2>2 DEF IInv, TypeOK, Control, Quiet, Unused, Settled, InitAt,
         ExitAt
    <2>4. bound = Devices /\ engine_regs \in iomaps /\ xpcie_dev \in Devices
      BY <2>3 DEF Calm
    <2>5. vma[u] # NULL => vma[u][1] \in Devices
      BY DEF IInv, TypeOK
    <2> QED
      BY <2>1, <2>2, <2>4, <2>5
  <1> QED
    BY <1>1, <1>2 DEF Calm, Settled, Probing

(* As long as nothing fails and the devices stay, every step leaves the    *)
(* device bound and its registers mapped.                                  *)
LEMMA StepCalm == IInv /\ Calm /\ [Next]_vars => Calm'
  <1> SUFFICES ASSUME IInv, Calm, [Next]_vars
               PROVE  Calm'
    OBVIOUS
  <1>1. CASE UNCHANGED vars
    BY <1>1 DEF vars, module, device, globals, user, Calm, Settled, Probing
  <1>2. calm' = calm
    BY DEF Next, Loader, PciCore, vars, module, Load, InitFails, RegisterDriver,
       Probed, RegisterChrdev, ClassCreate, DeviceCreate, Unload,
       DeviceDestroy, UnregisterChrdev, UnregisterDriver, Unloaded, StartProbe,
       StartRemove, ProbeEnable, ProbeRegions, ProbeMap, RemoveUnmap,
       RemoveRelease, Plug, Unplug, Open, Close, Write, Register, WriteReturns,
       Mmap, Touch, Munmap
  <1>3. CASE calm /\ Next
    <2>1. ~\E d \in Devices : Plug(d) \/ Unplug(d)
      BY <1>3 DEF Plug, Unplug
    <2> QED
      BY <1>3, <2>1, CalmInitSteps, CalmExitSteps, CalmPciSteps, CalmUserSteps
         DEF Next, Loader, UserStep
  <1>4. CASE ~calm
    BY <1>2, <1>4 DEF Calm
  <1> QED
    BY <1>1, <1>3, <1>4

(* So it is before the module is loaded.                                   *)
LEMMA InitCalm == Init => Calm
  BY DEF Init, Calm, Settled, Probing, NoWork, Names

(* As long as kernel services do not fail and the devices, at least one,   *)
(* stay, no register access of a write() faults, nor any use of xpcie_dev  *)
(* in write() and mmap().                                                  *)
THEOREM AccessIsMapped == Devices # {} => (Spec => []AccessMapped)
  <1> SUFFICES ASSUME Devices # {}
               PROVE  Spec => []AccessMapped
    OBVIOUS
  <1>1. Calm => AccessMapped
    BY DEF Calm, AccessMapped
  <1> QED
    BY <1>1, InitCalm, StepCalm, Invariance, PTL DEF Spec

(* A mapped BAR belongs to a bound device whose regions are the driver's,  *)
(* for any number of devices and processes.                                *)
THEOREM MappingsAreBound == Spec => []MappingsBound
  <1>1. IInv /\ Calm => MappingsBound
    <2> SUFFICES ASSUME IInv, Calm, calm, NEW u \in Users, vma[u] # NULL
                 PROVE  vma[u][1] \in bound /\ regions[vma[u][1]] = "ours"
      BY DEF MappingsBound
    <2>1. Settled
      BY DEF Calm, IInv, TypeOK, Control, Quiet, Unused, Settled, InitAt, ExitAt
    <2>2. vma[u][1] \in Devices
      BY DEF IInv, TypeOK
    <2> QED
      BY <2>1, <2>2 DEF Calm, IInv, Accounts
  <1> QED
    BY <1>1, InitCalm, StepCalm, Invariance, PTL DEF Spec
=============================================================================
