--------------------------------- MODULE Boot ---------------------------------
(***************************************************************************)
(* How the kernel finds its devices: main and init_env (core/kernel.c),    *)
(* the list of PCI functions (core/hardware/pci.c), the list of drivers    *)
(* (core/hardware/driver.c), the partition tables (core/dsk/mbr.c) and the *)
(* CD drives (core/dsk/cd.c), with what diskio_init, the IDE driver and    *)
(* the ISO9660 driver do when they are initialised.                        *)
(*                                                                         *)
(* The boot loader is one the kernel knows, and the shadow map of the      *)
(* pages fits the heap (MapsFit of PageTables).  memsrch is taken to find  *)
(* the drivers the kernel has: one for IDE controllers and one for         *)
(* ISO9660.                                                                *)
(***************************************************************************)
EXTENDS Naturals, FiniteSets, Sequences, SequencesExt, FiniteSetsExt

CONSTANTS
    Machines,   \* [functions, attached, strict, discs]: the PCI functions in the order of
                \* bus, device and function number, the drives, the hard disks that ignore a
                \* command while they offer data (Disk), the CD drives that hold an ISO9660
                \* disc and end every read (Atapi)
    ListLen,    \* PCI_DEVLIST_LENGTH
    SearchLen,  \* 255, the turns of driver_search_pciAll
    DriverLen,  \* DRIVER_MAX_SUPPORTED
    Blocks,     \* of the kernel heap
    ShadowBlocks  \* those of the shadow map of the pages

Drives == 0..3
IdeType == <<1, 1>>     \* class and subclass, with DRIVER_TYPE_PCI
IsoType == "ISO"        \* FS_TYPE_ISO | DRIVER_TYPE_FS
Absent == 255

\* A slot is a device and a function number.
ASSUME BootAssumption ==
    /\ ListLen \in Nat \ {0, 1} /\ SearchLen \in Nat /\ SearchLen >= ListLen
    /\ DriverLen \in Nat \ {0}
    /\ Blocks \in Nat /\ ShadowBlocks \in Nat \ {0} /\ Blocks >= ShadowBlocks + 4
    /\ \A m \in Machines :
          /\ m.functions \in Seq([bus : 0..255, slot : 0..255, class : 0..254, sub : 0..254,
                                      refused : BOOLEAN]) \* 0x24CB8086
          /\ \A j, k \in DOMAIN m.functions : \* one function at a place
                m.functions[j].bus = m.functions[k].bus /\ m.functions[j].slot = m.functions[k].slot => j = k
          /\ m.attached \in [Drives -> {"PATA", "PATAPI", "none"}]
          /\ m.discs \subseteq Drives /\ m.strict \subseteq Drives

VARIABLES
    pc,         \* the part of init_env that is next; "halted" also where a loop never ends
    machine,
    i,          \* the index of its loop
    list,       \* PCI_DEV_LIST
    drv_list,   \* the registered drivers: [device, type]
    ide,        \* the device the IDE driver was given
    types,      \* disk_info_t
    disks,      \* DISKS: [disk, table], where table is the drive whose table it is, or Absent
    known,      \* atapi_devices of the ISO9660 driver
    heap        \* heap[b]: what block b was allocated for

vars == <<pc, machine, i, list, drv_list, ide, types, disks, known, heap>>

\* A word of the device list.  The bus is shifted away ("bus & 0xFF << 24").
Zero == [slot |-> 0, class |-> 0]
Word(f) == [slot |-> f.slot, class |-> f.class]

\* Configuration space of a listed device is read on bus 0.
At(slot) == {k \in DOMAIN machine.functions : machine.functions[k].bus = 0 /\ machine.functions[k].slot = slot}
SubclassOfDevice(slot) == IF At(8 * (slot \div 8)) = {} THEN Absent
                          ELSE machine.functions[Min(At(8 * (slot \div 8)))].sub
Subclass(slot) == IF At(slot) = {} THEN Absent ELSE machine.functions[Min(At(slot))].sub

\* pciGetInfo
Info(w) == <<w.class, Subclass(w.slot)>>
-----------------------------------------------------------------------------
\* kmalloc and kfree of a single block.
Alloc(h, owner) == [h EXCEPT ![Min({b \in DOMAIN h : h[b] = "free"})] = owner]
Free(h, owner) == [b \in DOMAIN h |-> IF h[b] = owner THEN "free" ELSE h[b]]
Empty == [b \in 0..Blocks - 1 |-> "free"]

\* main has its packet from the heap before there is one.
Init == /\ pc = "memory" /\ machine \in Machines
        /\ i = 1 /\ list = <<>> /\ drv_list = <<>>
        /\ ide = Zero /\ types = [d \in Drives |-> "none"]
        /\ disks = <<>> /\ known = {}
        /\ heap = Alloc(Empty, "packet of main")
Packet == Min({b \in 0..Blocks - 1 : Alloc(Empty, "packet of main")[b] # "free"})

\* memory_init clears the table.
MemoryInit == /\ pc = "memory" /\ pc' = "paging"
              /\ heap' = Empty
              /\ UNCHANGED <<machine, i, list, drv_list, ide, types, disks, known>>

\* paging_init (PageTables) has its shadow map from the heap, and keeps it.
Elsewhere(h) == h
Shadowed(h) == LET f == Min({b \in DOMAIN h : h[b] = "free"})
               IN [b \in DOMAIN h |-> IF b \in f..f + ShadowBlocks - 1 THEN "shadow map" ELSE h[b]]
PagingInit == /\ pc = "paging" /\ pc' = "pci"
              /\ heap' = Shadowed(heap)
              /\ UNCHANGED <<machine, i, list, drv_list, ide, types, disks, known>>

\* pci_init for the next function that is there.  Nothing keeps it inside the list.
PciInit == /\ pc = "pci" /\ i <= Len(machine.functions)
           /\ IF Len(list) < ListLen
              THEN list' = Append(list, Word(machine.functions[i])) /\ UNCHANGED pc
              ELSE pc' = "astray" /\ UNCHANGED list
           /\ i' = i + 1
           /\ UNCHANGED <<machine, drv_list, ide, types, disks, known, heap>>

PciDone == /\ pc = "pci" /\ i > Len(machine.functions)
           /\ pc' = "search" /\ i' = 1
           /\ UNCHANGED <<machine, list, drv_list, ide, types, disks, known, heap>>

\* Entry i of pciGetAllDevices.  Behind the list it is what the memory held before,
\* of which only what looks like a device here matters.
Listed == IF i <= Len(list) THEN {list[i]} ELSE IF i <= ListLen THEN {Zero}
          ELSE {Zero} \cup Range(list) \cup {[w EXCEPT !.class = 1] : w \in Range(list)}

\* driver_search_pciAll for a device.  Nothing keeps the drivers inside drv_list.
HasDriver(w) == Info(w) = IdeType
Search == /\ pc = "search" /\ i <= SearchLen
          /\ \E w \in Listed :
                /\ w # Zero
                /\ IF HasDriver(w) /\ Len(drv_list) < DriverLen
                   THEN drv_list' = Append(drv_list, [device |-> w, type |-> Info(w)])
                   ELSE UNCHANGED drv_list
                /\ pc' = IF HasDriver(w) /\ Len(drv_list) = DriverLen THEN "astray" ELSE pc
          /\ i' = i + 1
          /\ UNCHANGED <<machine, list, ide, types, disks, known, heap>>

SearchDone == /\ pc = "search" /\ (i > SearchLen \/ Zero \in Listed)
              /\ pc' = "ide"
              /\ UNCHANGED <<machine, i, list, drv_list, ide, types, disks, known, heap>>

\* The first device pciGetDevices(1, 1) returns.  When there is none it is what
\* pciGetAllDevices left in the heap: the second one of all.
ControllersByClass == {k \in DOMAIN list : k < ListLen /\ list[k].class = IdeType[1]}
Controllers == {k \in DOMAIN list : k < ListLen /\ Info(list[k]) = IdeType}
Controller == IF Controllers # {} THEN list[Min(Controllers)]
              ELSE IF Len(list) > 1 THEN list[2] ELSE Zero

\* driver_exec takes the first driver of the type, and asserts that there is one;
\* IDEDriverInit asserts that the controller is not one it is known to fail with.
Handled(type) == \E k \in DOMAIN drv_list : drv_list[k].type = type
Refused(slot) == \E k \in At(slot) : machine.functions[k].refused

IdeInit == /\ pc = "ide"
           /\ IF Handled(Info(Controller)) /\ ~ Refused(Controller.slot)
              THEN ide' = Controller /\ pc' = "diskio"
              ELSE pc' = "halted" /\ UNCHANGED ide
           /\ UNCHANGED <<machine, i, list, drv_list, types, disks, known, heap>>

\* diskio_init.  Something else than an IDE controller reports anything.
IsController(slot) == \E k \in At(slot) : <<machine.functions[k].class, machine.functions[k].sub>> = IdeType
DiskioInit == /\ pc = "diskio" /\ pc' = "mbr" /\ i' = 0
              /\ types' \in IF IsController(ide.slot) THEN {machine.attached}
                            ELSE [Drives -> {"PATA", "PATAPI", "none"}]
              /\ UNCHANGED <<machine, list, drv_list, ide, disks, known, heap>>

\* to_actual_drive
Of(type) == {d \in Drives : types[d] = type}
ActualDrive(n, type) == {d \in Of(type) : Cardinality({e \in Of(type) : e < d}) = n}

\* MBR_getIDEDrives, a turn for each drive: DISKS[disks++].disk = i.
AnyDrive(ds, d) == IF types[d] # "none" THEN Append(ds, [disk |-> d, table |-> Absent]) ELSE ds
HardDisk(ds, d) == IF types[d] = "PATA" THEN Append(ds, [disk |-> d, table |-> Absent]) ELSE ds
MbrDrive == /\ pc = "mbr" /\ i < 4
            /\ disks' = HardDisk(disks, i)
            /\ i' = i + 1
            /\ UNCHANGED <<pc, machine, list, drv_list, ide, types, known, heap>>

\* The rest of MBR_enumerate.  The list of drives stays allocated.  The first command
\* after the drives were identified meets a disk that still offers a word: a strict one
\* ignores it, and its table is what the data register happens to give.
Enumerated(h) == Free(Alloc(Alloc(h, "drives"), "mbr"), "mbr")
TableOf(d) == IF d \in machine.strict THEN Absent ELSE d
MbrEnumerate == /\ pc = "mbr" /\ i = 4
                /\ pc' = "cd"
                /\ disks' = [k \in DOMAIN disks |-> [disk |-> disks[k].disk, table |-> TableOf(disks[k].disk)]]
                /\ heap' = Enumerated(heap)
                /\ UNCHANGED <<machine, i, list, drv_list, ide, types, known>>

\* cd_init up to its loop.
NoCds == /\ pc = "cd" /\ Of("PATAPI") = {}
         /\ pc' = "up"
         /\ UNCHANGED <<machine, i, list, drv_list, ide, types, disks, known, heap>>

CdInit == /\ pc = "cd" /\ Of("PATAPI") # {}
          /\ IF Len(drv_list) = DriverLen THEN pc' = "halted" /\ UNCHANGED <<drv_list, i, heap>>
             ELSE /\ pc' = "iso" /\ i' = 0
                  /\ drv_list' = Append(drv_list, [device |-> Zero, type |-> IsoType])
                  /\ heap' = Alloc(Alloc(heap, "cd drives"), "packet of cd")
          /\ UNCHANGED <<machine, list, ide, types, disks, known>>

\* A turn of the loop, with iso_init.  What is read of a drive without a disc is what
\* its port gives, if the read ends at all: it may pass for a descriptor, or the kernel
\* waits for ever or halts at an assertion.
TurnBack(k) == 3 - k
Turn(k) == k
IsoInit == /\ pc = "iso" /\ i < 4
           /\ LET d == Turn(i)
                  new == d \in Of("PATAPI") /\ \A e \in known : e < d
              IN /\ pc' \in IF new /\ d \notin machine.discs THEN {pc, "halted"} ELSE {pc}
                 /\ known' = IF new THEN known \cup {d} ELSE known
                 /\ heap' = IF new /\ known = {} THEN Alloc(heap, "cd_info") ELSE heap
           /\ i' = i + 1
           /\ UNCHANGED <<machine, list, drv_list, ide, types, disks>>

CdDone == /\ pc = "iso" /\ i = 4
          /\ pc' = "up"
          /\ heap' = Free(Free(heap, "packet of cd"), "cd drives")
          /\ UNCHANGED <<machine, i, list, drv_list, ide, types, disks, known>>

Next == \/ MemoryInit \/ PagingInit \/ PciInit \/ PciDone \/ Search \/ SearchDone
        \/ IdeInit \/ DiskioInit \/ MbrDrive \/ MbrEnumerate
        \/ NoCds \/ CdInit \/ IsoInit \/ CdDone

Spec == Init /\ [][Next]_vars
-----------------------------------------------------------------------------
\* The type invariant.
TypeOK == /\ pc \in {"memory", "paging", "pci", "search", "ide", "diskio", "mbr", "cd", "iso", "up", "halted", "astray"}
          /\ machine \in Machines
          /\ Len(list) <= ListLen /\ Len(drv_list) <= DriverLen
          /\ types \in [Drives -> {"PATA", "PATAPI", "none"}]
          /\ known \subseteq Drives
          /\ \A k \in DOMAIN disks : disks[k].disk \in Of("PATA")

\* With everything on bus 0, what the IDE driver drives is an IDE controller: its
\* registered type, the class in the list and the subclass that is read again are of
\* the same function (pciGetDevices, pciGetInfo).  With more buses the function at the
\* same place on bus 0 answers for another.
OneBus == \A k \in DOMAIN machine.functions : machine.functions[k].bus = 0
ControllerDriven == OneBus /\ pc \in {"diskio", "mbr", "cd", "iso", "up"} => IsController(ide.slot)

\* The kernel comes up on a machine that has all its functions on bus 0 and fewer than
\* the list holds, an IDE controller among them and no function that looks like the
\* end of the list before it, none that IDEDriverInit refuses, room for the drivers, and a
\* disc in each CD drive: no assertion fails and no list is overrun.
Sound == /\ OneBus /\ Len(machine.functions) < ListLen
         /\ \E k \in DOMAIN machine.functions :
               /\ Info(Word(machine.functions[k])) = IdeType
               /\ \A j \in 1..k - 1 : Word(machine.functions[j]) # Zero
         /\ \A k \in DOMAIN machine.functions : ~ machine.functions[k].refused
         /\ Cardinality({k \in DOMAIN machine.functions : Info(Word(machine.functions[k])) = IdeType}) < DriverLen
         /\ \A d \in Drives : machine.attached[d] = "PATAPI" => d \in machine.discs
Boots == Sound => pc \notin {"halted", "astray"}

\* When the kernel is up the ISO9660 driver has initialised every CD drive, although it
\* takes a drive for known when one with a higher number is (iso_init): cd_init goes
\* through them in ascending order.
CdsKnown == pc = "up" => known = Of("PATAPI")

\* The n-th entry of DISKS is the disk that to_actual_drive calls HDn, with its own
\* partition table; FAT_init, which looks there with the number of the drive, finds the
\* table of that drive when there are only hard disks before it (MBR_getStartLBA).  The
\* tables are those of disks that start a command while they offer a word.
TablesFound ==
    pc \in {"cd", "iso", "up"} =>
       /\ \A k \in DOMAIN disks : /\ ActualDrive(k - 1, "PATA") = {disks[k].disk}
                                  /\ disks[k].disk \in machine.strict \/ disks[k].table = disks[k].disk
       /\ Cardinality(Of("PATA")) = Len(disks)
       /\ \A d \in Of("PATA") \ machine.strict : (\A e \in 0..d : e \in Of("PATA")) => disks[d + 1].table = d

\* The block main holds since before memory_init is the first of the shadow map when the
\* kernel is up: what main writes to its packet (the command and the name of a file, and
\* what the read of it returns) goes over the entries of the first pages, which are the
\* kernel's, and over nothing a driver, a list or a buffer has been given.
PacketInShadowMap == pc = "up" => heap[Packet] = "shadow map"
===============================================================================
