# Verification of vireo-kernel

TLA+ models of the kernel under `src/core`, checked with TLC on small instances
and, where it says so below, proved with TLAPS for every value of the constants.
Paths are relative to `src/core` unless they start with `src/`.

Contents: 1 the system, 2 the modules and how they follow the code, 3 runs and
bounds, 4 fairness, 5 proofs, 6 what the models leave out, 7 defects found,
8 plan.

## 1. The system

vireo-kernel is a 32-bit x86 kernel with one thread of control. `kernel.c:main`
sets up memory, paging, interrupts, the timer, PCI and the IDE driver, reads a
program from a CD and jumps to it. There are no processes running side by side;
what is concurrent is interrupts (timer, both IDE channels) and the devices.
Components call each other directly, or through `driver_exec`, which looks a
driver up by its identifier and hands it an array of words whose last ones carry
the answer.

| Component (files) | State | Operations | Used by / uses | What is hard, and what must hold |
|---|---|---|---|---|
| Kernel heap (`memory/memory.c`) | `memory_t[128]` of `loc`, `size` | `kmalloc`, `kfree`, `memory_update_table` | everyone that needs a small buffer | An address is computed from the neighbour entry and `kfree` clears as many entries as the first match says, so one bad entry spreads. Callers own disjoint runs as long as they asked for; no block is lost; NULL only when full |
| Page tables at boot (`memory/paging.c`) | directory, tables, `previous_end`, `shadow_t` | `paging_init`, `paging_create_tables`, `paging_prepare_table`, `paging_map_kernelspace` | heap (the shadow map) | The tables lie in the space they map. The kernel must find itself at its own addresses when paging goes on; every frame should be mapped once |
| Page allocator (`memory/paging.c`) | `shadow_t[].pid/.npages`, page entries | `valloc`, `vfree`, `paging_find_free` | ISO9660 buffers, loaders | A run is remembered by the entry of its first page only, which is never cleared. Two pages have one frame wherever two page tables meet. The map says exactly what is held, pages are not shared, free ones are closed to user mode, and what a caller wrote stays |
| Process ids and loaders (`exec/*.c`) | static `pid` | `task_new_pid`, `elf_parse_binary`, `flat_call_binary` | page allocator | The id 255 means "unallocated" |
| Timer and sleep (`hardware/timer.c`, `util/util.c`) | `ticks` | interrupt 0x20, `sleep` | IDE reset, game of life | The 32-bit clock restarts while a sleep is waiting: none may last for weeks, all must end |
| IDE driver (`drv/IDE`) | `ide_flags`, `drive_info_t` | handler, `IDE_IRQ`, CD read, disk read and write, drive detection | disk layer; timer | One flag for the interrupts of four drives, hard disks among them; an interrupt is waited for, another is polled away; drives that refuse, fail or hang |
| Disk layer (`dsk/*.c`) | drive table, `DISKS` | `diskio_init`, `read`, `write`, `convert_drive_id`, MBR and CD enumeration | file systems / IDE via `driver_exec`, heap | A command packet per call that must be freed on every path; drives counted in two ways; indices one past the end |
| Driver registry, PCI (`hardware/driver.c`, `pci.c`) | `drv_list`, `PCI_DEV_LIST` | `driver_init`, `driver_exec`, `driver_addInternalDriver` | everyone | Tables filled without a bound |
| FAT (`drv/FS/fat.c`) | `FS_INFO[]`, the disk | read, save, rename | disk layer, heap | Directory, FAT and data are written one after the other; chains; a disk that ignores the command after a write |
| ISO9660 (`drv/FS/iso9660.c`) | descriptor data, buffers | `iso_read`, path-table and directory search | disk layer, heap and pages | Statics kept between two searches; a search that can stop making progress; buffers that come from one of two allocators |
| Interrupt tables (`cpu/interrupts`, `hardware/pic.c`) | IDT, PIC masks | `IDT_setup`, handlers | timer, IDE | Handlers run between any two instructions |
| Screen (`screen/screen_basic.c`) | cursor, colour | `print`, `putchar`, scroll | everyone | The cursor stays on the screen |
| Boot, segments, panic, debug, info, port I/O, game of life | – | straight-line code | – | – |

`PROJECT.json` names for each component whether it is modelled, and under
`hazards` the points, line by line, where the code is hard to test.

## 2. The modules

| Module | Models | Extends / uses |
|---|---|---|
| `Heap` | what an allocator promises: callers own disjoint runs of the size asked for inside the heap; NULL only when no such run is free | – |
| `Kmalloc` | `kmalloc`, `kfree`, `memory_update_table` and the call sites | implements `Heap` |
| `Paging` | `valloc`, `vfree`, `paging_find_free`, `task_new_pid`, their callers | implements `Heap` |
| `PageTables` | `paging_init` for a machine of any size | – |
| `Atapi` | `IDE_readPIO28_atapi`, `IDE_IRQ`, the CD drives (external) and the interrupts of the hard disks | takes what is done with the hard disks as one step, which `Disk` opens |
| `Disk` | `read`, `write`, drive names, `IDEController_handler`, `IDE_readPIO28`, `IDE_writePIO28`, and the hard disks (external) | takes the CD read as one step, which `Atapi` opens and which may not end |
| `Boot` | `main` and `init_env`: the PCI list, the driver list, `driver_exec`, what `paging_init` takes from the heap, `diskio_init`, `MBR_enumerate`, `cd_init`, `iso_init` | composes the registry, the disk layer and the heap blocks they hold |
| `Iso` | `iso_init`, `iso_read`, `iso_traverse`, path table, directories, and every buffer of both allocators | composes the driver with the two allocators, as counters |
| `Fat` | mounting, `FAT_save_file`, `FAT_rename`, sector by sector, and the power going off | – |
| `Console` | cursor, printing, scrolling, clearing, drawing | – |
| `Timer` | `ticks`, the timer interrupt, `sleep` | – |

`MCx` is the instance of `x` that TLC checks, `xProofs` holds its theorems. Two proof
modules extend two components each: `InterruptProofs` what comes by interrupts, `Atapi` and
`Timer`, and `PagingProofs` the pages, `Paging` and `PageTables`. The second of each pair
names its specification accordingly (`ClockSpec`, `TablesSpec`).

**Kmalloc.** `loc` and `size` are the two fields of `memory_t`, in blocks of 512
bytes; `ptr[o]` and `asked[o]` are the pointer call site `o` holds and the number
of blocks it asked for. One action per path of the code: `Malloc` (a run was
found), `MallocNull` (the scan ended), `MallocZero` and `MallocZeroPastEnd` (the
scan for 0 blocks, which ends at the first entry in use and returns what the
entry behind it says), `Free`, `FreeNull`, `FreeUnknown`. The cast of the number
of blocks to `uint8_t` is `Blocks(n) = n % ByteMod`, that of `kfree`'s `len` is in
`Len`. The actions use what the scan finds, `FirstFit`; the loop itself is `Available`, its
counter as a recursive function, and `BreaksAt`. That it finds the same is `ScanIsFirstFit`.

**Paging.** `pid` and `npages` are the shadow map; `user`, the pages whose entries let user mode
in; `contents`, whose data a page still shows; `lastPid`, the static of `task_new_pid`. `valloc`
gives attributes to the entry of the first page only, and so does the model. A failed
`dbg_assert` is `halted`. Loaders never free (`role`). `FrameOf` is the frame behind a page, as
`paging_prepare_table` leaves it: two pages where two tables meet have the same, so that what is
written or cleared through one is gone from the other (`Writes`, `Cleared`). Three kinds of
callers fill in a request (`Requesters`): the kernel, the loader for segments, and the loader
for a stack, which passes 4096 for the request itself (`exec/elf.c:164`). What lies at that
address decides about the pid, any of `StackPids`, and the attributes; the program's first push
lands in the page below.

**PageTables.** One action per table (`PrepareTable`, with the static
`previous_end`), one for the shadow map (`PlaceShadow`, which contains the whole
`kmalloc` on an empty heap with its cast, and the `memset` over whatever the result
points to), one per turn of `paging_map_kernelspace`, and `Enable`.

**Atapi.** `pc` is the place in `IDE_readPIO28_atapi`; every loop is an action
enabled when the loop ends. `flag` is the only bit of `ide_flags`, `stage`, `todo`
and `pending` are the drives and their interrupt lines. The drive actions
(`TakesPacket`, `Offers`, `Finishes`, `Rejects`, `Fails`, `Hangs`) are external:
they are the part of the ATA packet protocol the driver goes by. Hard disks set the same
bit: `DiskCall` is what the kernel does with one between two CD reads, and leaves the bit
as it likes and possibly an interrupt still to come (`owing`), as the write command behind
the data does (`IDEController.c:481`); `Completes` is that interrupt, in the middle of a CD
read if it likes. `early` is history: it ended a wait that was for the CD drive.

**Disk.** `call` is the packet of `read` or `write`; `moved` counts the sectors the
loops of the IDE driver have moved, `buffer` says what went where, `sector` is what is on
the disks: which piece of whose buffer (`Piece`). The pointer advances by twice a sector in
both directions (`Place`), behind the end of the buffer after its half. `Address` is what the
registers name of a sector number: `AddressMod` is 2^24, since the number is cut to a byte
before its top bits are taken. `held` counts the heap
blocks taken and not given back, `owed` those among them that the code forgets. A disk
is busy, then offers or asks for data until the sectors its command named have been
moved. What it does with a command that meets it in the middle of another one is left
open by the protocol: disks in `Strict` ignore it, the others start it. This matters,
because every write ends with a second WRITE command nobody serves (`EndWrite`) and
every disk is left with a word of its identification unread. A disk may stop answering
for good (`Hangs`); the waits of the driver know no end then. A CD read (`CdRead`) ends, waits
for ever (`"stuck"`) or halts the kernel. When the driver is initialised with the number of the
drive in place of a controller (`Reinit`) it does one of the same, or goes on with the ports of
something else (`"astray"`); where that number stands for a function without base addresses,
the drives are reset and identified as at first.

**Boot.** `pc` names the part of `init_env` that is next, `list` is `PCI_DEV_LIST`,
`drv_list` the registered drivers, `heap` what each block was allocated for. A machine is
a constant: its PCI functions, the drives, and which of them have a disc. The searches of
lists that are not terminated read what lies behind them (`Listed`, `Controller`);
a list that is overrun ends in `"astray"`, a failed assertion in `"halted"`, among them those
on the controller (`IDEController.c:276`), on the registered driver, and those a CD drive
without a disc may fail (`IsoInit`: what its port gives may also pass for a descriptor).
`PagingInit` takes the shadow map, whose first block is the one `main` uses for its packet.
`MbrDrive` is a turn of the loop in `MBR_getIDEDrives`, `MbrEnumerate` what follows it; a disk
of `strict` ignores its first command, since a word of its identification is still unread,
and what the driver takes for its partition table is anything.

**Iso.** Paths, directory names and file names are sequences, because the driver compares
prefixes and because bytes left in the heap decide what it reads behind a string without
an end (`stale`). `sect` and `loc` are the two statics of the path-table search. `mem` says
where the buffer of each variable came from and whether it was given back since; every
`Takes`, `Gives` and `Uses` (taken and given back before the next step) follows the calls the
driver makes on that path, with the list `convert_drive_id` keeps and the two strings of
`reverse_path`. The packet of each `read`, which is given back before anything else is
asked for, is left out, as is the order within a group of buffers that are given back
together. A path table longer than a sector, entries that lie across the end of a sector (a
volume that is not `whole`, `Torn`), directories of the same name under different parents,
the search that is out of step behind a name of odd length (`Resume`, `Spurious`), and
directories of several sectors are all there: no record lies across the end of a sector, and
the zeroes behind the last one of a sector fail an assertion, so that of a long directory the
driver reaches the first sector (`PerListing`), or, when the records happen to fill it, what
follows (`Reached`, `NotReached`). When an allocation fails the read ends in
`"exhausted"`: the sequence of calls stops there, and nothing more is taken or given back. The
endless loop in `iso_find_index` takes a sector in each turn (`ReadAgain`) and ends there too.

**Fat.** One action per sector that is written: `UpdateFat` is a turn of `update_fat`,
`WriteEntry` the end of `update_dir`, `WriteData` a turn of `save`; `PowerOff` may come between
any two. `fat` is the table of words as the driver indexes it (`Index(c) = 4 * c`, the byte
offset), `used` the clusters that really were in use, `files` the saves that have returned.
`Beyond` stands for the clusters whose index lies outside the table: what is written there may
hit a block of the heap that somebody uses. A volume lies on a disk of one of the two habits of
`Disk`: a `strict` one ignores the command after a write (`deaf`), which is the FIXME of
`fat.c:203`. What the driver does after it has worked on memory that is not its own is not
followed: the model ends in `"astray"` after an ignored command (`Misled`), a directory that
cannot be read (`Readable`), a word outside the table that hits something (`UpdateFat`), an
empty file or one of several clusters (`WriteEntry`). A full directory is extended with a buffer
that was given back: the new cluster gets the new entry and what the heap holds by then
(`WriteEntry`), and the file overwrites it. Names are what the conversion has made of them,
leftovers included; one with a dot (`Dotted`) keeps no end, so that `FAT_file_exists`
may not find it and it may be there twice (`Accepted`).

**Console.** `cells` is video memory; `text` is history: the lines printed since the last
clear. `astray` says that something was drawn or printed past an edge, after which
`ShowsText` no longer asks for more than `LinesStay` does.

**Timer.** `ticks` skips its largest value, as `timer_incTicks` does; `wait_for` is
computed with 32-bit sums that wrap (`Sum32`). `start`, `elapsed` and `polled` are
history for the properties; `elapsed` is not counted above `Mod`, more than any sleep
is asked for.

The definitions that stand next to one of the same name plus a suffix
(`ClearedPastEnd` beside `Cleared`, `MarkFirst` beside `Mark`) are slips the code could
have had. Each property has one that breaks it.

## 3. Runs and bounds

| Run | Instance | Shows |
|---|---|---|
| `heap` | 7 blocks, 4 call sites, requests of 1–4 blocks | `NoBlockLost`, `ScanIsFirstFit`, `HeapSpec` |
| `heap_any` | 5 blocks, 3 call sites, requests of 0 blocks and above the `uint8_t` too | `TableWellFormed` whatever is asked for |
| `pages` | 8 pages in tables of 4, 2 of them the kernel's, 3 call sites, two programs with segments and stacks | `ShadowExact`, `NothingLeftBehind`, `ContentsKept`, `HeapSpec` |
| `tables` | machines of 4–80 pages, tables of 8 entries | `KernelIdentity`, `FramesOrdered`, `FramesLost` |
| `cd` | 2 CD drives that refuse, fail or hang, a hard disk, reads of 0–3 sectors | `TypeOK`, `NothingStale`, `BufferFilled`, and under fairness `EveryReadReturns` |
| `sleeps` | a clock of 16 values, six lengths of sleep begun at each | `NoLongSleep`, `ExactAwayFromReset`, and under fairness `SleepEnds` |
| `disk` | a CD drive and two hard disks, one of them strict, which may hang; 3 sectors each, 2 of which the registers can name; counts 0–2 | `TypeOK`, `ReadExact`, `HeldIsOwed`, `WritesInPlace`, and under fairness `CallReturns` |
| `iso` | 2 CD drives, a volume of 8 directories, the same with entries across the end of a sector, and one of 4 directories, 15 paths, four kinds of stale bytes, 16 heap buffers and 2 pages | `TypeOK`, `RightFile`, `Live`, and under fairness `Ends` |
| `fat` | clusters 2–5, a name with and one without a dot, 2 contents, files of no and of one cluster, directories of 2 entries, three volumes, one of them on a strict disk, the power off anywhere | `TypeOK`, `Kept`, `NoClusterLost`, `OthersIntact` |
| `console` | 4 rows of 2 columns, positions modulo 11, tabs of 2 | `CursorShown`, `ShowsText`, `LinesStay` |
| `boot` | 13 boards × every way to attach four drives × two sets of strict disks × two sets of discs | `ControllerDriven`, `Boots`, `CdsKnown`, `TablesFound`, `PacketInShadowMap` |
| `fat_fresh` | a volume with nothing but its directories | violation of `ChosenIsFree` |

Several properties hold under a condition, part of their statement or of the constants of
the run, which is the point where the code stops being right; section 7 says what happens
beyond it.

Why the bounds are enough.

* *Heap*: a run, its two neighbours and a hole on either side need five entries; seven with four
  call sites give every order of first, middle and last runs, holes too small for a request, and
  a full table. `ByteMod` only has to exceed the table, as 256 exceeds 128.
* *Pages*: a kernel space, runs of one and two pages with a neighbour on both sides and the page
  `paging_find_free` wants in excess, and one border between two page tables that these runs
  reach, end at and lie across: pages 3 and 4 have one frame. The bounded counter is `lastPid`
  (`PidBound`, in the guard of `NewPid`): two programs keep it below the id that means
  "unallocated", which is what `SoundUse` asks for.
* *Tables*: up to ten tables, sizes on both sides of a table's end, and a kernel space within
  the first table or over the first two.
* *CD*: four drives is all the hardware has; two CD drives suffice, since the driver serves one
  at a time and the other can only contribute a stale interrupt; one hard disk does what several
  do, set the bit at any moment.
* *Timer*: the clock is a ring, sleeps are shorter than, as long as, and longer than the way to
  its reset.
* *Disk*: two sectors give a first and a last one, the third is the first one behind what the
  registers can name; a count of 0 is the 256 of the disk and runs past its end, and two disks
  show a command to one while the other still asks for data. `MaxHeld` ends a behaviour after
  three blocks are forgotten: what a call does depends on the blocks held before only when the
  heap has none left, which is not modelled (`dsk/diskio.c:92` does not look at what `kmalloc`
  returns).
* *Iso*: three levels of directories with two branches that differ only at the top are the least
  that `check_parents` can confuse; five entries per sector put one directory and its parent in
  the second sector, and a directory with three files has one behind the two names of its first
  sector. The heap has room for what one read holds at once; what each loses lets the buffers of
  the next come from the page allocator, or not at all.
* *Fat*: a directory of two entries fills up within three saves, and the search runs out of
  words of four clusters. The volumes have used clusters where the driver looks for the words of
  the directories (8 and 12), on one of them with a used cluster whose word is in use too and on
  one without. A second name without a dot would only be a permutation.
* *Console*: four rows scroll and have rows above and below the cursor; `Mod` lies just above
  the size of the screen, so that columns behind the edge and their wrap are reached.
* *Boot*: the boards have the controller first, last, twice and not at all, a second bus, a
  function that looks like the end of the list, a list that is exactly full, one too long, and
  the controller the driver refuses.

Deadlock is checked in `heap`, `heap_any`, `sleeps` and `console`. The
others may stop: the kernel halts in an assertion (`pages`, `iso`, `boot`, `disk`), the
bound on heap blocks is reached (`disk`), initialisation ends (`tables`, `boot`), the
driver waits for a drive that never answers (`cd`, `disk`), or the model ends in `"astray"`,
where the driver works on memory it does not own (`iso`, `fat`, `boot`, `disk`).

## 4. Fairness

Safety is checked without relying on any. The kernel has one thread, which runs whenever no
handler does: weak fairness on `Driver` in `Atapi` and `Iso`, on `Kernel` in `Disk`, on
`PollClock` in `Timer`. `Atapi!FairSpec` adds `Irq(d)` (interrupts are on while the driver runs,
and the handler acknowledges both controllers) and `Works(d)` (a drive that is neither broken
nor finished answers). `EveryReadReturns` says nothing of a read whose drive has given up or
hangs, or during which a hard disk's interrupt came. `Disk!FairSpec` adds that a busy disk comes
to an end, with data or an error, or hangs; the wait for the ready bit is promised an end only
when the disk is not busy, and `CallReturns` excuses a disk that hangs, a CD read that does not
end and a driver that was initialised again. `Timer!FairClockSpec` adds `Tick` (the timer is
periodic and its handler acknowledges); `Tick` waits until the loop of `sleep` has looked at the
clock, since one turn is some hundred instructions at most and a tick a millisecond. Nothing
makes a caller ever begin a call, and no action needs strong fairness. `Ends` of `Iso` rests on
`Driver` alone: reads of sectors are taken to end.

## 5. Proofs

TLAPS checks all of them; each holds for every value of the constants that satisfies
the `ASSUME` of its module, and the further assumption named here where there is one.

* `KmallocProofs`. `TypeOK` needs no assumption on requests. `TableWellFormed` is inductive with
  it: every run starts where its address says, is inside the table and carries one pair
  throughout; then `Location` is right because the entry before a free run is the end of a whole
  run, and `kfree` clears a whole run. Under `SoundRequests` (more than 0 blocks, fewer than a
  `uint8_t` holds) each owner's span is exactly one run and no two owners hold the same one;
  this gives `EnoughBlocks`, `Disjoint` and `NoBlockLost`, and with it every step of `Kmalloc`
  is a step of `Heap` or a stutter: `ImplementsHeap`.
* `PagingProofs`. Under `SoundUse` (fewer programs than ids, no run longer than a `uint16_t`
  counts): the invariant says whose pages are held (`Ownership`, with `npages` of every first
  page equal to what its owner asked for), that free pages are closed (`Closed`, with the
  entries that let user mode in confined to the kernel's space and to first pages), and whose
  data each page can show. It gives `ShadowExact`, `Exclusive`, `ContentsKept`,
  `NothingLeftBehind` and `ImplementsHeap`. The frames are those of `FrameOf`; that the page
  tables of `PageTables` have them so behind the kernel's space is `FramesDriftAlways`.
* `PagingProofs`, page tables. Until the kernel's space is mapped, page *v* of table *t* has
  frame *v* − *t*: the tables are prepared in order (`Turns`) and each starts one frame early
  (`Prepared`). From there `FramesDrift` and `FramesOrdered` are arithmetic; `KernelIdentity`
  follows from the turns of `paging_map_kernelspace`. Assumed: `MapsFit`, every machine's shadow
  map fits the heap. `FramesLost` needs neither: a frame without a page lies behind the last one
  a table reaches, and there are *tables* − 1 of those at most.
* `InterruptProofs`, CD reads. The invariant relates `pc` to what the drive of the read still
  owes (`Owing`) and says that all other CD drives are at rest with no interrupt on the way
  (`Quiet`). `NothingStale` follows for any number of drives, disks and sectors and any faults;
  `BufferFilled` needs one more part, `InStep`: the flag is set in the wait only when the sector
  is being offered, unless a hard disk's interrupt is in `early`.
* `DiskProofs`, for any drives, sizes, widths of the address registers, contents and counts. The
  kernel's registers (`KernelOK`), the disks' (`DisksOK`) and the count of blocks (`Balance`)
  are inductive by themselves. `WritesInPlace` needs that a disk in a write it started is never
  ahead of the kernel (`WriteInStep`), `ReadExact` that the disk of a read that was started is
  exactly where the kernel takes it to be (`ReadInStep`). Both are about sectors whose number
  fits the registers (`Near`).
* `BootProofs`, for any functions, drives, lists and heap of at least four blocks. The heap
  after each part of `init_env` is stated as the blocks taken so far (`HeapSoFar`), the lists as
  prefixes of what the machine has (`ListSoFar`, `DriversSoFar`), the drives known as those
  below the index of the loop (`KnownSoFar`). `Boots` counts controllers (`SoundSoFar`): as many
  drivers are registered as controllers were passed, and fewer than the list holds.
  `TablesFound` counts hard disks: the place of a disk in `DISKS` is the number of disks below
  it (`Rank`, `TablesSoFar`), which tells disks apart. `Boots` is about `Sound` machines: a disc
  in each CD drive that ends every read, and a controller the driver does not refuse. All five
  invariants of the run are theorems.
* `ConsoleProofs`, for a screen of any size. The rows hold the last lines, the row below the
  cursor is blank, and a scroll takes both to the same place; `CursorShown`, `ShowsText` and
  `LinesStay` follow.
* `InterruptProofs`, timer. `OnTime` ties `wait_for`, `start`, `elapsed` and `ticks` together on
  both sides of the reset; `NoLongSleep` and `ExactAwayFromReset` follow.
* `KmallocProofs`, scan. The counter after an entry is the length of the free run that ends
  there (`AvailableIs`, by induction over the entries), and entries of one run count from the
  same first one (`SameRun`); so the first entry at which it equals the request ends the lowest
  run that fits: `ScanIsFirstFit`, in every state.
* `FatProofs`, for a table, directories and names of any size, on disks of both habits, under
  `SoundUse`: the byte that is taken for the number of sectors is right, and the words the
  driver takes for those of its directories are not free, as on a volume that is filled that
  far. Nothing is promised beyond `"astray"`. None of the invariants of the run is inductive,
  since between two writes the disk is not what it will be. `IInv` says where each half-done
  step stands. `WordsOK` is the table as a graph: the words of clusters in use where the driver
  looks (`Taken`) mark them so, links lead to clusters that were free there and go upwards in
  some order, but for a cluster linked to itself, which another links to as well. `FilesFree`
  says that no file that was saved is in a cluster of a chain. `ChoiceOK`, `LinkOK`, `EntryOK`
  and `MarkOK` say, label by label, what is known of the chosen cluster: that it belonged to
  nobody, is no file's, is still free in the table or already linked from an end, and named by
  the entry when it is written. The lemmas about chains (`ChainUnfolds`, `ChainShape`,
  `ChainEnds`) are inductions over the turns of the loop: a chain that follows links upwards
  ends before the turns run out. `Kept`, `NoClusterLost`, `OthersIntact` and `TypeOK` follow.
* `IsoProofs`, for volumes, paths, leftovers in the heap, heaps and page allocators of any size.
  `Safe`: each buffer that a variable holds is missing from the heap or from the pages
  (`MemoryOK`, which counts them), none was given back twice, and those still to be read are
  held; `TakesKeep`, `UsesKeep` and `GivesKeep` say that of a whole sequence of calls, and
  `Live` follows. `Right`: while the directory is looked for it lies at or behind the position
  the search has kept in its statics (`Ahead`), what was found is the directory or one of the
  same name that will be passed over, and no assertion is reached. The rest of the proof is what
  the names allow: two directories with the same path are one (`PathsDiffer`, along the
  parents), the walk up the parents names the path backwards (`Climb`, `ReversedIs`), and the
  directories of the same name differ from the path where the driver looks (`OthersDiffer`).
  `RightFile` follows.

Some theorems (`EnoughAlways`, `DisjointAlways`, `ExclusiveAlways`, `FramesDriftAlways`, and the
type invariants of `Kmalloc`, `Paging`, `Timer`, `Console` and `PageTables`) are about properties no run lists, because another property
of the run implies them or they are lemmas to it.

Induction over data goes through well-foundedness: the set of numbers for which a claim
fails would have a smallest member (`NatInd`, from `WFMin`). It also shows that a recursive
function over an interval exists, so that its equation may be used (`AvailableUnfolds`,
`ChainUnfolds`, `PathUnfolds`, `UpUnfolds`).

Every safety property of a passing run is a theorem. Only model-checked: liveness
(`EveryReadReturns`, `SleepEnds`, `CallReturns`, `Ends`), which TLAPS does not reach.

What the proofs asked for that the runs had not shown. `RightFile` needs that no directory
holds two directories of one name (in `NamesClear`; a volume that has them is malformed):
the run's volumes have none. "sub", the directory that is there from the start, must not be one of
the names that are saved (`FatAssumption`). `Iso` says of volumes that a parent precedes its
children, as ISO9660 orders the path table, and that names are sequences of strings.

## 6. What the models leave out

* A pointer into the middle of a block or a page. Nothing in the kernel makes one.
* What `kfree` of an unknown pointer does behind the end of `memory_t`; what is
  written behind the last block by a caller that was given too few.
* The TLB. `ASM_CPU_INVLPG` names the wrong page (`cpu/asm_cpu.asm:136`).
* The second word of a page's attributes and which accesses user programs make.
* Interrupts are taken before the driver's next instruction; a drive raises its
  interrupt in the moment its status changes. Drives that also interrupt before they
  accept the packet, an old kind, are not modelled. The byte count a drive reports is
  the one the driver asked for, unless the drive has given up: then the assertion on it
  may fail (`CheckSize`). What the commands to hard disks do to the bit between two CD
  reads is one step (`DiskCall`).
* The heap running out under `Disk` and `Boot`: `read`, `write` and the lists of `init_env`
  do not look at what `kmalloc` returns. What an initialisation of the IDE driver with the
  wrong controller does to other ports (`"astray"`).
* The boot loader is taken to have left what `main` finds (`kmalloc` before `memory_init`
  works on a table of zeroes).
* Accesses to PCI configuration space: what is read is a function of the machine.
* `memsrch`, which looks for driver headers in the image of the kernel: a pure search;
  `Boot` takes it to find the drivers there are.
* FAT: reading by path (`Kept` is about the entry, the word and the cluster of a file, not
  about the search for a path), the bytes that the conversion makes of a name, its buffers,
  attributes of entries, deleted entries, FAT tables of more
  than one sector and directories deeper than one level. A cluster is one sector. What
  follows an empty or a long file, an ignored command or a write outside the table: the
  model ends there, and so does what the properties say.
* ISO9660: file contents; reads of sectors that do not end or give nothing (`Atapi` says
  when). A directory is read in one turn: the smaller buffer of `drv/FS/iso9660.c:348` is asked
  for only after `valloc` has failed, which halts the kernel. The byte `reverse_path` writes
  before its string: in the heap it is the last byte of the block before, behind what its owner
  asked for unless that is a multiple of 512.
  All entries of the path table are of one length, but that a volume may have one across the end
  of its first sector.
* Not modelled at all: ELF headers and the jump to a program, the boot loader in
  assembly, segments and processor setup, panic and debug output, colours, port I/O. These
  are single instructions, constant tables or output; where a failed `dbg_assert` bites it
  is in the models.

## 7. Defects found while modelling

One is shown by a run whose property says what a comment of the code says (`findings` in
`PROJECT.json`):

* `fat_fresh`: the driver indexes the FAT, a table of 32-bit words, with byte offsets
  (`drv/FS/fat.c:451`), so that on a fresh volume the cluster "free" for a new file is one in
  use.

The others are visible in the models, as the condition of a property or as the way an
action goes; they have no run of their own. Names in brackets are where to look.

*Memory.* The number of blocks is cut to eight bits in `kmalloc`, so a request of 256
blocks or more gets too few (`SoundRequests`). `task_new_pid` hands out 255, the id that
means "unallocated", after 254 programs (`SoundUse`). `paging_find_free` wants one page
more than it was asked for, and `valloc` halts the kernel with a fitting run free (`Fits`).
Two pages where two page tables meet have one frame: what the holder of one writes, and what
`vfree` clears through it, is the other's (`Shared`, the exception in `ContentsKept`): each page
table repeats the last frame of the one before (`memory/paging.c:257`). So the tables do not
reach all the memory they are counted for (`FramesDrift`, `FramesLost`). The
loader passes 4096 for the request of a program's stack and takes the first byte of the run for
the stack pointer (`Requesters`, `BelowStack`). The shadow map of
a machine above about 85 MiB does not fit the heap and the result of `kmalloc` is not tested
(`MapsFit`). A kernel space as long as a page table leaves the last of its frames mapped a
second time (`FramesOrdered`).

*CD reads.* `status = inb(...) & 0x08` hides the error bit: a drive that refuses a packet
command is waited for forever (`WaitDrq`). A read of several sectors moves all of them after
the interrupt for the first (`BufferFilled`). A read the drive gives up after the packet
returns success, unless an assertion on the byte count fails. All four drives set one
bit, and no command to a hard disk waits for its interrupt: one that comes late ends the wait
of a CD read early, after which the data are taken before they are there, or an assertion halts
the kernel (`early`). The loop under "wait for second IRQ or timeout" has no timeout
(`IDEController.c:537`): a drive that hangs stops the kernel (`Poll`).

*Hard disks.* The number of a sector is cut to a byte before it is shifted right by 24
(`IDEController.c:418`, 457): behind 8 GiB a read returns, and a write changes, another sector
(`Near`). Every write ends with a second WRITE command that is left pending (`EndWrite`); a
disk that ignores commands while it asks for data then ignores the next one, which returns
success; the data of a write go where the pending command says. Sectors after the first are lost
when they are sent while the disk is busy, since the wait looks at bit 0x40 only (`Ready`). The
buffer pointer of a read moves twice a sector (`Place`). A count of 0 is 256 sectors to the disk
and none to the loop (`Sectors`). `IDE_getDriveType` reads 255 of 256 words (`Identified`). A
write to a CD drive, or a command for an unknown one, is NULL, which is `DRV_COMMAND_INIT`: the
driver is initialised again, with the number of the drive where that of the controller belongs
(`Reinit`), and success returned (`Dispatch`). A disk that stays busy is waited for without end.
No error of the IDE driver reaches a caller. `to_actual_drive` keeps its list when the drive is
found (`dsk/diskio.c:215`), `read` its packet when it refuses (`Refused`); `write` never looks
at the number of the drive.

*Boot.* `bus & 0xFF << 24` is 0, so the bus of a function is lost (`Word`). Without an IDE
controller the driver is given the second entry of a list that was never filled, and an
assertion stops the kernel; a function whose word is 0 ends the search early (`Listed`). A list
that is exactly full is searched past its end; neither it (`hardware/pci.c:82`) nor `drv_list`
(`hardware/driver.c:149`) has a bound. A CD drive without a disc halts the kernel in one of
several assertions, unless what its port gives passes for a descriptor (`IsoInit`). The block
`main` took before `memory_init` (`kernel.c:146`) is the first of the shadow map by the time
`main` writes its packet there (`kernel.c:155`): the words of the packet, and the answer to it,
replace the entries of the first pages, three bytes each (`PacketInShadowMap`); they are the
kernel's and never freed, but a byte of 255 where an id belongs makes one of them look free.
Before that, `MBR_enumerate` reads with the first command after IDENTIFY, which a strict disk
ignores (`TableOf`); its error return cannot be reached. `FAT_init` looks in `DISKS`, which
counts hard disks, with the number of the drive (`TablesFound`). `memsrch` and `find_in_str` do
not look again at the byte that did not match.

*ISO9660.* All CD drives share one descriptor (`WrongDrive`). A single parent is not looked at
(`ParentsSeen`); those of a path of one directory are read from behind the end of its string
(`Words`, `HeapClear`). A missing file is an assertion. An entry of odd length puts a resumed
search out of step (`Resume`). An index beyond the first sector of the path table is looked for
forever, with a buffer lost in each turn until `valloc` halts the kernel, or is not found at all
and NULL is read (`CheckEndless`). The search for a file halts on the zeroes at the end of the
first sector of a directory (`NotReached`). Each read leaves two lists of drives behind.
`reverse_path` writes a slash on the byte before its string. The buffer of the sector in which a
directory is found is never given back (`Found`), nor are those its parents are read through
(`SectorsRead`).

*FAT.* `SectClust` is read from a buffer that is never filled from the disk (`buffer`). Saving
in the root directory copies `strlen(NULL) - 1` bytes (`Dies`). Names are built on the stack
without an end (`Found`). A full directory is extended by the cluster just chosen for the
file (`Choose`), and written from a buffer that was given back (`WriteEntry`). A write
leaves the disk in the middle of a command, and one that ignores what comes next makes the
driver go on with what its buffer held: the FIXME of `fat.c:203` (`Misled`). The number of
further clusters of an empty file wraps, those of a long one are stored behind the
array (`WriteEntry`); a word above cluster 31 of a sector is stored behind the table
(`UpdateFat`). A name with a dot is not converted and not ended, so it is not found
again (`Dotted`). The entry is written before the FAT, so that a crash leaves an entry that
points to a free cluster (`NoClusterLost` says that it leaves nothing worse). `update_dir`
copies one byte more than it allocates.

*Screen.* Nothing starts a new line at the right edge; a backspace in the first column
makes the column 65535 (`Before`); the bounds of `putchar` and `getchar` let one row and
one column too many through (`Draw`).

*Timer.* A sleep that reaches over the reset of the clock ends at once, since the sum has
wrapped before it is compared (`ExactAwayFromReset` is as much as holds).

## 8. Plan

Modelled, in the order in which they were built: the two allocators and their abstract
specification, the page tables, CD reads, the timer; then the path to the hard disks, how
the kernel comes up, ISO9660, FAT and the screen. What is left, most important first:

1. FAT: reading by path and through chains of several clusters, deleted entries, tables of
   more than one sector. Property: a read returns what the chain holds, or an error.
2. `Fat` over `Disk`, with the ignored command as a step of the disk.
3. `Iso` over `Kmalloc` and `Paging` themselves instead of counters.
4. `memsrch` and the conversions of names against reference definitions.
5. The type invariant of `Boot`, and `Iso` and `Kmalloc` related by a refinement of the
   counters of `Iso` (with 3).
