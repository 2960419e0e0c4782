----------------------------- MODULE PageTables -----------------------------
(***************************************************************************)
(* paging_init of core/memory/paging.c: how the page directory, the page   *)
(* tables and the shadow map are laid out behind the kernel heap before    *)
(* paging is switched on, for a machine of any size.  Addresses are page   *)
(* numbers; the directory is the page DirPage, table i the page behind it. *)
(* The heap is empty at this point: memory_init has just wiped it.         *)
(***************************************************************************)
EXTENDS Integers, FiniteSets

CONSTANTS
    Machines,    \* available memory, in pages, of the machines considered
    TableSize,   \* PAGING_TABLE_SIZE
    DirPage,     \* MEMORY_VIRTUAL_TABLES, the first page behind the heap
    EntryBytes,  \* sizeof(shadow_allocated): 3
    BlockBytes,  \* MEMORY_BLOCK_SIZE
    HeapBlocks,  \* MEMORY_TABLE_LENGTH
    LowBlocks,   \* blocks of memory below the kernel (MEMORY_KERNELSTRT)
    ByteMod      \* values of a uint8_t

ASSUME PageTablesAssumption ==
    /\ Machines \subseteq Nat
    /\ TableSize \in Nat /\ TableSize > 1
    /\ DirPage \in Nat \ {0}
    /\ EntryBytes \in Nat \ {0} /\ BlockBytes \in Nat \ {0}
    /\ HeapBlocks \in Nat \ {0} /\ LowBlocks \in Nat
    /\ ByteMod \in Nat /\ ByteMod > HeapBlocks

NoTable == -1

VARIABLES
    pages,    \* g_max_pages, and shadow_len
    dir,      \* dir[d]: the table the directory's entry d points to, or NoTable
    entry,    \* entry[v]: the frame the table entry of page v holds
    prevEnd,  \* the static previous_end of paging_prepare_table, as a frame
    shadow,   \* where the shadow map is
    intact,   \* the kernel, the directory and the tables are not overwritten
    mapped,   \* pages of the kernel's space that are marked in the shadow map
    phase     \* what paging_init does next

tablesVars == <<pages, dir, entry, prevEnd, shadow, intact, mapped, phase>>

HowMany(n, d) == (n \div d) + (IF n % d # 0 THEN 1 ELSE 0)

Tables == HowMany(pages, TableSize)
Entries == 0..(Tables * TableSize - 1)

\* The value of end_of_kernel_space, for a machine of n pages.
EndOfKernelOf(n) == DirPage + 1 + HowMany(n, TableSize)
EndOfKernel == EndOfKernelOf(pages)

\* The directory has been cleared of tables.
TablesInit ==
    /\ pages \in {n \in Machines : EndOfKernelOf(n) <= n}
    /\ dir = [d \in 0..(Tables - 1) |-> NoTable]
    /\ entry = [v \in Entries |-> 0]
    /\ prevEnd = 0
    /\ shadow = "none"
    /\ intact = TRUE
    /\ mapped = 0
    /\ phase = "tables"
-----------------------------------------------------------------------------
\* paging_prepare_table for table t: a table starts where the last one ended.
FrameBehind(j) == prevEnd + j + 1
FrameFromZero(j) == j
FrameAt(j) == prevEnd + j

PrepareTable(t) ==
    /\ phase = "tables"
    /\ dir[t] = NoTable
    /\ \A d \in 0..(t - 1) : dir[d] # NoTable
    /\ dir' = [dir EXCEPT ![t] = t]
    /\ entry' = [v \in Entries |-> IF v \div TableSize = t THEN FrameAt(v % TableSize) ELSE entry[v]]
    /\ prevEnd' = FrameAt(TableSize - 1)
    /\ phase' = IF t = Tables - 1 THEN "shadow" ELSE phase
    /\ UNCHANGED <<pages, shadow, intact, mapped>>

\* The blocks the shadow map takes, and how many of them kmalloc is left with
\* after its cast to uint8_t.
ShadowBlocks == HowMany(pages * EntryBytes, BlockBytes)
Granted == ShadowBlocks % ByteMod

\* Where kmalloc puts the shadow map: at the start of the empty heap; at NULL,
\* which nobody tests for, when the heap is too small; anywhere, when the cast
\* leaves 0 blocks and kmalloc reads behind its table.
ShadowAt == CASE Granted = 0         -> {"unknown"}
              [] Granted > HeapBlocks -> {"null"}
              [] OTHER                -> {"heap"}

\* The memset of the whole map.  From the start of the heap it reaches the
\* directory when the map is longer than the heap, and from NULL the kernel.
PlaceShadow ==
    /\ phase = "shadow"
    /\ shadow' \in ShadowAt
    /\ intact' \in (CASE shadow' = "heap"    -> {ShadowBlocks <= HeapBlocks}
                      [] shadow' = "null"    -> {ShadowBlocks <= LowBlocks}
                      [] shadow' = "unknown" -> BOOLEAN)
    /\ phase' = "kernel"
    /\ UNCHANGED <<pages, dir, entry, prevEnd, mapped>>

\* One turn of paging_map_kernelspace: paging_map writes the entry of the page
\* in the table the directory points to.
LastKernelPageShort == EndOfKernel - 2
LastKernelPage == EndOfKernel - 1

MapKernelPage ==
    /\ phase = "kernel"
    /\ entry' = IF intact THEN [entry EXCEPT ![mapped] = mapped] ELSE entry
    /\ mapped' = mapped + 1
    /\ phase' = IF mapped = LastKernelPage THEN "enable" ELSE phase
    /\ UNCHANGED <<pages, dir, prevEnd, shadow, intact>>

\* ASM_CPU_PAGING_ENABLE
Enable ==
    /\ phase = "enable"
    /\ phase' = "on"
    /\ UNCHANGED <<pages, dir, entry, prevEnd, shadow, intact, mapped>>

TablesNext == \/ \E t \in 0..(Tables - 1) : PrepareTable(t)
              \/ PlaceShadow
              \/ MapKernelPage
              \/ Enable

TablesSpec == TablesInit /\ [][TablesNext]_tablesVars
-----------------------------------------------------------------------------
\* paging_vptr_to_pptr for a page with an entry, and what the processor does.
Frame(v) == entry[v]

TablesTypeOK ==
    /\ pages \in Machines
    /\ dir \in [0..(Tables - 1) -> {NoTable} \cup 0..(Tables - 1)]
    /\ entry \in [Entries -> Nat]
    /\ prevEnd \in Nat
    /\ shadow \in {"none", "heap", "null", "unknown"}
    /\ intact \in BOOLEAN
    /\ mapped \in 0..EndOfKernel
    /\ phase \in {"tables", "shadow", "kernel", "enable", "on"}

\* The moment paging is on, the kernel goes on at the addresses it was using:
\* its code, its heap, the directory and every table map to themselves, for
\* every machine whose shadow map the heap can hold.
KernelIdentity ==
    phase = "on" => /\ intact
                    /\ \A v \in 0..(EndOfKernel - 1) : Frame(v) = v

\* Of two pages behind the kernel's space the later never has the earlier
\* frame, no page valloc can give out has a frame the machine lacks, and as long as
\* the kernel's space lies within the first table none has one of the kernel's.  (In
\* a larger machine the first page behind it is the last page table once more.)
FramesOrdered ==
    phase = "on" =>
       \A v \in EndOfKernel..(pages - 1) :
          /\ Frame(v) < pages
          /\ EndOfKernel < TableSize => Frame(v) >= EndOfKernel
          /\ \A w \in EndOfKernel..v : Frame(w) <= Frame(v)

\* A table starts with the frame the one before ended with, so that behind the
\* kernel's space every table shifts the frames by one more, and the last page
\* of a table has the frame of the first page of the next.
FramesDrift ==
    phase = "on" => \A v \in EndOfKernel..(pages - 1) : Frame(v) = v - v \div TableSize

\* "the amount of page tables required to map all of the memory available"
\* (paging.c:215): a table starts with the frame the one before ended with, so
\* that frames are left without a page, though fewer than there are tables.
FramesLost ==
    phase = "on" =>
       Cardinality({f \in 0..(pages - 1) : \A v \in Entries : Frame(v) # f}) < Tables
=============================================================================
