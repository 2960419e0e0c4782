---------------------------- MODULE PagingProofs ----------------------------
(***************************************************************************)
(* What holds of the pages of a machine of any size: of the tables that    *)
(* paging_init builds (PageTables), and of valloc, vfree and the shadow    *)
(* map (Paging), for every number of pages, of process ids and of callers. *)
(***************************************************************************)
EXTENDS Paging, PageTables, FiniteSetTheorems, TLAPS

-----------------------------------------------------------------------------
(* The tables.  The invariant says which frame each page has: a table starts *)
(* with the frame the one before ended with, so that page v of table t has   *)
(* frame v - t until the kernel's space is mapped to itself.                 *)

\* Which table a page is in, and how far behind the frame of its own number it is.
Drift(v) == v \div TableSize

\* The tables prepared so far are the first ones.
Prepared(n) == \A d \in 0..Tables - 1 : dir[d] = NoTable <=> d >= n

FramesSoFar ==
    IF phase = "tables"
    THEN \E n \in 0..Tables :
            /\ Prepared(n)
            /\ prevEnd = n * (TableSize - 1)
            /\ \A v \in Entries : Drift(v) < n => entry[v] = v - Drift(v)
    ELSE \A v \in Entries : entry[v] = IF intact /\ v < mapped THEN v ELSE v - Drift(v)

Turns ==
    /\ phase \in {"tables", "shadow"} => mapped = 0
    /\ phase = "kernel" => mapped < EndOfKernel
    /\ phase \in {"enable", "on"} => mapped = EndOfKernel

Inv == /\ TablesTypeOK
       /\ phase \in {"tables", "shadow", "kernel", "enable", "on"}
       /\ EndOfKernel <= pages
       /\ FramesSoFar
       /\ Turns
-----------------------------------------------------------------------------
(* Sizes.                                                                   *)

\* HOW_MANY rounds up.
LEMMA HowManyRoundsUp ==
    ASSUME NEW n \in Nat, NEW d \in Nat \ {0}
    PROVE  /\ HowMany(n, d) \in Nat
           /\ n <= HowMany(n, d) * d
           /\ n > 0 => HowMany(n, d) > 0
<1> DEFINE q == n \div d
           r == n % d
<1>1. /\ q \in Nat /\ r \in 0..d - 1 /\ n = d * q + r
  OBVIOUS
<1>2. (q + 1) * d = d * q + d /\ q * d = d * q
  BY <1>1
<1>3. n > 0 /\ r = 0 => q > 0
  BY <1>1
<1> HIDE DEF q, r
<1>4. HowMany(n, d) = IF r = 0 THEN q ELSE q + 1
  BY <1>1 DEF HowMany, q, r
<1> QED
  BY <1>1, <1>2, <1>3, <1>4

\* The numbers of a machine that can hold the kernel.
LEMMA TablesSizes ==
    ASSUME pages \in Machines, EndOfKernel <= pages
    PROVE  /\ pages \in Nat /\ pages > 0 /\ TableSize \in Nat /\ TableSize > 1
           /\ Tables \in Nat /\ Tables > 0 /\ pages <= Tables * TableSize
           /\ Tables * TableSize \in Nat
           /\ EndOfKernel \in Nat /\ EndOfKernel > 1 /\ 0..pages - 1 \subseteq Entries
<1>1. /\ pages \in Nat /\ TableSize \in Nat \ {0} /\ TableSize > 1 /\ DirPage \in Nat \ {0}
  BY PageTablesAssumption
<1>2. /\ Tables \in Nat /\ pages <= Tables * TableSize /\ (pages > 0 => Tables > 0)
  BY <1>1, HowManyRoundsUp DEF Tables
<1>3. EndOfKernel = DirPage + 1 + Tables
  BY DEF EndOfKernel, EndOfKernelOf, Tables
<1> QED
  BY <1>1, <1>2, <1>3 DEF Entries

\* Pages drift behind, but never one behind another.
LEMMA DriftAscends ==
    ASSUME NEW v \in Nat, NEW w \in Nat, w <= v
    PROVE  /\ Drift(v) \in Nat /\ Drift(v) <= v
           /\ w - Drift(w) <= v - Drift(v)
           /\ v < TableSize => Drift(v) = 0
<1>1. TableSize \in Nat \ {0}
  BY PageTablesAssumption
<1> QED
  BY <1>1 DEF Drift

\* Page j of table t.
LEMMA DriftInTable ==
    ASSUME NEW v \in Nat, NEW t \in Nat, Drift(v) = t
    PROVE  v - t = t * (TableSize - 1) + (v % TableSize)
<1>1. TableSize \in Nat \ {0}
  BY PageTablesAssumption
<1>2. v = TableSize * t + (v % TableSize)
  BY <1>1 DEF Drift
<1>3. TableSize * t = t * (TableSize - 1) + t
  BY <1>1
<1>4. v % TableSize \in Nat /\ t * (TableSize - 1) \in Nat
  BY <1>1
<1> QED
  BY <1>1, <1>2, <1>3, <1>4
-----------------------------------------------------------------------------
(* The invariant.                                                           *)

LEMMA InitInv == TablesInit => Inv
<1> SUFFICES ASSUME TablesInit PROVE Inv
  OBVIOUS
<1>1. pages \in Machines /\ EndOfKernel <= pages
  BY DEF TablesInit, EndOfKernel
<1>2. /\ Tables \in Nat /\ EndOfKernel \in Nat /\ TableSize \in Nat
  BY <1>1, TablesSizes
<1>3. TablesTypeOK
  BY <1>1, <1>2 DEF TablesInit, TablesTypeOK
<1>4. FramesSoFar
  <2>1. Prepared(0)
    BY <1>2 DEF TablesInit, Prepared
  <2>2. prevEnd = 0 * (TableSize - 1)
    BY <1>2 DEF TablesInit
  <2>3. \A v \in Entries : ~ Drift(v) < 0
    BY <1>2, TablesSizes, <1>1, DriftAscends DEF Entries
  <2> QED
    BY <1>2, <2>1, <2>2, <2>3 DEF TablesInit, FramesSoFar
<1> QED
  BY <1>1, <1>3, <1>4 DEF TablesInit, Inv, Turns

\* A table is prepared behind those there are.
LEMMA PrepareStep ==
    ASSUME Inv, NEW t \in 0..Tables - 1, PrepareTable(t)
    PROVE  Inv'
<1>1. /\ pages \in Machines /\ EndOfKernel <= pages /\ Tables \in Nat /\ Tables > 0
      /\ TableSize \in Nat /\ TableSize > 1 /\ EndOfKernel \in Nat
      /\ phase = "tables" /\ dir[t] = NoTable /\ t \in Nat
  BY TablesSizes DEF Inv, TablesTypeOK, PrepareTable
<1>2. /\ pages' = pages /\ mapped' = mapped /\ shadow' = shadow /\ intact' = intact
      /\ Tables' = Tables /\ Entries' = Entries /\ EndOfKernel' = EndOfKernel
  BY DEF PrepareTable, Tables, Entries, EndOfKernel
<1>3. PICK n \in 0..Tables :
         /\ Prepared(n) /\ prevEnd = n * (TableSize - 1)
         /\ \A v \in Entries : Drift(v) < n => entry[v] = v - Drift(v)
  BY <1>1 DEF Inv, FramesSoFar
<1>4. t = n
  <2>1. t >= n
    BY <1>1, <1>3 DEF Prepared
  <2>2. ~ t > n
    BY <1>1, <1>3 DEF Prepared, PrepareTable
  <2> QED
    BY <1>1, <2>1, <2>2
<1>5. /\ entry \in [Entries -> Nat] /\ dir \in [0..Tables - 1 -> {NoTable} \cup 0..Tables - 1]
      /\ t * (TableSize - 1) \in Nat /\ NoTable \notin Nat
      /\ (t + 1) * (TableSize - 1) = t * (TableSize - 1) + (TableSize - 1)
  BY <1>1 DEF Inv, TablesTypeOK, NoTable
<1>6. ASSUME NEW v \in Entries
      PROVE  /\ v \in Nat /\ Drift(v) \in Nat /\ Drift(v) <= v
             /\ entry'[v] = IF Drift(v) = t THEN v - Drift(v) ELSE entry[v]
  <2>1. v \in Nat /\ v % TableSize \in Nat
    BY <1>1 DEF Entries
  <2>2. Drift(v) \in Nat /\ Drift(v) <= v
    BY <2>1, DriftAscends
  <2>3. Drift(v) = t => v - t = FrameAt(v % TableSize)
    BY <1>1, <1>3, <1>4, <2>1, DriftInTable DEF FrameAt
  <2> QED
    BY <2>1, <2>2, <2>3 DEF PrepareTable, Drift
<1>7. prevEnd' = (t + 1) * (TableSize - 1) /\ prevEnd' \in Nat
  BY <1>1, <1>3, <1>4, <1>5 DEF PrepareTable, FrameAt
<1>8. TablesTypeOK'
  <2>1. entry' \in [Entries -> Nat]
    <3>1. entry' = [v \in Entries |-> entry'[v]]
      BY DEF PrepareTable
    <3>2. \A v \in Entries : entry'[v] \in Nat
      BY <1>5, <1>6
    <3> QED
      BY <3>1, <3>2
  <2>2. dir' \in [0..Tables - 1 -> {NoTable} \cup 0..Tables - 1]
    BY <1>5 DEF PrepareTable
  <2>3. phase' \in {"tables", "shadow"}
    BY <1>1 DEF PrepareTable
  <2> QED
    BY <1>1, <1>2, <1>7, <2>1, <2>2, <2>3 DEF Inv, TablesTypeOK
<1>9. FramesSoFar'
  <2>1. \A v \in Entries : Drift(v) < t + 1 => entry'[v] = v - Drift(v)
    BY <1>1, <1>3, <1>4, <1>6
  <2>2. CASE t = Tables - 1
    <3>1. phase' = "shadow"
      BY <2>2 DEF PrepareTable
    <3>2. \A v \in Entries : Drift(v) < t + 1
      <4> SUFFICES ASSUME NEW v \in Entries PROVE Drift(v) < t + 1
        OBVIOUS
      <4>1. v \in Nat /\ v < Tables * TableSize
        BY <1>1, TablesSizes DEF Entries
      <4>2. v \div TableSize < Tables
        BY <1>1, <4>1
      <4> QED
        BY <1>1, <2>2, <4>2 DEF Drift
    <3>3. mapped' = 0
      BY <1>1, <1>2 DEF Inv, Turns
    <3>4. \A v \in Entries : v \in Nat /\ ~ v < 0
      BY <1>6
    <3> QED
      BY <1>2, <2>1, <3>1, <3>2, <3>3, <3>4 DEF FramesSoFar, Drift
  <2>3. CASE t # Tables - 1
    <3>1. phase' = "tables" /\ t + 1 \in 0..Tables
      BY <1>1, <2>3 DEF PrepareTable
    <3>2. \A d \in 0..Tables - 1 : dir'[d] = NoTable <=> d >= t + 1
      <4> SUFFICES ASSUME NEW d \in 0..Tables - 1 PROVE dir'[d] = NoTable <=> d >= t + 1
        OBVIOUS
      <4>1. dir'[d] = IF d = t THEN t ELSE dir[d]
        BY <1>5 DEF PrepareTable
      <4>2. dir[d] = NoTable <=> d >= t
        BY <1>3, <1>4 DEF Prepared
      <4> QED
        BY <1>1, <1>5, <4>1, <4>2
    <3>3. Prepared(t + 1)'
      BY <1>2, <3>2 DEF Prepared
    <3> QED
      BY <1>2, <1>7, <2>1, <3>1, <3>3 DEF FramesSoFar, Drift
  <2> QED
    BY <2>2, <2>3
<1>10. Turns'
  BY <1>1, <1>2 DEF Inv, Turns, PrepareTable
<1> QED
  BY <1>1, <1>2, <1>8, <1>9, <1>10 DEF Inv, PrepareTable

\* The shadow map is placed: the tables are as they were.
LEMMA PlaceStep ==
    ASSUME Inv, PlaceShadow
    PROVE  Inv'
<1>1. /\ EndOfKernel \in Nat /\ EndOfKernel > 1 /\ phase = "shadow" /\ phase' = "kernel"
      /\ pages' = pages /\ dir' = dir /\ entry' = entry /\ prevEnd' = prevEnd /\ mapped' = mapped
      /\ Tables' = Tables /\ Entries' = Entries /\ EndOfKernel' = EndOfKernel
  BY TablesSizes DEF Inv, TablesTypeOK, PlaceShadow, Tables, Entries, EndOfKernel
<1>2. shadow' \in {"none", "heap", "null", "unknown"} /\ intact' \in BOOLEAN
  <2>1. shadow' \in {"unknown", "null", "heap"}
    BY DEF PlaceShadow, ShadowAt
  <2>2. /\ shadow' = "heap" => intact' = (ShadowBlocks <= HeapBlocks)
        /\ shadow' = "null" => intact' = (ShadowBlocks <= LowBlocks)
        /\ shadow' = "unknown" => intact' \in BOOLEAN
    BY DEF PlaceShadow
  <2>3. /\ (ShadowBlocks <= HeapBlocks) \in BOOLEAN
        /\ (ShadowBlocks <= LowBlocks) \in BOOLEAN
    OBVIOUS
  <2> QED
    BY <2>1, <2>2, <2>3
<1>3. mapped = 0
  BY <1>1 DEF Inv, Turns
<1>4. \A v \in Entries : ~ v < 0
  BY TablesSizes DEF Inv, TablesTypeOK, Entries
<1>5. FramesSoFar'
  BY <1>1, <1>3, <1>4 DEF Inv, FramesSoFar, Drift
<1> QED
  BY <1>1, <1>2, <1>3, <1>5 DEF Inv, TablesTypeOK, Turns

\* A page of the kernel is mapped: it becomes its own frame.
LEMMA MapStep ==
    ASSUME Inv, MapKernelPage
    PROVE  Inv'
<1>1. /\ EndOfKernel \in Nat /\ EndOfKernel > 1 /\ phase = "kernel"
      /\ pages' = pages /\ dir' = dir /\ prevEnd' = prevEnd /\ shadow' = shadow /\ intact' = intact
      /\ Tables' = Tables /\ Entries' = Entries /\ EndOfKernel' = EndOfKernel
  BY TablesSizes DEF Inv, TablesTypeOK, MapKernelPage, Tables, Entries, EndOfKernel
<1>2. mapped \in Nat /\ mapped < EndOfKernel /\ mapped' = mapped + 1
  BY <1>1 DEF Inv, TablesTypeOK, Turns, MapKernelPage
<1>3. mapped \in Entries
  BY <1>1, <1>2, TablesSizes DEF Inv, TablesTypeOK
<1>4. entry \in [Entries -> Nat] /\ entry' \in [Entries -> Nat]
  BY <1>2, <1>3 DEF Inv, TablesTypeOK, MapKernelPage
<1>5. \A v \in Entries : entry'[v] = IF intact /\ v = mapped THEN v ELSE entry[v]
  BY <1>3, <1>4 DEF MapKernelPage
<1>6. \A v \in Entries : v \in Nat
  BY TablesSizes DEF Inv, TablesTypeOK, Entries
<1>7. phase' = IF mapped = EndOfKernel - 1 THEN "enable" ELSE "kernel"
  BY <1>1 DEF MapKernelPage, LastKernelPage
<1>8. FramesSoFar'
  <2>1. \A v \in Entries : entry[v] = IF intact /\ v < mapped THEN v ELSE v - Drift(v)
    BY <1>1 DEF Inv, FramesSoFar
  <2>2. \A v \in Entries : v < mapped + 1 <=> v < mapped \/ v = mapped
    BY <1>2, <1>6
  <2>3. \A v \in Entries : entry'[v] = IF intact /\ v < mapped + 1 THEN v ELSE v - Drift(v)
    BY <1>5, <2>1, <2>2
  <2> QED
    BY <1>1, <1>2, <1>7, <2>3 DEF FramesSoFar, Drift
<1>9. Turns'
  BY <1>1, <1>2, <1>7 DEF Turns
<1>10. TablesTypeOK'
  <2>1. phase' \in {"tables", "shadow", "kernel", "enable", "on"} /\ mapped' \in 0..EndOfKernel
    BY <1>1, <1>2, <1>7
  <2> QED
    BY <1>1, <1>4, <2>1 DEF Inv, TablesTypeOK
<1> QED
  BY <1>1, <1>7, <1>8, <1>9, <1>10 DEF Inv

LEMMA EnableStep ==
    ASSUME Inv, Enable \/ UNCHANGED tablesVars
    PROVE  Inv'
<1>a. /\ pages' = pages /\ dir' = dir /\ entry' = entry /\ prevEnd' = prevEnd
      /\ shadow' = shadow /\ intact' = intact /\ mapped' = mapped
  BY DEF Enable, tablesVars
<1>b. phase' = phase \/ (phase = "enable" /\ phase' = "on")
  BY DEF Enable, tablesVars
<1>1. /\ pages' = pages /\ dir' = dir /\ entry' = entry /\ prevEnd' = prevEnd
      /\ shadow' = shadow /\ intact' = intact /\ mapped' = mapped
      /\ Tables' = Tables /\ Entries' = Entries /\ EndOfKernel' = EndOfKernel
      /\ phase' = phase \/ (phase = "enable" /\ phase' = "on")
  BY <1>a, <1>b DEF Tables, Entries, EndOfKernel
<1>2. TablesTypeOK' /\ Turns' /\ phase' \in {"tables", "shadow", "kernel", "enable", "on"}
  BY <1>1 DEF Inv, TablesTypeOK, Turns
<1>3. FramesSoFar'
  BY <1>1 DEF Inv, FramesSoFar, Drift, Prepared
<1> QED
  BY <1>1, <1>2, <1>3 DEF Inv

LEMMA InvAlways == TablesSpec => []Inv
<1>1. Inv /\ [TablesNext]_tablesVars => Inv'
  BY PrepareStep, PlaceStep, MapStep, EnableStep DEF TablesNext
<1> QED
  BY InitInv, <1>1, PTL DEF TablesSpec
-----------------------------------------------------------------------------
(* The theorems.                                                            *)

\* The directory and the tables hold what they should throughout paging_init, on every
\* machine that can hold its kernel.
THEOREM TablesTypeCorrect == TablesSpec => []TablesTypeOK
<1>1. Inv => TablesTypeOK
  BY DEF Inv
<1> QED
  BY InvAlways, <1>1, PTL

\* Frames ascend with the pages behind the kernel's space, and none is one the machine
\* lacks, for a memory of any size (paging_prepare_table, paging_map_kernelspace).
THEOREM FramesOrderedAlways == TablesSpec => []FramesOrdered
<1>1. Inv => FramesOrdered
  <2> SUFFICES ASSUME Inv, phase = "on", NEW v \in EndOfKernel..(pages - 1)
               PROVE  /\ Frame(v) < pages
                      /\ EndOfKernel < TableSize => Frame(v) >= EndOfKernel
                      /\ \A w \in EndOfKernel..v : Frame(w) <= Frame(v)
    BY DEF FramesOrdered
  <2>1. /\ EndOfKernel \in Nat /\ pages \in Nat /\ TableSize \in Nat /\ TableSize > 1
        /\ mapped = EndOfKernel /\ 0..pages - 1 \subseteq Entries
    BY TablesSizes DEF Inv, TablesTypeOK, Turns
  <2>2. \A w \in EndOfKernel..v : w \in Nat /\ w \in Entries /\ ~ w < mapped
    BY <2>1
  <2>3. \A w \in EndOfKernel..v : Frame(w) = w - Drift(w)
    BY <2>2 DEF Inv, FramesSoFar, Frame
  <2>4. v \in Nat /\ v \in EndOfKernel..v /\ v < pages /\ v >= EndOfKernel
    BY <2>1
  <2>5. Frame(v) = v - Drift(v) /\ Drift(v) \in Nat /\ Drift(v) <= v
    BY <2>3, <2>4, DriftAscends
  <2>6. EndOfKernel < TableSize => Frame(v) >= EndOfKernel
    <3>1. CASE v < TableSize
      BY <2>1, <2>4, <2>5, <3>1, DriftAscends
    <3>2. CASE ~ v < TableSize
      <4>1. /\ TableSize - 1 \in Nat /\ TableSize - 1 <= v /\ TableSize - 1 < TableSize
        BY <2>1, <2>4, <3>2
      <4>2. /\ (TableSize - 1) - Drift(TableSize - 1) <= v - Drift(v)
            /\ Drift(TableSize - 1) = 0
        BY <2>4, <4>1, DriftAscends
      <4> QED
        BY <2>1, <2>4, <2>5, <4>2
    <3> QED
      BY <3>1, <3>2
  <2>7. \A w \in EndOfKernel..v : Frame(w) <= Frame(v)
    <3> SUFFICES ASSUME NEW w \in EndOfKernel..v PROVE Frame(w) <= Frame(v)
      OBVIOUS
    <3>1. w \in Nat /\ w <= v
      BY <2>1, <2>4
    <3>2. w - Drift(w) <= v - Drift(v)
      BY <2>4, <3>1, DriftAscends
    <3> QED
      BY <2>3, <2>5, <3>2
  <2> QED
    BY <2>1, <2>4, <2>5, <2>6, <2>7
<1> QED
  BY InvAlways, <1>1, PTL

\* Behind the kernel's space page v has the frame v minus the number of its table, for a
\* memory of any size (paging_prepare_table): what FrameOf of Paging.tla stands on.
THEOREM FramesDriftAlways == TablesSpec => []FramesDrift
<1>1. Inv => FramesDrift
  <2> SUFFICES ASSUME Inv, phase = "on", NEW v \in EndOfKernel..(pages - 1)
               PROVE  Frame(v) = v - v \div TableSize
    BY DEF FramesDrift
  <2>1. /\ EndOfKernel \in Nat /\ pages \in Nat
        /\ mapped = EndOfKernel /\ 0..pages - 1 \subseteq Entries
    BY TablesSizes DEF Inv, TablesTypeOK, Turns
  <2>2. v \in Entries /\ ~ v < mapped
    BY <2>1
  <2> QED
    BY <2>2 DEF Inv, FramesSoFar, Frame, Drift
<1> QED
  BY InvAlways, <1>1, PTL

\* The shadow map of every machine fits the heap.
MapsFit == \A n \in Machines : HowMany(n * EntryBytes, BlockBytes) <= HeapBlocks

\* Then it is placed in the heap, and nothing is overwritten.
Untouched == intact

LEMMA UntouchedAlways ==
    ASSUME MapsFit
    PROVE  TablesSpec => []Untouched
<1>1. TablesInit => Untouched
  BY DEF TablesInit, Untouched
<1>2. ASSUME Inv, Untouched, [TablesNext]_tablesVars
      PROVE  Untouched'
  <2>1. CASE PlaceShadow
    <3>1. /\ pages \in Nat /\ pages > 0 /\ EntryBytes \in Nat \ {0} /\ BlockBytes \in Nat \ {0}
          /\ HeapBlocks \in Nat /\ ByteMod \in Nat /\ HeapBlocks < ByteMod /\ pages \in Machines
      BY <1>2, TablesSizes, PageTablesAssumption DEF Inv, TablesTypeOK
    <3>2. pages * EntryBytes \in Nat /\ pages * EntryBytes > 0
      BY <3>1
    <3>3. ShadowBlocks \in Nat /\ ShadowBlocks > 0
      BY <3>1, <3>2, HowManyRoundsUp DEF ShadowBlocks
    <3>4. ShadowBlocks <= HeapBlocks
      BY <3>1 DEF MapsFit, ShadowBlocks
    <3>5. Granted = ShadowBlocks
      BY <3>1, <3>3, <3>4 DEF Granted
    <3>6. ShadowAt = {"heap"}
      BY <3>1, <3>3, <3>4, <3>5 DEF ShadowAt
    <3>7. shadow' = "heap"
      BY <2>1, <3>6 DEF PlaceShadow
    <3> QED
      BY <2>1, <3>4, <3>7 DEF PlaceShadow, Untouched
  <2>2. CASE ~ PlaceShadow
    BY <1>2, <2>2 DEF TablesNext, PrepareTable, MapKernelPage, Enable, tablesVars, Untouched
  <2> QED
    BY <2>1, <2>2
<1> QED
  BY InvAlways, <1>1, <1>2, PTL DEF TablesSpec

\* When paging is on, the kernel goes on at its own addresses, on every machine whose
\* shadow map the heap can hold: paging_init needs no more than that.
THEOREM KernelIdentityAlways ==
    ASSUME MapsFit
    PROVE  TablesSpec => []KernelIdentity
<1>1. Inv /\ Untouched => KernelIdentity
  <2> SUFFICES ASSUME Inv, Untouched, phase = "on", NEW v \in 0..(EndOfKernel - 1)
               PROVE  Frame(v) = v
    BY DEF KernelIdentity, Untouched
  <2>1. /\ EndOfKernel \in Nat /\ mapped = EndOfKernel /\ EndOfKernel <= pages
        /\ pages \in Nat /\ 0..pages - 1 \subseteq Entries
    BY TablesSizes DEF Inv, TablesTypeOK, Turns
  <2>2. v \in Entries /\ v < mapped
    BY <2>1
  <2> QED
    BY <2>2 DEF Inv, FramesSoFar, Frame, Untouched
<1> QED
  BY InvAlways, UntouchedAlways, <1>1, PTL

\* Page r of table t is in table t.
LEMMA DriftOf ==
    ASSUME NEW t \in Nat, NEW r \in 0..TableSize - 1
    PROVE  TableSize * t + r \in Nat /\ Drift(TableSize * t + r) = t
<1>1. TableSize \in Nat \ {0}
  BY PageTablesAssumption
<1> DEFINE v == TableSize * t + r
           q == v \div TableSize
           m == v % TableSize
<1>2. TableSize * t \in Nat /\ v \in Nat
  BY <1>1
<1>3. q \in Nat /\ m \in 0..TableSize - 1 /\ v = TableSize * q + m
  <2> HIDE DEF v
  <2> QED BY <1>1, <1>2
<1>4. TableSize * q = TableSize * t + (r - m)
  <2> HIDE DEF q, m
  <2>1. TableSize * q \in Nat
    BY <1>1, <1>3
  <2> QED BY <1>1, <1>2, <1>3, <2>1
<1> HIDE DEF v, q, m
<1>5. CASE q > t
  <2>1. PICK k \in Nat : q = t + (1 + k)
    <3>1. q - t - 1 \in Nat /\ q = t + (1 + (q - t - 1))
      BY <1>3, <1>5
    <3> QED BY <3>1
  <2>2. TableSize * q = TableSize * t + (TableSize + TableSize * k)
    BY <1>1, <2>1
  <2>3. TableSize * k \in Nat
    BY <1>1
  <2> QED BY <1>1, <1>2, <1>3, <1>4, <2>2, <2>3
<1>6. CASE q < t
  <2>1. PICK k \in Nat : t = q + (1 + k)
    <3>1. t - q - 1 \in Nat /\ t = q + (1 + (t - q - 1))
      BY <1>3, <1>6
    <3> QED BY <3>1
  <2>2. TableSize * t = TableSize * q + (TableSize + TableSize * k)
    BY <1>1, <1>3, <2>1
  <2>3. TableSize * k \in Nat /\ TableSize * q \in Nat
    BY <1>1, <1>3
  <2> QED BY <1>1, <1>2, <1>3, <1>4, <2>2, <2>3
<1> QED
  BY <1>2, <1>3, <1>5, <1>6 DEF Drift, v, q

\* Every frame up to the one the last table ends with is where some page was put.
LEMMA FrameReached ==
    ASSUME NEW n \in Nat, n > 0, NEW f \in Nat, f <= n * (TableSize - 1)
    PROVE  \E v \in 0..n * TableSize - 1 : f <= v /\ v - Drift(v) = f
<1>1. TableSize \in Nat \ {0} /\ TableSize > 1 /\ TableSize - 1 \in Nat \ {0}
  BY PageTablesAssumption
<1> DEFINE S == TableSize - 1
<1>2. ASSUME NEW t \in Nat, NEW r \in 0..S, t < n, f = S * t + r
      PROVE  \E v \in 0..n * TableSize - 1 : f <= v /\ v - Drift(v) = f
  <2> DEFINE v == TableSize * t + r
  <2>1. v \in Nat /\ Drift(v) = t
    BY <1>1, <1>2, DriftOf
  <2>2. v = f + t
    BY <1>1, <1>2
  <2>3. v < n * TableSize
    <3>1. PICK k \in Nat : n = t + (1 + k)
      <4>1. n - t - 1 \in Nat /\ n = t + (1 + (n - t - 1))
        BY <1>2
      <4> QED BY <4>1
    <3>2. n * TableSize = TableSize * t + (TableSize + TableSize * k) /\ TableSize * k \in Nat
      BY <1>1, <3>1
    <3>3. TableSize * t \in Nat
      BY <1>1
    <3> QED BY <1>1, <3>2, <3>3
  <2>4. n * TableSize \in Nat
    BY <1>1
  <2> HIDE DEF v
  <2> QED BY <2>1, <2>2, <2>3, <2>4
<1>3. CASE f = n * S
  <2>1. n - 1 \in Nat /\ n - 1 < n /\ S \in 0..S /\ f = S * (n - 1) + S
    BY <1>1, <1>3
  <2> QED BY <1>2, <2>1
<1>4. CASE f < n * S
  <2> DEFINE t == f \div S
             r == f % S
  <2>1. t \in Nat /\ r \in 0..S - 1 /\ f = S * t + r
    <3> HIDE DEF S
    <3>1. S \in Nat \ {0}
      BY <1>1 DEF S
    <3> QED BY <3>1
  <2> HIDE DEF t, r
  <2>2. t < n
    <3> SUFFICES ASSUME ~ (t < n) PROVE FALSE
      OBVIOUS
    <3>1. PICK k \in Nat : t = n + k
      <4>1. t - n \in Nat /\ t = n + (t - n)
        BY <2>1
      <4> QED BY <4>1
    <3>2. S * t = n * S + S * k /\ S * k \in Nat /\ n * S \in Nat
      BY <1>1, <3>1
    <3> QED BY <1>1, <1>4, <2>1, <3>2
  <2>3. r \in 0..S
    BY <1>1, <2>1
  <2> QED BY <1>2, <2>1, <2>2, <2>3
<1>5. n * S \in Nat
  BY <1>1
<1> HIDE DEF S
<1> QED
  BY <1>3, <1>4, <1>5 DEF S

\* Fewer frames are left without a page than there are tables, for a memory of
\* any size (previous_end in paging_prepare_table), whether or not the kernel
\* survives the placing of its shadow map.
THEOREM FramesLostAlways == TablesSpec => []FramesLost
<1>1. Inv => FramesLost
  <2> DEFINE lost == {f \in 0..(pages - 1) : \A v \in Entries : Frame(v) # f}
             first == Tables * (TableSize - 1) + 1
  <2> SUFFICES ASSUME Inv, phase = "on" PROVE Cardinality(lost) < Tables
    <3>1. Cardinality(lost) = Cardinality(lost)
      BY DEF Cardinality, Cardinality
    <3> QED BY <3>1, Zenon DEF FramesLost
  <2>1. /\ EndOfKernel \in Nat /\ mapped = EndOfKernel /\ EndOfKernel <= pages
        /\ pages \in Nat /\ 0..pages - 1 \subseteq Entries
        /\ Tables \in Nat /\ Tables > 0 /\ TableSize \in Nat /\ TableSize > 1
        /\ pages <= Tables * TableSize
    BY TablesSizes DEF Inv, TablesTypeOK, Turns
  <2>2. \A v \in Entries : Frame(v) = IF intact /\ v < EndOfKernel THEN v ELSE v - Drift(v)
    BY <2>1 DEF Inv, FramesSoFar, Frame
  <2>3. first \in Nat /\ Tables * TableSize = Tables * (TableSize - 1) + Tables
        /\ Tables * (TableSize - 1) \in Nat
    BY <2>1
  <2>4. lost \subseteq first..pages - 1
    <3> SUFFICES ASSUME NEW f \in 0..pages - 1, ~ (f >= first) PROVE \E v \in Entries : Frame(v) = f
      BY <2>1, <2>3
    <3>1. f \in Nat /\ f <= Tables * (TableSize - 1)
      BY <2>1, <2>3
    <3>2. CASE intact /\ f < EndOfKernel
      BY <2>1, <2>2, <3>2
    <3>3. CASE ~ (intact /\ f < EndOfKernel)
      <4>1. PICK v \in Entries : f <= v /\ v - Drift(v) = f
        BY <2>1, <3>1, FrameReached DEF Entries
      <4>2. v \in Nat
        BY <2>1 DEF Entries
      <4>3. ~ (intact /\ v < EndOfKernel)
        BY <2>1, <3>1, <3>3, <4>1, <4>2
      <4> QED BY <2>2, <4>1, <4>3
    <3> QED BY <3>2, <3>3
  <2> HIDE DEF lost, first
  <2>5. IsFiniteSet(first..pages - 1) /\ Cardinality(first..pages - 1) < Tables
    <3>1. /\ IsFiniteSet(first..pages - 1)
          /\ Cardinality(first..pages - 1) = IF first > pages - 1 THEN 0 ELSE (pages - 1) - first + 1
      BY <2>1, <2>3, FS_Interval
    <3> QED BY <2>1, <2>3, <3>1 DEF first
  <2>6. Cardinality(lost) <= Cardinality(first..pages - 1)
        /\ Cardinality(lost) \in Nat /\ Cardinality(first..pages - 1) \in Nat
    BY <2>4, <2>5, FS_Subset, FS_CardinalityType
  <2> QED BY <2>1, <2>5, <2>6 DEF lost
<1> QED
  BY InvAlways, <1>1, PTL
-----------------------------------------------------------------------------
(* valloc and vfree.                                                         *)

USE PagingAssumption DEF NULL, None, KernelPid, Page

LEMMA TypeInit == Init => TypeOK
<1> SUFFICES ASSUME Init PROVE TypeOK
  OBVIOUS
<1>1. npages \in [Page -> 0..(ShortMod - 1)]
  BY DEF Init
<1>2. pid \in [Page -> 0..ResvPid]
  BY DEF Init
<1>3. user \subseteq Page
  BY DEF Init
<1>4. ptr \in [Owners -> Page] /\ asked \in [Owners -> Requests \cup {None}]
  <2>1. 0 \in Page
    OBVIOUS
  <2>2. QED
    BY <2>1 DEF Init
<1>5. /\ lastPid \in 0..ResvPid
      /\ contents \in [Page -> Owners \cup {Empty}]
      /\ role \in [Owners -> {"buffer", "segment", "stack"}]
  BY DEF Init
<1>6. halted \in BOOLEAN
  BY DEF Init
<1>7. QED
  BY <1>1, <1>2, <1>3, <1>4, <1>5, <1>6 DEF TypeOK

\* paging_find_free stays inside the shadow map.
LEMMA FoundRun ==
  ASSUME TypeOK, NEW n \in Requests, n # 0, NEW s \in FindFree(n)
  PROVE  /\ n \in Nat /\ s \in Page /\ s + n < NumPages
         /\ \A v \in s..(s + n) : pid[v] = ResvPid
  BY DEF FindFree, Fits

\* What the three kinds of request ask for.
LEMMA RequestFields ==
  ASSUME NEW r \in Requesters
  PROVE  /\ r.pid \in {KernelPid, lastPid} \cup StackPids
         /\ r.role \in {"buffer", "segment", "stack"}
<1>1. CASE r = BufferRequest
  BY <1>1 DEF BufferRequest
<1>2. CASE r = SegmentRequest
  BY <1>2 DEF SegmentRequest
<1>3. CASE r \in StackRequests
  BY <1>3 DEF StackRequests
<1>4. QED
  BY <1>1, <1>2, <1>3 DEF Requesters

LEMMA TypeValloc ==
  ASSUME TypeOK, NEW o \in Owners, NEW n \in Requests, NEW r \in Requesters,
         Valloc(o, n, r)
  PROVE  TypeOK'
<1>1. r.pid \in 0..ResvPid /\ r.role \in {"buffer", "segment", "stack"}
  <2>1. 0 \in 0..ResvPid /\ lastPid \in 0..ResvPid /\ StackPids \subseteq 0..ResvPid
    BY DEF TypeOK
  <2>2. QED
    BY <2>1, RequestFields
<1>2. PICK s \in FindFree(n) :
         /\ user' = IF r.user THEN user \cup {s} ELSE user \ {s}
         /\ Mark(s, n, r.pid)
         /\ npages' = [npages EXCEPT ![s] = n % ShortMod]
         /\ Returns(o, n, s)
         /\ Writes(o, WrittenFirst(s, n, r))
  BY DEF Valloc
<1>3. n \in Nat /\ n # 0 /\ s \in Page /\ s + n < NumPages
  BY FoundRun DEF Valloc
<1>4. n % ShortMod \in 0..(ShortMod - 1)
  BY <1>3
<1>5. pid' \in [Page -> 0..ResvPid]
  BY <1>1, <1>2 DEF Mark, TypeOK
<1>6. npages' \in [Page -> 0..(ShortMod - 1)]
  BY <1>2, <1>4 DEF TypeOK
<1>7. user' \subseteq Page
  BY <1>2, <1>3 DEF TypeOK
<1>8. contents' \in [Page -> Owners \cup {Empty}]
  BY <1>2 DEF Writes, TypeOK
<1>9. ptr' \in [Owners -> Page] /\ asked' \in [Owners -> Requests \cup {None}]
  BY <1>2, <1>3 DEF Returns, TypeOK
<1>10. /\ role' \in [Owners -> {"buffer", "segment", "stack"}]
       /\ lastPid' = lastPid /\ halted' = halted
  BY <1>1 DEF Valloc, TypeOK
<1>11. QED
  BY <1>5, <1>6, <1>7, <1>8, <1>9, <1>10 DEF TypeOK

LEMMA TypeNext == TypeOK /\ [Next]_vars => TypeOK'
<1> SUFFICES ASSUME TypeOK, [Next]_vars PROVE TypeOK'
  OBVIOUS
<1>1. CASE NewPid
  <2>1. NextPid(lastPid) \in 0..ResvPid
    BY DEF NextPid, TypeOK
  <2>2. QED
    BY <1>1, <2>1 DEF NewPid, TypeOK
<1>2. ASSUME NEW o \in Owners, NEW n \in Requests, VallocNull(o, n)
      PROVE  TypeOK'
  <2>1. 0 \in Page
    OBVIOUS
  <2>2. QED
    BY <1>2, <2>1 DEF VallocNull, Returns, TypeOK
<1>3. ASSUME NEW o \in Owners, NEW n \in Requests, NEW r \in Requesters, Valloc(o, n, r)
      PROVE  TypeOK'
  BY <1>3, TypeValloc
<1>4. ASSUME NEW o \in Owners, NEW n \in Requests, VallocHalt(o, n)
      PROVE  TypeOK'
  BY <1>4 DEF VallocHalt, TypeOK
<1>5. ASSUME NEW o \in Owners, Vfree(o)
      PROVE  TypeOK'
  <2>1. 0 \in Page
    OBVIOUS
  <2>2. ptr' \in [Owners -> Page] /\ asked' \in [Owners -> Requests \cup {None}]
    BY <1>5, <2>1 DEF Vfree, Forgets, TypeOK
  <2>3. pid' \in [Page -> 0..ResvPid]
    BY <1>5 DEF Vfree, TypeOK
  <2>4. user' \subseteq Page /\ contents' \in [Page -> Owners \cup {Empty}]
    BY <1>5 DEF Vfree, TypeOK
  <2>5. npages' = npages /\ lastPid' = lastPid /\ halted' = halted /\ role' = role
    BY <1>5 DEF Vfree
  <2>6. QED
    BY <2>2, <2>3, <2>4, <2>5 DEF TypeOK
<1>6. ASSUME NEW o \in Owners, GiveUp(o)
      PROVE  TypeOK'
  <2>1. 0 \in Page
    OBVIOUS
  <2>2. QED
    BY <1>6, <2>1 DEF GiveUp, Forgets, TypeOK
<1>7. CASE UNCHANGED vars
  BY <1>7 DEF vars, TypeOK
<1>8. QED
  BY <1>1, <1>2, <1>3, <1>4, <1>5, <1>6, <1>7 DEF Next

\* Every state of the pages has the declared types, for every use.
THEOREM TypeCorrect == Spec => []TypeOK
  BY TypeInit, TypeNext, PTL DEF Spec
-----------------------------------------------------------------------------
\* What ties the callers' pointers to the shadow map.  The count of pages kept
\* for the first page of a run is all vfree has to go by.
Ownership ==
    /\ \A v \in Page : v < KernelPages => pid[v] # ResvPid
    /\ \A o \in Owners : asked[o] = None => ptr[o] = 0
    /\ \A o \in Owners : ptr[o] # 0 =>
          /\ ptr[o] >= KernelPages
          /\ asked[o] \in Nat /\ asked[o] > 0
          /\ npages[ptr[o]] = asked[o]
          /\ ptr[o] + asked[o] <= NumPages
          /\ \A v \in Span(o) : pid[v] # ResvPid
    /\ \A o, q \in Owners : o # q => Span(o) \cap Span(q) = {}
    /\ \A v \in Page : v >= KernelPages /\ pid[v] # ResvPid =>
          \E o \in Owners : v \in Span(o)
    /\ lastPid < ResvPid

\* What is free is empty and closed to user mode.  Only a run's first page is
\* ever opened to it, so closing the first page is enough.
Closed ==
    /\ \A v \in Page : contents[v] # Empty => BelowStack(v) \/ \E o \in Owners : v \in Span(o)
    /\ \A v \in user : v < KernelPages \/ \E o \in Owners : ptr[o] = v

IInv == TypeOK /\ Ownership /\ Closed /\ ContentsKept

LEMMA InitIInv == Init => IInv
<1> SUFFICES ASSUME Init PROVE IInv
  OBVIOUS
<1>1. \A o \in Owners : ptr[o] = 0 /\ Span(o) = {}
  BY DEF Init, Span
<1>2. /\ \A v \in Page : v < KernelPages => pid[v] # ResvPid
      /\ \A v \in Page : v >= KernelPages => pid[v] = ResvPid
  BY DEF Init
<1>3. lastPid < ResvPid
  BY DEF Init
<1>4. Ownership
  BY <1>1, <1>2, <1>3 DEF Ownership
<1>5. Closed
  BY DEF Init, Closed
<1>6. ContentsKept
  BY <1>1 DEF ContentsKept
<1>7. QED
  BY <1>4, <1>5, <1>6, TypeInit DEF IInv

\* A caller's pages are pages, behind the kernel's.
LEMMA SpanBounds ==
  ASSUME IInv, NEW o \in Owners
  PROVE  /\ Span(o) \subseteq Page
         /\ \A v \in Span(o) : v >= KernelPages
         /\ ptr[o] # 0 => ptr[o] \in Span(o)
<1>1. CASE ptr[o] = 0
  BY <1>1 DEF Span
<1>2. CASE ptr[o] # 0
  <2>1. /\ ptr[o] \in Nat /\ asked[o] \in Nat /\ asked[o] > 0
        /\ ptr[o] >= KernelPages /\ ptr[o] + asked[o] <= NumPages
    BY <1>2 DEF IInv, Ownership, TypeOK
  <2>2. Span(o) = ptr[o]..(ptr[o] + asked[o] - 1)
    BY <1>2 DEF Span
  <2>3. QED
    BY <2>1, <2>2
<1>3. QED
  BY <1>1, <1>2

LEMMA SpanSame ==
  ASSUME NEW q \in Owners, ptr'[q] = ptr[q], asked'[q] = asked[q]
  PROVE  Span(q)' = Span(q)
  BY DEF Span

\* valloc: the run it marks was nobody's.
LEMMA VallocIInv ==
  ASSUME IInv, SoundUse,
         NEW o \in Owners, NEW n \in Requests, NEW r \in Requesters,
         Valloc(o, n, r)
  PROVE  IInv'
<1> USE DEF IInv
<1>1. PICK s \in FindFree(n) :
         /\ user' = IF r.user THEN user \cup {s} ELSE user \ {s}
         /\ Mark(s, n, r.pid)
         /\ npages' = [npages EXCEPT ![s] = n % ShortMod]
         /\ Returns(o, n, s)
         /\ Writes(o, WrittenFirst(s, n, r))
  BY DEF Valloc
<1>2. /\ n \in Nat /\ n # 0 /\ n > 0 /\ n <= NumPages
      /\ s \in Page /\ s + n < NumPages
      /\ \A v \in s..(s + n) : pid[v] = ResvPid
  BY FoundRun DEF Valloc
<1>3. s >= KernelPages /\ s # 0
  BY <1>2 DEF Ownership
<1>4. n % ShortMod = n
  <2>1. n \in 0..(ShortMod - 1)
    BY <1>2 DEF SoundUse
  <2>2. QED
    BY <2>1
<1>5. r.pid # ResvPid
  <2>1. ResvPid \notin StackPids
    BY DEF SoundUse
  <2>2. lastPid # ResvPid
    BY DEF Ownership, TypeOK
  <2>3. QED
    BY <2>1, <2>2, RequestFields
<1> DEFINE run == s..(s + n - 1)
<1>6. /\ ptr' = [ptr EXCEPT ![o] = s]
      /\ asked' = [asked EXCEPT ![o] = n]
      /\ npages' = [npages EXCEPT ![s] = n]
      /\ pid' = [v \in Page |-> IF v \in run THEN r.pid ELSE pid[v]]
      /\ role' = [role EXCEPT ![o] = r.role]
      /\ lastPid' = lastPid
  BY <1>1, <1>4 DEF Returns, Mark, Valloc
<1>7. /\ ptr \in [Owners -> Page] /\ asked \in [Owners -> Requests \cup {None}]
      /\ npages \in [Page -> 0..(ShortMod - 1)] /\ pid \in [Page -> 0..ResvPid]
      /\ role \in [Owners -> {"buffer", "segment", "stack"}]
  BY DEF TypeOK
<1>8. ptr[o] = 0 /\ asked[o] = None
  BY DEF Valloc, Ownership
<1>9. /\ ptr'[o] = s /\ asked'[o] = n
      /\ \A q \in Owners : q # o => ptr'[q] = ptr[q] /\ asked'[q] = asked[q]
  BY <1>6, <1>7
<1>10. /\ Span(o)' = run
       /\ \A q \in Owners : q # o => Span(q)' = Span(q)
  <2>1. Span(o)' = run
    BY <1>3, <1>9 DEF Span
  <2>2. QED
    BY <1>9, <2>1, SpanSame
<1>11. \A q \in Owners : Span(q) \cap run = {}
  <2> SUFFICES ASSUME NEW q \in Owners, NEW v \in Span(q) PROVE v \notin run
    OBVIOUS
  <2>1. ptr[q] # 0
    BY DEF Span
  <2>2. pid[v] # ResvPid
    BY <2>1, SpanBounds DEF Ownership
  <2>3. \A w \in run : pid[w] = ResvPid
    BY <1>2
  <2> QED
    BY <2>2, <2>3
<1>12. run \subseteq Page /\ s \in run
  BY <1>2
<1> HIDE DEF run
<1>13. \A v \in Page : /\ v \in run => pid'[v] = r.pid
                       /\ v \notin run => pid'[v] = pid[v]
  BY <1>6
<1>17. \A v \in Page : BelowStack(v) => BelowStack(v)'
  <2>1. \A q \in Owners : ptr[q] # 0 => q # o
    BY <1>8
  <2>2. SUFFICES ASSUME NEW v \in Page, NEW q \in Owners, role[q] = "stack", ptr[q] = v + 1
                 PROVE  BelowStack(v)'
    BY DEF BelowStack
  <2>3. q # o
    BY <2>1, <2>2
  <2>4. role'[q] = "stack" /\ ptr'[q] = v + 1
    BY <1>6, <1>7, <1>9, <2>2, <2>3
  <2>5. QED
    BY <2>4 DEF BelowStack
<1>18. \A v \in WrittenFirst(s, n, r) : v \in run \/ BelowStack(v)'
  <2>1. CASE r.role = "stack"
    <3>1. WrittenFirst(s, n, r) = {s - 1}
      BY <2>1 DEF WrittenFirst
    <3>2. role'[o] = "stack" /\ ptr'[o] = (s - 1) + 1
      BY <1>2, <1>6, <1>7, <1>9, <2>1
    <3>3. QED
      BY <3>1, <3>2 DEF BelowStack
  <2>2. CASE r.role # "stack"
    BY <2>2 DEF WrittenFirst, run
  <2>3. QED
    BY <2>1, <2>2
<1>14. TypeOK'
  BY TypeValloc
<1>15. Ownership'
  <2>1. \A v \in Page : v < KernelPages => pid'[v] # ResvPid
    BY <1>5, <1>13 DEF Ownership
  <2>2. \A q \in Owners : asked'[q] = None => ptr'[q] = 0
    BY <1>2, <1>9 DEF Ownership
  <2>3. ASSUME NEW q \in Owners, ptr'[q] # 0
        PROVE  /\ ptr'[q] >= KernelPages
               /\ asked'[q] \in Nat /\ asked'[q] > 0
               /\ npages'[ptr'[q]] = asked'[q]
               /\ ptr'[q] + asked'[q] <= NumPages
               /\ \A v \in Span(q)' : pid'[v] # ResvPid
    <3>1. CASE q = o
      <4>1. npages'[s] = n
        BY <1>2, <1>6, <1>7
      <4>2. \A v \in run : pid'[v] = r.pid
        BY <1>12, <1>13
      <4>3. QED
        BY <1>2, <1>3, <1>5, <1>9, <1>10, <3>1, <4>1, <4>2
    <3>2. CASE q # o
      <4>1. ptr'[q] = ptr[q] /\ asked'[q] = asked[q] /\ Span(q)' = Span(q) /\ ptr[q] # 0
        BY <1>9, <1>10, <2>3, <3>2
      <4>2. /\ ptr[q] >= KernelPages
            /\ asked[q] \in Nat /\ asked[q] > 0
            /\ npages[ptr[q]] = asked[q]
            /\ ptr[q] + asked[q] <= NumPages
            /\ \A v \in Span(q) : pid[v] # ResvPid
        BY <4>1 DEF Ownership
      <4>3. ptr[q] \in Span(q) /\ ptr[q] # s
        BY <1>11, <1>12, <4>1, SpanBounds
      <4>4. npages'[ptr[q]] = npages[ptr[q]]
        BY <1>6, <1>7, <4>3
      <4>5. \A v \in Span(q) : pid'[v] = pid[v]
        BY <1>11, <1>13, SpanBounds
      <4>6. QED
        BY <4>1, <4>2, <4>4, <4>5
    <3>3. QED
      BY <3>1, <3>2
  <2>4. \A p, q \in Owners : p # q => Span(p)' \cap Span(q)' = {}
    BY <1>10, <1>11 DEF Ownership
  <2>5. \A v \in Page : v >= KernelPages /\ pid'[v] # ResvPid =>
           \E q \in Owners : v \in Span(q)'
    <3>1. SUFFICES ASSUME NEW v \in Page, v >= KernelPages, pid'[v] # ResvPid
                   PROVE  \E q \in Owners : v \in Span(q)'
      OBVIOUS
    <3>2. CASE v \in run
      BY <1>10, <3>2
    <3>3. CASE v \notin run
      <4>1. PICK q \in Owners : v \in Span(q)
        BY <1>13, <3>1, <3>3 DEF Ownership
      <4>2. Span(q)' = Span(q)
        <5>1. q # o
          BY <1>8, <4>1 DEF Span
        <5>2. QED
          BY <1>10, <5>1
      <4>3. QED
        BY <4>1, <4>2
    <3>4. QED
      BY <3>2, <3>3
  <2>6. lastPid' < ResvPid
    BY <1>6 DEF Ownership
  <2>7. QED
    BY <2>1, <2>2, <2>3, <2>4, <2>5, <2>6 DEF Ownership
<1>16. Closed'
  <2>1. Span(o) = {}
    BY <1>8 DEF Span
  <2>2. \A v \in Page : contents'[v] # Empty =>
           BelowStack(v)' \/ \E q \in Owners : v \in Span(q)'
    <3>1. SUFFICES ASSUME NEW v \in Page, contents'[v] # Empty
                   PROVE  BelowStack(v)' \/ \E q \in Owners : v \in Span(q)'
      OBVIOUS
    <3>2. CASE v \in WrittenFirst(s, n, r)
      BY <1>9, <1>10, <1>18, <3>2
    <3>3. CASE v \notin WrittenFirst(s, n, r)
      <4>1. contents[v] # Empty
        BY <1>1, <3>1, <3>3 DEF Writes
      <4>2. CASE BelowStack(v)
        BY <1>17, <4>2
      <4>3. CASE \E q \in Owners : v \in Span(q)
        BY <1>10, <2>1, <4>3
      <4>4. QED
        BY <4>1, <4>2, <4>3 DEF Closed
    <3>4. QED
      BY <3>2, <3>3
  <2>3. \A v \in user' : v = s \/ v \in user
    BY <1>1
  <2>4. \A v \in user' : v < KernelPages \/ \E q \in Owners : ptr'[q] = v
    <3>1. SUFFICES ASSUME NEW v \in user', ~(v < KernelPages)
                   PROVE  \E q \in Owners : ptr'[q] = v
      OBVIOUS
    <3>2. CASE v = s
      BY <1>9, <3>2
    <3>3. CASE v \in user
      <4>1. PICK q \in Owners : ptr[q] = v
        BY <3>1, <3>3 DEF Closed
      <4>2. q # o
        BY <1>8, <3>1, <4>1
      <4>3. QED
        BY <1>9, <4>1, <4>2
    <3>4. QED
      BY <2>3, <3>2, <3>3
  <2>5. QED
    BY <2>2, <2>4 DEF Closed
<1>19. ContentsKept'
  <2>1. SUFFICES ASSUME NEW q \in Owners, role'[q] # "stack", NEW v \in Span(q)',
                        ~ Shared(v), ~ BelowStack(v)'
                 PROVE  contents'[v] = q
    BY DEF ContentsKept, Shared, FrameOf
  <2>2. v \in Page
    BY <1>10, <1>12, <2>1, SpanBounds
  <2>3. \A w \in Page : FrameOf(w) = FrameOf(v) => w = v
    BY <2>1 DEF Shared
  <2>4. WrittenFirst(s, n, r) \subseteq Page
    BY <1>2, <1>3, <1>12 DEF WrittenFirst, run
  <2>5. CASE q = o
    <3>1. r.role # "stack" /\ v \in run
      BY <1>6, <1>7, <1>10, <2>1, <2>5
    <3>2. v \in WrittenFirst(s, n, r)
      BY <3>1 DEF WrittenFirst, run
    <3>3. \A w \in WrittenFirst(s, n, r) : FrameOf(w) = FrameOf(v) => w <= v
      BY <2>2, <2>3, <2>4
    <3>4. QED
      BY <1>1, <2>2, <2>5, <3>2, <3>3 DEF Writes
  <2>6. CASE q # o
    <3>1. v \in Span(q) /\ role[q] # "stack" /\ ~ BelowStack(v)
      BY <1>6, <1>7, <1>10, <1>17, <2>1, <2>2, <2>6
    <3>2. contents[v] = q
      BY <2>1, <3>1 DEF ContentsKept
    <3>3. v \notin WrittenFirst(s, n, r)
      <4>1. v \notin run
        BY <1>11, <3>1
      <4>2. QED
        BY <1>18, <2>1, <2>6, <4>1
    <3>4. QED
      BY <1>1, <2>2, <2>3, <2>4, <3>2, <3>3 DEF Writes
  <2>7. QED
    BY <2>5, <2>6
<1>20. QED
  BY <1>14, <1>15, <1>16, <1>19

\* vfree: the run it clears and gives back is the caller's, and nobody else's.
LEMMA VfreeIInv ==
  ASSUME IInv, NEW o \in Owners, Vfree(o)
  PROVE  IInv'
<1> USE DEF IInv
<1>1. /\ ptr[o] # 0 /\ ptr[o] \in Nat
      /\ asked[o] \in Nat /\ asked[o] > 0 /\ npages[ptr[o]] = asked[o]
  BY DEF Vfree, Ownership, TypeOK
<1>2. Run(ptr[o]) = Span(o) /\ Cleared(ptr[o]) = Span(o)
  BY <1>1 DEF Run, Cleared, Span
<1>3. /\ user' = user \ {ptr[o]}
      /\ contents' = [v \in Page |-> IF \E w \in Span(o) : FrameOf(w) = FrameOf(v)
                                    THEN Empty ELSE contents[v]]
      /\ pid' = [v \in Page |-> IF v \in Span(o) THEN ResvPid ELSE pid[v]]
      /\ npages' = npages /\ lastPid' = lastPid
  BY <1>2 DEF Vfree
<1>4. ptr \in [Owners -> Page] /\ asked \in [Owners -> Requests \cup {None}]
  BY DEF TypeOK
<1>13. role[o] = "buffer" /\ role' = role
  BY DEF Vfree
<1>5. /\ ptr'[o] = 0 /\ asked'[o] = None
      /\ \A q \in Owners : q # o => ptr'[q] = ptr[q] /\ asked'[q] = asked[q]
  BY <1>4 DEF Vfree, Forgets
<1>6. /\ Span(o)' = {}
      /\ \A q \in Owners : q # o => Span(q)' = Span(q)
  <2>1. Span(o)' = {}
    BY <1>5 DEF Span
  <2>2. QED
    BY <1>5, <2>1, SpanSame
<1>7. \A v \in Page : /\ v \in Span(o) => pid'[v] = ResvPid
                      /\ v \notin Span(o) => pid'[v] = pid[v]
  BY <1>3
<1>8. \A q \in Owners : q # o => Span(q) \cap Span(o) = {}
  BY DEF Ownership
<1>9. TypeOK'
  BY TypeNext DEF Next
<1>10. Ownership'
  <2>1. \A v \in Page : v < KernelPages => pid'[v] # ResvPid
    BY <1>7, SpanBounds DEF Ownership
  <2>2. \A q \in Owners : asked'[q] = None => ptr'[q] = 0
    BY <1>5 DEF Ownership
  <2>3. ASSUME NEW q \in Owners, ptr'[q] # 0
        PROVE  /\ ptr'[q] >= KernelPages
               /\ asked'[q] \in Nat /\ asked'[q] > 0
               /\ npages'[ptr'[q]] = asked'[q]
               /\ ptr'[q] + asked'[q] <= NumPages
               /\ \A v \in Span(q)' : pid'[v] # ResvPid
    <3>1. q # o /\ ptr'[q] = ptr[q] /\ asked'[q] = asked[q] /\ Span(q)' = Span(q)
      BY <1>5, <1>6, <2>3
    <3>2. \A v \in Span(q) : pid'[v] = pid[v]
      BY <1>7, <1>8, <3>1, SpanBounds
    <3>3. QED
      BY <1>3, <2>3, <3>1, <3>2 DEF Ownership
  <2>4. \A q, r \in Owners : q # r => Span(q)' \cap Span(r)' = {}
    BY <1>6 DEF Ownership
  <2>5. \A v \in Page : v >= KernelPages /\ pid'[v] # ResvPid =>
           \E q \in Owners : v \in Span(q)'
    BY <1>6, <1>7 DEF Ownership
  <2>6. lastPid' < ResvPid
    BY <1>3 DEF Ownership
  <2>7. QED
    BY <2>1, <2>2, <2>3, <2>4, <2>5, <2>6 DEF Ownership
<1>14. \A v \in Page : BelowStack(v)' <=> BelowStack(v)
  <2>1. \A v \in Page, q \in Owners :
           (role'[q] = "stack" /\ ptr'[q] = v + 1) <=> (role[q] = "stack" /\ ptr[q] = v + 1)
    BY <1>5, <1>13
  <2>2. QED
    BY <2>1 DEF BelowStack
<1>11. Closed'
  <2>1. \A v \in Page : contents'[v] # Empty => contents[v] # Empty /\ v \notin Span(o)
    BY <1>3
  <2>2. \A v \in Page : contents'[v] # Empty =>
           BelowStack(v)' \/ \E q \in Owners : v \in Span(q)'
    BY <1>6, <1>14, <2>1 DEF Closed
  <2>3. \A v \in user' : v < KernelPages \/ \E q \in Owners : ptr'[q] = v
    BY <1>3, <1>5 DEF Closed
  <2>4. QED
    BY <2>2, <2>3 DEF Closed
<1>15. ContentsKept'
  <2>1. SUFFICES ASSUME NEW q \in Owners, role'[q] # "stack", NEW v \in Span(q)',
                        ~ Shared(v), ~ BelowStack(v)'
                 PROVE  contents'[v] = q
    BY DEF ContentsKept, Shared, FrameOf
  <2>2. q # o /\ v \in Span(q) /\ v \in Page /\ role[q] # "stack"
    BY <1>6, <1>13, <2>1, SpanBounds
  <2>3. contents[v] = q
    BY <1>14, <2>1, <2>2 DEF ContentsKept
  <2>4. \A w \in Span(o) : w \in Page /\ w # v
    BY <1>8, <2>2, SpanBounds
  <2>5. ~ \E w \in Span(o) : FrameOf(w) = FrameOf(v)
    BY <2>1, <2>4 DEF Shared
  <2>6. QED
    BY <1>3, <2>2, <2>3, <2>5
<1>12. QED
  BY <1>9, <1>10, <1>11, <1>15

\* Steps that change neither the shadow map nor a pointer.
LEMMA SameIInv ==
  ASSUME IInv, TypeOK', lastPid' < ResvPid,
         UNCHANGED <<pid, npages, user, contents, ptr, role>>,
         \A q \in Owners : asked'[q] = asked[q] \/ ptr[q] = 0
  PROVE  IInv'
<1> USE DEF IInv
<1>1. \A q \in Owners : Span(q)' = Span(q)
  BY DEF Span
<1>2. \A q \in Owners : ptr'[q] # 0 => asked'[q] = asked[q]
  OBVIOUS
<1>3. \A q \in Owners : asked'[q] = None => ptr'[q] = 0
  BY DEF Ownership
<1>4. Ownership'
  BY <1>1, <1>2, <1>3 DEF Ownership
<1>5. Closed'
  BY <1>1 DEF Closed, BelowStack
<1>6. ContentsKept'
  BY <1>1 DEF ContentsKept, BelowStack, Shared, FrameOf
<1>7. QED
  BY <1>4, <1>5, <1>6

LEMMA NextIInv == SoundUse /\ IInv /\ [Next]_vars => IInv'
<1> SUFFICES ASSUME SoundUse, IInv, [Next]_vars PROVE IInv'
  OBVIOUS
<1>1. TypeOK /\ TypeOK' /\ lastPid < ResvPid
  BY TypeNext DEF IInv, Ownership
<1>2. asked \in [Owners -> Requests \cup {None}] /\ ptr \in [Owners -> Page] /\ 0 \in Page
  BY <1>1 DEF TypeOK
<1>3. CASE NewPid
  <2>1. lastPid \in Nat
    BY <1>1 DEF TypeOK
  <2>2. lastPid' < ResvPid
    BY <1>1, <1>3, <2>1 DEF NewPid, NextPid, SoundUse
  <2>3. QED
    BY <1>1, <1>3, <2>2, SameIInv DEF NewPid
<1>4. ASSUME NEW o \in Owners, NEW n \in Requests, VallocNull(o, n)
      PROVE  IInv'
  <2>1. ptr[o] = 0
    BY <1>4 DEF VallocNull, IInv, Ownership
  <2>2. ptr' = ptr
    BY <1>2, <1>4, <2>1 DEF VallocNull, Returns
  <2>3. \A q \in Owners : asked'[q] = asked[q] \/ ptr[q] = 0
    BY <1>2, <1>4, <2>1 DEF VallocNull, Returns
  <2>4. QED
    BY <1>1, <1>4, <2>2, <2>3, SameIInv DEF VallocNull
<1>5. ASSUME NEW o \in Owners, NEW n \in Requests, NEW r \in Requesters, Valloc(o, n, r)
      PROVE  IInv'
  BY <1>5, VallocIInv
<1>6. ASSUME NEW o \in Owners, NEW n \in Requests, VallocHalt(o, n)
      PROVE  IInv'
  BY <1>1, <1>6, SameIInv DEF VallocHalt
<1>7. ASSUME NEW o \in Owners, Vfree(o)
      PROVE  IInv'
  BY <1>7, VfreeIInv
<1>8. ASSUME NEW o \in Owners, GiveUp(o)
      PROVE  IInv'
  <2>1. ptr' = ptr
    BY <1>2, <1>8 DEF GiveUp, Forgets
  <2>2. \A q \in Owners : asked'[q] = asked[q] \/ ptr[q] = 0
    BY <1>2, <1>8 DEF GiveUp, Forgets
  <2>3. QED
    BY <1>1, <1>8, <2>1, <2>2, SameIInv DEF GiveUp
<1>9. CASE UNCHANGED vars
  BY <1>1, <1>9, SameIInv DEF vars
<1>10. QED
  BY <1>3, <1>4, <1>5, <1>6, <1>7, <1>8, <1>9 DEF Next

LEMMA InvariantHolds == SoundUse => (Spec => []IInv)
<1> SUFFICES ASSUME SoundUse PROVE Spec => []IInv
  OBVIOUS
<1>1. IInv /\ [Next]_vars => IInv'
  BY NextIInv
<1>2. QED
  BY InitIInv, <1>1, PTL DEF Spec

LEMMA IInvSafe == IInv => ShadowExact /\ Exclusive /\ NothingLeftBehind /\ ContentsKept
<1> SUFFICES ASSUME IInv PROVE ShadowExact /\ Exclusive /\ NothingLeftBehind /\ ContentsKept
  OBVIOUS
<1> USE DEF IInv
<1>1. \A o \in Owners : \A v \in Span(o) : pid[v] # ResvPid
  BY DEF Ownership, Span
<1>2. ShadowExact
  <2>1. SUFFICES ASSUME NEW v \in Page
                 PROVE  pid[v] = ResvPid <=> (v >= KernelPages /\ \A o \in Owners : v \notin Span(o))
    BY DEF ShadowExact
  <2>2. v < KernelPages \/ v >= KernelPages
    OBVIOUS
  <2>3. v >= KernelPages => ~(v < KernelPages)
    OBVIOUS
  <2>4. v < KernelPages => pid[v] # ResvPid
    BY DEF Ownership
  <2>5. v >= KernelPages /\ pid[v] # ResvPid => \E o \in Owners : v \in Span(o)
    BY DEF Ownership
  <2>6. QED
    BY <1>1, <2>2, <2>3, <2>4, <2>5
<1>3. Exclusive
  <2>1. \A o \in Owners : Span(o) \cap 0..(KernelPages - 1) = {}
    <3>1. SUFFICES ASSUME NEW o \in Owners, NEW v \in Span(o), v \in 0..(KernelPages - 1)
                   PROVE  FALSE
      OBVIOUS
    <3>2. v >= KernelPages
      BY SpanBounds
    <3>3. QED
      BY <3>1, <3>2
  <2>2. QED
    BY <2>1 DEF Exclusive, Ownership
<1>4. NothingLeftBehind
  <2>1. SUFFICES ASSUME NEW v \in Page, pid[v] = ResvPid
                 PROVE  /\ v \notin user
                        /\ \A w \in Page : contents[w] # Empty => pid[w] # ResvPid \/ BelowStack(w)
    BY DEF NothingLeftBehind
  <2>2. \A w \in Page : contents[w] # Empty => pid[w] # ResvPid \/ BelowStack(w)
    BY <1>1 DEF Closed
  <2>3. ~(v < KernelPages)
    BY <2>1 DEF Ownership
  <2>4. ~(\E o \in Owners : ptr[o] = v)
    BY <1>1, <2>1, <2>3, SpanBounds
  <2>5. QED
    BY <2>2, <2>3, <2>4 DEF Closed
<1>5. QED
  BY <1>2, <1>3, <1>4

\* A page is marked as free exactly when it is, as long as no program is given
\* PID_RESV.
THEOREM ShadowExactAlways == SoundUse => (Spec => []ShadowExact)
<1> SUFFICES ASSUME SoundUse PROVE Spec => []ShadowExact
  OBVIOUS
<1>1. QED
  BY InvariantHolds, IInvSafe, PTL

\* And then no two callers of valloc share a page, or touch the kernel's.
THEOREM ExclusiveAlways == SoundUse => (Spec => []Exclusive)
<1> SUFFICES ASSUME SoundUse PROVE Spec => []Exclusive
  OBVIOUS
<1>1. QED
  BY InvariantHolds, IInvSafe, PTL

\* And what vfree gives back is closed to user mode, and its frame holds nothing,
\* as far as no page in use has the same frame.
THEOREM NothingLeftBehindAlways == SoundUse => (Spec => []NothingLeftBehind)
<1> SUFFICES ASSUME SoundUse PROVE Spec => []NothingLeftBehind
  OBVIOUS
<1>1. QED
  BY InvariantHolds, IInvSafe, PTL

\* And a caller keeps what it put in its pages, except where two page tables meet
\* and below a program's stack.
THEOREM ContentsKeptAlways == SoundUse => (Spec => []ContentsKept)
<1> SUFFICES ASSUME SoundUse PROVE Spec => []ContentsKept
  OBVIOUS
<1>1. QED
  BY InvariantHolds, IInvSafe, PTL
-----------------------------------------------------------------------------
(* Paging implements Heap on the pages behind the kernel's.                *)

LEMMA RefinesInit == Init => Abstract!Init
  BY DEF Init, Abstract!Init, Span

LEMMA RefinesValloc ==
  ASSUME IInv, SoundUse,
         NEW o \in Owners, NEW n \in Requests, NEW r \in Requesters,
         Valloc(o, n, r)
  PROVE  Abstract!Grant(o, n)
<1>1. PICK s \in FindFree(n) : Returns(o, n, s)
  BY DEF Valloc
<1>2. /\ n \in Nat /\ n > 0
      /\ s \in Page /\ s + n < NumPages
      /\ \A v \in s..(s + n) : pid[v] = ResvPid
  BY FoundRun DEF Valloc, IInv
<1>3. s >= KernelPages /\ s # 0
  BY <1>2 DEF IInv, Ownership
<1> DEFINE run == s..(s + n - 1)
<1>4. run \in Abstract!Runs(n)
  BY <1>2, <1>3 DEF Abstract!Runs
<1>5. run \cap Abstract!Used = {}
  <2>1. \A q \in Owners : \A v \in Span(q) : pid[v] # ResvPid
    BY DEF IInv, Ownership, Span
  <2>2. QED
    BY <1>2, <2>1 DEF Abstract!Used
<1>6. [q \in Owners |-> Span(q)]' = [[q \in Owners |-> Span(q)] EXCEPT ![o] = run]
  <2>1. /\ ptr'[o] = s /\ asked'[o] = n
        /\ \A q \in Owners : q # o => ptr'[q] = ptr[q] /\ asked'[q] = asked[q]
    BY <1>1 DEF Returns, IInv, TypeOK
  <2>2. Span(o)' = run
    BY <1>3, <2>1 DEF Span
  <2>3. \A q \in Owners : q # o => Span(q)' = Span(q)
    BY <2>1, SpanSame
  <2>4. QED
    BY <2>2, <2>3
<1>7. asked[o] = None /\ asked' = [asked EXCEPT ![o] = n]
  BY <1>1 DEF Valloc, Returns
<1>8. QED
  BY <1>4, <1>5, <1>6, <1>7 DEF Abstract!Grant

\* NULL for no pages is the empty run; NULL for more pages than there are is a
\* refusal.
LEMMA RefinesNull ==
  ASSUME IInv, NEW o \in Owners, NEW n \in Requests, VallocNull(o, n)
  PROVE  Abstract!Grant(o, n) \/ Abstract!Refuse(o, n)
<1>1. ptr[o] = 0 /\ asked[o] = None
  BY DEF VallocNull, IInv, Ownership
<1>2. ptr' = ptr /\ asked' = [asked EXCEPT ![o] = n]
  BY <1>1 DEF VallocNull, Returns, IInv, TypeOK
<1>3. \A q \in Owners : Span(q)' = Span(q)
  <2>1. \A q \in Owners : q # o => asked'[q] = asked[q]
    BY <1>2 DEF IInv, TypeOK
  <2>2. QED
    BY <1>1, <1>2, <2>1 DEF Span
<1>4. [q \in Owners |-> Span(q)]' = [q \in Owners |-> Span(q)]
  BY <1>3
<1>5. CASE n = 0
  <2>1. {} \in Abstract!Runs(0)
    <3>1. KernelPages \in KernelPages..(KernelPages + (NumPages - KernelPages) - 0)
      OBVIOUS
    <3>2. KernelPages..(KernelPages + 0 - 1) = {}
      OBVIOUS
    <3>3. QED
      BY <3>1, <3>2 DEF Abstract!Runs
  <2>2. [q \in Owners |-> Span(q)]' = [[q \in Owners |-> Span(q)] EXCEPT ![o] = {}]
    BY <1>1, <1>4 DEF Span
  <2>3. QED
    BY <1>1, <1>2, <1>5, <2>1, <2>2 DEF Abstract!Grant
<1>6. CASE n > NumPages
  <2>1. Abstract!Runs(n) = {}
    BY <1>6 DEF Abstract!Runs
  <2>2. QED
    BY <1>1, <1>2, <1>4, <2>1 DEF Abstract!Refuse
<1>7. QED
  BY <1>5, <1>6 DEF VallocNull

LEMMA RefinesRelease ==
  ASSUME IInv, NEW o \in Owners, Vfree(o) \/ GiveUp(o)
  PROVE  Abstract!Release(o)
<1>1. /\ asked[o] # None
      /\ ptr' = [ptr EXCEPT ![o] = 0]
      /\ asked' = [asked EXCEPT ![o] = None]
  BY DEF Vfree, GiveUp, Forgets
<1>2. ptr'[o] = 0 /\ \A q \in Owners : q # o => ptr'[q] = ptr[q] /\ asked'[q] = asked[q]
  BY <1>1 DEF IInv, TypeOK
<1>3. Span(o)' = {}
  BY <1>2 DEF Span
<1>4. \A q \in Owners : q # o => Span(q)' = Span(q)
  BY <1>2, SpanSame
<1>5. [q \in Owners |-> Span(q)]' = [[q \in Owners |-> Span(q)] EXCEPT ![o] = {}]
  BY <1>3, <1>4
<1>6. QED
  BY <1>1, <1>5 DEF Abstract!Release

\* Steps no caller sees.
LEMMA RefinesStutter ==
  ASSUME UNCHANGED <<ptr, asked>>
  PROVE  UNCHANGED Abstract!vars
<1>1. [q \in Owners |-> Span(q)]' = [q \in Owners |-> Span(q)]
  BY DEF Span
<1>2. QED
  BY <1>1 DEF Abstract!vars

LEMMA RefinesNext ==
  SoundUse /\ IInv /\ [Next]_vars => [Abstract!Next]_(Abstract!vars)
<1> SUFFICES ASSUME SoundUse, IInv, [Next]_vars
             PROVE  [Abstract!Next]_(Abstract!vars)
  OBVIOUS
<1>1. CASE NewPid
  BY <1>1, RefinesStutter DEF NewPid
<1>2. ASSUME NEW o \in Owners, NEW n \in Requests, VallocNull(o, n)
      PROVE  Abstract!Next
  BY <1>2, RefinesNull DEF Abstract!Next
<1>3. ASSUME NEW o \in Owners, NEW n \in Requests, NEW r \in Requesters, Valloc(o, n, r)
      PROVE  Abstract!Next
  BY <1>3, RefinesValloc DEF Abstract!Next
<1>4. ASSUME NEW o \in Owners, NEW n \in Requests, VallocHalt(o, n)
      PROVE  UNCHANGED Abstract!vars
  BY <1>4, RefinesStutter DEF VallocHalt
<1>5. ASSUME NEW o \in Owners, Vfree(o) \/ GiveUp(o)
      PROVE  Abstract!Next
  BY <1>5, RefinesRelease DEF Abstract!Next
<1>6. CASE UNCHANGED vars
  BY <1>6, RefinesStutter DEF vars
<1>7. QED
  BY <1>1, <1>2, <1>3, <1>4, <1>5, <1>6 DEF Next

\* The pages behind the kernel's are an abstract heap to the callers of valloc
\* and vfree, as long as no program is given PID_RESV.
THEOREM ImplementsHeap == SoundUse => (Spec => HeapSpec)
<1> SUFFICES ASSUME SoundUse PROVE Spec => HeapSpec
  OBVIOUS
<1>1. IInv /\ [Next]_vars => [Abstract!Next]_(Abstract!vars)
  BY RefinesNext
<1>2. QED
  BY RefinesInit, InvariantHolds, <1>1, PTL DEF Spec, HeapSpec, Abstract!Spec
=============================================================================
