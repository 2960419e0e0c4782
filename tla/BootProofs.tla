------------------------------ MODULE BootProofs ------------------------------
(***************************************************************************)
(* Proofs about Boot, for machines with any functions and drives and lists *)
(* of any length.  Each part of init_env has its own invariant: what the   *)
(* heap holds, which CD drives are known, where the entries of the device  *)
(* list come from, which of them have a driver, and where each hard disk   *)
(* is in the list of disks.                                                *)
(***************************************************************************)
EXTENDS Boot, FiniteSetTheorems, WellFoundedInduction, TLAPS

\* The smallest of a set of natural numbers is one of them.
LEMMA SmallestIsMember ==
    ASSUME NEW S \in SUBSET Nat, S # {}
    PROVE  Min(S) \in S /\ \A y \in S : Min(S) <= y
<1> DEFINE less == {ss \in Nat \X Nat : ss[1] < ss[2]}
<1>a. IsWellFoundedOn(less, Nat)
  BY NatLessThanWellFounded DEF OpToRel
<1> HIDE DEF less
<1>1. PICK n \in S : \A m \in S : ~ (<<m, n>> \in less)
  BY <1>a, WFMin
<1>2. \A m \in S : ~ (m < n)
  BY <1>1 DEF less
<1>3. \A m \in S : n <= m
  BY <1>2
<1> QED
  BY <1>3 DEF Min

LEMMA MinIs ==
    ASSUME NEW S \in SUBSET Nat, NEW n \in S, \A m \in S : n <= m
    PROVE  Min(S) = n
<1>1. Min(S) \in S /\ \A y \in S : Min(S) <= y
  BY SmallestIsMember
<1>2. Min(S) \in Nat /\ n \in Nat /\ Min(S) <= n /\ n <= Min(S)
  BY <1>1
<1> HIDE DEF Min
<1> QED
  BY <1>2
-----------------------------------------------------------------------------
(* The CD drives.                                                           *)

\* cd_init has been through the drives below i, and each CD drive among them is known.
Before == {"memory", "paging", "pci", "search", "ide", "diskio", "mbr", "cd"}
KnownSoFar ==
    /\ pc \in Before \cup {"iso", "up", "halted", "astray"}
    /\ pc \in Before => known = {}
    /\ pc = "iso" => i \in 0..4 /\ known = {d \in Of("PATAPI") : d < i}
    /\ pc = "up" => known = Of("PATAPI")

LEMMA KnownAlways == Spec => []KnownSoFar
<1>1. Init => KnownSoFar
  BY DEF Init, KnownSoFar, Before
<1>2. ASSUME KnownSoFar, [Next]_vars
      PROVE  KnownSoFar'
  <2>1. CASE MemoryInit \/ PagingInit \/ PciInit \/ PciDone \/ Search \/ SearchDone \/ IdeInit \/ DiskioInit \/ MbrDrive \/ MbrEnumerate
    <3>1. pc \in Before /\ pc' \in Before \cup {"halted", "astray"} /\ known' = known
      BY <2>1 DEF MemoryInit, PagingInit, PciInit, PciDone, Search, SearchDone, IdeInit, DiskioInit, MbrDrive, MbrEnumerate, Before
    <3> QED
      BY <1>2, <3>1 DEF KnownSoFar, Before
  <2>2. CASE NoCds
    BY <1>2, <2>2 DEF NoCds, KnownSoFar, Before, Of
  <2>3. CASE CdInit
    <3>1. known = {} /\ known' = known /\ types' = types
      BY <1>2, <2>3 DEF CdInit, KnownSoFar, Before
    <3>2. pc' = "halted" \/ (pc' = "iso" /\ i' = 0)
      BY <2>3 DEF CdInit
    <3>3. {d \in Of("PATAPI") : d < 0} = {}
      BY DEF Of, Drives
    <3> QED
      BY <3>1, <3>2, <3>3 DEF KnownSoFar, Before, Of
  <2>4. CASE IsoInit
    <3> DEFINE new == i \in Of("PATAPI") /\ \A e \in known : e < i
    <3>1. /\ pc = "iso" /\ i \in 0..3 /\ i' = i + 1 /\ types' = types /\ pc' \in {"iso", "halted"}
          /\ known = {d \in Of("PATAPI") : d < i}
      BY <1>2, <2>4 DEF IsoInit, KnownSoFar
    <3>2. known' = IF new THEN known \cup {i} ELSE known
      BY <2>4 DEF IsoInit, Turn
    <3>3. new <=> i \in Of("PATAPI")
      BY <3>1
    <3>4. Of("PATAPI") \subseteq 0..3
      BY DEF Of, Drives
    <3>5. known' = {d \in Of("PATAPI") : d < i + 1}
      BY <3>1, <3>2, <3>3, <3>4
    <3> QED
      BY <3>1, <3>5 DEF KnownSoFar, Before, Of
  <2>5. CASE CdDone
    <3>1. Of("PATAPI") \subseteq 0..3 /\ Of("PATAPI")' = Of("PATAPI")
      BY <2>5 DEF CdDone, Of, Drives
    <3>2. known = {d \in Of("PATAPI") : d < 4} /\ known' = known /\ pc' = "up"
      BY <1>2, <2>5 DEF CdDone, KnownSoFar
    <3>3. known' = Of("PATAPI")'
      BY <3>1, <3>2
    <3> QED
      BY <3>2, <3>3 DEF KnownSoFar, Before
  <2>6. CASE UNCHANGED vars
    BY <1>2, <2>6 DEF vars, KnownSoFar, Of
  <2> QED
    BY <1>2, <2>1, <2>2, <2>3, <2>4, <2>5, <2>6 DEF Next
<1> QED
  BY <1>1, <1>2, PTL DEF Spec

\* Every CD drive is known when the kernel is up, whatever drives there are and whether
\* or not they hold a disc: the test of iso_init for a known drive is right because
\* cd_init goes upwards.
THEOREM CdsKnownAlways == Spec => []CdsKnown
<1>1. KnownSoFar => CdsKnown
  BY DEF KnownSoFar, CdsKnown
<1> QED
  BY KnownAlways, <1>1, PTL
-----------------------------------------------------------------------------
(* The heap.  Blocks are taken from the front.                              *)

\* The blocks init_env takes behind the shadow map and keeps, in their order, and the heap
\* that holds the map and the first n of them.
Owner(b) == CASE b = 0 -> "drives"
              [] b = 1 -> "cd drives"
              [] b = 2 -> "packet of cd"
              [] OTHER -> "cd_info"
Holds(n) == [b \in 0..Blocks - 1 |-> IF b < ShadowBlocks THEN "shadow map"
                                     ELSE IF b < ShadowBlocks + n THEN Owner(b - ShadowBlocks) ELSE "free"]

\* kmalloc takes the block behind them.
LEMMA AllocBehind ==
    ASSUME NEW n \in 0..3, NEW o
    PROVE  Alloc(Holds(n), o) = [Holds(n) EXCEPT ![ShadowBlocks + n] = o]
<1>1. ShadowBlocks + n \in 0..Blocks - 1 /\ Blocks \in Nat /\ ShadowBlocks \in Nat
  BY BootAssumption
<1>2. \A b : Owner(b) # "free"
  BY DEF Owner
<1>3. {b \in DOMAIN Holds(n) : Holds(n)[b] = "free"} = ShadowBlocks + n..Blocks - 1
  <2>1. DOMAIN Holds(n) = 0..Blocks - 1
    BY DEF Holds
  <2>2. ASSUME NEW b \in 0..Blocks - 1
        PROVE  Holds(n)[b] = "free" <=> b >= ShadowBlocks + n
    <3>1. Holds(n)[b] = IF b < ShadowBlocks THEN "shadow map"
                        ELSE IF b < ShadowBlocks + n THEN Owner(b - ShadowBlocks) ELSE "free"
      BY DEF Holds
    <3>2. Owner(b - ShadowBlocks) # "free" /\ b \in Nat /\ n \in Nat
      BY <1>2
    <3>3. CASE b < ShadowBlocks
      <4>1. ~ b >= ShadowBlocks + n
        BY <1>1, <3>2, <3>3
      <4>2. Holds(n)[b] = "shadow map"
        BY <3>1, <3>3
      <4> QED
        BY <4>1, <4>2
    <3>4. CASE ~ b < ShadowBlocks /\ b < ShadowBlocks + n
      <4>1. ~ b >= ShadowBlocks + n /\ Holds(n)[b] = Owner(b - ShadowBlocks)
        BY <1>1, <3>1, <3>2, <3>4
      <4> QED
        BY <3>2, <4>1
    <3>5. CASE ~ b < ShadowBlocks /\ ~ b < ShadowBlocks + n
      <4>1. b >= ShadowBlocks + n /\ Holds(n)[b] = "free"
        BY <1>1, <3>1, <3>2, <3>5
      <4> QED
        BY <4>1
    <3> QED
      BY <3>3, <3>4, <3>5
  <2> HIDE DEF Holds
  <2> QED
    BY <1>1, <2>1, <2>2
<1>4. Min(ShadowBlocks + n..Blocks - 1) = ShadowBlocks + n
  BY <1>1, MinIs
<1> QED
  BY <1>3, <1>4 DEF Alloc

LEMMA AllocNext ==
    ASSUME NEW n \in 0..3
    PROVE  Alloc(Holds(n), Owner(n)) = Holds(n + 1)
<1>1. ShadowBlocks + n \in 0..Blocks - 1 /\ Blocks \in Nat /\ ShadowBlocks \in Nat
  BY BootAssumption
<1>2. \A b \in 0..Blocks - 1 : b < ShadowBlocks + (n + 1) <=> b < ShadowBlocks + n \/ b = ShadowBlocks + n
  BY <1>1
<1>3. (ShadowBlocks + n) - ShadowBlocks = n /\ ~ ShadowBlocks + n < ShadowBlocks
  BY <1>1
<1> DEFINE E == [Holds(n) EXCEPT ![ShadowBlocks + n] = Owner(n)]
<1>4. E = [b \in 0..Blocks - 1 |-> E[b]]
  BY DEF Holds
<1>5. ASSUME NEW b \in 0..Blocks - 1
      PROVE  E[b] = Holds(n + 1)[b]
  <2>1. /\ Holds(n)[b] = IF b < ShadowBlocks THEN "shadow map"
                         ELSE IF b < ShadowBlocks + n THEN Owner(b - ShadowBlocks) ELSE "free"
        /\ Holds(n + 1)[b] = IF b < ShadowBlocks THEN "shadow map"
                             ELSE IF b < ShadowBlocks + (n + 1) THEN Owner(b - ShadowBlocks) ELSE "free"
        /\ DOMAIN Holds(n) = 0..Blocks - 1
    BY DEF Holds
  <2>2. E[b] = IF b = ShadowBlocks + n THEN Owner(n) ELSE Holds(n)[b]
    BY <1>1, <2>1
  <2> HIDE DEF E, Holds
  <2>3. CASE b = ShadowBlocks + n
    <3>1. E[b] = Owner(n) /\ b < ShadowBlocks + (n + 1) /\ ~ b < ShadowBlocks /\ b - ShadowBlocks = n
      BY <1>1, <1>3, <2>2, <2>3
    <3>2. Holds(n + 1)[b] = Owner(b - ShadowBlocks)
      BY <2>1, <3>1
    <3> QED
      BY <3>1, <3>2
  <2>4. CASE b # ShadowBlocks + n
    <3>1. E[b] = Holds(n)[b] /\ (b < ShadowBlocks + (n + 1) <=> b < ShadowBlocks + n)
      BY <1>2, <2>2, <2>4
    <3> QED
      BY <2>1, <3>1
  <2> QED
    BY <2>3, <2>4
<1>6. Holds(n + 1) = [b \in 0..Blocks - 1 |-> Holds(n + 1)[b]]
  BY DEF Holds
<1> HIDE DEF E, Holds
<1>7. E = Holds(n + 1)
  BY <1>4, <1>5, <1>6
<1> QED
  BY <1>7, AllocBehind DEF E

LEMMA FirstBlocks ==
    /\ Alloc(Holds(0), "drives") = Holds(1)
    /\ Alloc(Holds(1), "cd drives") = Holds(2)
    /\ Alloc(Holds(2), "packet of cd") = Holds(3)
    /\ Alloc(Holds(3), "cd_info") = Holds(4)
<1>1. Owner(0) = "drives" /\ Owner(1) = "cd drives" /\ Owner(2) = "packet of cd" /\ Owner(3) = "cd_info"
  BY DEF Owner
<1>2. /\ Alloc(Holds(0), Owner(0)) = Holds(0 + 1) /\ Alloc(Holds(1), Owner(1)) = Holds(1 + 1)
      /\ Alloc(Holds(2), Owner(2)) = Holds(2 + 1) /\ Alloc(Holds(3), Owner(3)) = Holds(3 + 1)
  <2>1. 0 \in 0..3 /\ 1 \in 0..3 /\ 2 \in 0..3 /\ 3 \in 0..3
    OBVIOUS
  <2> QED
    BY <2>1, AllocNext
<1>3. 0 + 1 = 1 /\ 1 + 1 = 2 /\ 2 + 1 = 3 /\ 3 + 1 = 4
  OBVIOUS
<1> QED
  BY <1>1, <1>2, <1>3

\* What the heap holds at each part of init_env.
HeapSoFar ==
    /\ pc = "paging" => heap = Empty
    /\ pc \in {"pci", "search", "ide", "diskio", "mbr"} => heap = Holds(0)
    /\ pc = "cd" => heap = Holds(1)
    /\ pc = "iso" => heap = Holds(IF known = {} THEN 3 ELSE 4)
    /\ pc = "up" => heap[0] = "shadow map"

LEMMA HeapAlways == Spec => []HeapSoFar
<1>a. /\ Blocks \in Nat /\ ShadowBlocks \in Nat /\ ShadowBlocks > 0 /\ Blocks >= ShadowBlocks + 4
      /\ 0 \in 0..Blocks - 1
  BY BootAssumption
<1>0. Shadowed(Empty) = Holds(0)
  <2>1. {b \in DOMAIN Empty : Empty[b] = "free"} = 0..Blocks - 1
    BY DEF Empty
  <2>2. Min(0..Blocks - 1) = 0
    BY <1>a, MinIs
  <2>3. \A b \in 0..Blocks - 1 : b \in 0..0 + ShadowBlocks - 1 <=> b < ShadowBlocks
    BY <1>a
  <2>4. ShadowBlocks + 0 = ShadowBlocks
    BY <1>a
  <2> QED
    BY <2>1, <2>2, <2>3, <2>4 DEF Empty, Holds, Shadowed
<1>1. Init => HeapSoFar
  BY DEF Init, HeapSoFar
<1>2. ASSUME KnownSoFar, HeapSoFar, [Next]_vars
      PROVE  HeapSoFar'
  <2>1. CASE MemoryInit
    BY <2>1 DEF MemoryInit, HeapSoFar, Empty
  <2>0. CASE PagingInit
    BY <1>0, <1>2, <2>0 DEF PagingInit, HeapSoFar
  <2>2. CASE PciInit \/ PciDone \/ Search \/ SearchDone \/ IdeInit \/ DiskioInit \/ MbrDrive
    <3>1. /\ pc \in {"pci", "search", "ide", "diskio", "mbr"} /\ heap' = heap
          /\ pc' \in {"pci", "search", "ide", "diskio", "mbr", "halted", "astray"}
      BY <2>2 DEF PciInit, PciDone, Search, SearchDone, IdeInit, DiskioInit, MbrDrive
    <3> QED
      BY <1>2, <3>1 DEF HeapSoFar, Holds, Owner
  <2>3. CASE MbrEnumerate
    <3>1. heap = Holds(0)
      BY <1>2, <2>3 DEF MbrEnumerate, HeapSoFar
    <3>2. Alloc(heap, "drives") = Holds(1)
      BY <3>1, FirstBlocks
    <3> DEFINE p == ShadowBlocks + 1
    <3>3. Alloc(Holds(1), "mbr") = [Holds(1) EXCEPT ![p] = "mbr"]
      <4>1. 1 \in 0..3
        OBVIOUS
      <4> QED
        BY <4>1, AllocBehind
    <3>4. Free([Holds(1) EXCEPT ![p] = "mbr"], "mbr") = Holds(1)
      <4>1. p \in 0..Blocks - 1 /\ Holds(1)[p] = "free" /\ DOMAIN Holds(1) = 0..Blocks - 1
        <5>1. p \in 0..Blocks - 1 /\ ~ p < ShadowBlocks /\ ~ p < ShadowBlocks + 1
          BY <1>a
        <5> HIDE DEF p
        <5> QED
          BY <5>1 DEF Holds
      <4>2. \A b \in 0..Blocks - 1 : Holds(1)[b] # "mbr"
        BY DEF Holds, Owner
      <4>3. Holds(1) = [b \in 0..Blocks - 1 |-> Holds(1)[b]]
        BY DEF Holds
      <4> HIDE DEF p
      <4>4. \A b \in 0..Blocks - 1 :
               (IF [Holds(1) EXCEPT ![p] = "mbr"][b] = "mbr" THEN "free" ELSE [Holds(1) EXCEPT ![p] = "mbr"][b])
               = Holds(1)[b]
        BY <4>1, <4>2
      <4> QED
        BY <4>1, <4>3, <4>4 DEF Free
    <3> QED
      BY <2>3, <3>2, <3>3, <3>4 DEF MbrEnumerate, Enumerated, HeapSoFar
  <2>4. CASE NoCds
    <3>1. heap' = Holds(1) /\ pc' = "up" /\ 0 \in 0..Blocks - 1 /\ 0 < ShadowBlocks
      BY <1>a, <1>2, <2>4 DEF NoCds, HeapSoFar
    <3>2. heap'[0] = "shadow map"
      BY <3>1 DEF Holds
    <3> QED
      BY <3>1, <3>2 DEF HeapSoFar
  <2>5. CASE CdInit
    <3>1. heap = Holds(1) /\ known = {}
      BY <1>2, <2>5 DEF CdInit, HeapSoFar, KnownSoFar, Before
    <3>2. Alloc(Alloc(heap, "cd drives"), "packet of cd") = Holds(3)
      BY <3>1, FirstBlocks
    <3>3. known' = {} /\ (pc' = "halted" \/ (pc' = "iso" /\ heap' = Holds(3)))
      BY <2>5, <3>1, <3>2 DEF CdInit
    <3> QED
      BY <3>3 DEF HeapSoFar
  <2>6. CASE IsoInit
    <3>1. pc = "iso" /\ pc' \in {"iso", "halted"} /\ heap = Holds(IF known = {} THEN 3 ELSE 4)
      BY <1>2, <2>6 DEF IsoInit, HeapSoFar
    <3>2. \/ known' = known /\ heap' = heap
          \/ known # {} /\ known' # {} /\ heap' = heap
          \/ known = {} /\ known' # {} /\ heap' = Alloc(heap, "cd_info")
      BY <2>6 DEF IsoInit
    <3>3. Alloc(Holds(3), "cd_info") = Holds(4)
      BY FirstBlocks
    <3> QED
      BY <3>1, <3>2, <3>3 DEF HeapSoFar
  <2>7. CASE CdDone
    <3>2. heap = Holds(3) \/ heap = Holds(4)
      BY <1>2, <2>7 DEF CdDone, HeapSoFar
    <3>3. 0 \in DOMAIN heap /\ heap[0] = "shadow map"
      BY <1>a, <3>2 DEF Holds
    <3> QED
      BY <2>7, <3>3 DEF CdDone, HeapSoFar, Free
  <2>8. CASE UNCHANGED vars
    BY <1>2, <2>8 DEF vars, HeapSoFar, Empty
  <2> QED
    BY <1>2, <2>0, <2>1, <2>2, <2>3, <2>4, <2>5, <2>6, <2>7, <2>8 DEF Next
<1> QED
  BY <1>1, <1>2, KnownAlways, PTL DEF Spec

\* Once the kernel is up the block of main's packet is the first of the shadow map
\* (memory_init forgets it, paging_init is the first to ask), for a heap and a map of any
\* size and whatever init_env takes behind it.
THEOREM PacketInShadowMapAlways == Spec => []PacketInShadowMap
<1>1. Blocks \in Nat /\ Blocks >= 4
  BY BootAssumption
<1>2. Alloc(Empty, "packet of main") = [Empty EXCEPT ![0] = "packet of main"]
  <2>1. {b \in DOMAIN Empty : Empty[b] = "free"} = 0..Blocks - 1
    BY DEF Empty
  <2>2. Min(0..Blocks - 1) = 0
    BY <1>1, MinIs
  <2> QED
    BY <2>1, <2>2 DEF Alloc
<1>3. {b \in 0..Blocks - 1 : Alloc(Empty, "packet of main")[b] # "free"} = {0}
  <2>1. \A b \in 0..Blocks - 1 : [Empty EXCEPT ![0] = "packet of main"][b] # "free" <=> b = 0
    BY <1>1 DEF Empty
  <2>2. 0 \in 0..Blocks - 1
    BY <1>1
  <2> QED
    BY <1>2, <2>1, <2>2
<1>4. Packet = 0
  <2>1. Min({0}) = 0
    BY MinIs
  <2> QED
    BY <1>3, <2>1 DEF Packet
<1>5. HeapSoFar => PacketInShadowMap
  BY <1>4 DEF HeapSoFar, PacketInShadowMap
<1> QED
  BY HeapAlways, <1>5, PTL
-----------------------------------------------------------------------------
(* The list of devices and the drivers.                                     *)

Functions == machine.functions
Words == [slot : 0..255, class : 0..254]

\* The machine is one of those considered, and the list holds its first functions.
ListSoFar ==
    /\ machine \in Machines
    /\ list \in Seq(Words) /\ Len(list) <= Len(Functions)
    /\ \A k \in 1..Len(list) : list[k] = Word(Functions[k])
    /\ pc \in {"memory", "paging"} => i = 1 /\ list = <<>>
    /\ pc = "pci" => i = Len(list) + 1
    /\ pc = "search" => i \in Nat \ {0}
    /\ pc \in Before \ {"memory", "paging", "pci"} => Len(list) = Len(Functions)

LEMMA AFunction ==
    ASSUME machine \in Machines
    PROVE  /\ Len(Functions) \in Nat /\ DOMAIN Functions = 1..Len(Functions)
           /\ \A k \in 1..Len(Functions) :
                 /\ Functions[k] \in [bus : 0..255, slot : 0..255, class : 0..254, sub : 0..254, refused : BOOLEAN]
                 /\ Word(Functions[k]) \in Words
                 /\ Word(Functions[k]).slot = Functions[k].slot
                 /\ Word(Functions[k]).class = Functions[k].class
<1> DEFINE F == [bus : 0..255, slot : 0..255, class : 0..254, sub : 0..254, refused : BOOLEAN]
<1>1. Functions \in Seq(F)
  BY BootAssumption DEF Functions
<1>4. \A f \in F : Word(f) \in Words /\ Word(f).slot = f.slot /\ Word(f).class = f.class
  BY DEF Word, Words
<1> HIDE DEF F
<1>2. Len(Functions) \in Nat /\ DOMAIN Functions = 1..Len(Functions)
  BY <1>1
<1>3. \A k \in 1..Len(Functions) : Functions[k] \in F
  BY <1>1
<1>5. \A k \in 1..Len(Functions) :
         /\ Functions[k] \in F
         /\ Word(Functions[k]) \in Words
         /\ Word(Functions[k]).slot = Functions[k].slot
         /\ Word(Functions[k]).class = Functions[k].class
  BY <1>3, <1>4
<1> QED
  BY <1>2, <1>5, Zenon DEF F

LEMMA ListAlways == Spec => []ListSoFar
<1>1. Init => ListSoFar
  <2> SUFFICES ASSUME Init PROVE ListSoFar
    OBVIOUS
  <2>1. machine \in Machines /\ list = <<>> /\ pc = "memory" /\ i = 1
    BY DEF Init
  <2>2. list \in Seq(Words) /\ Len(list) = 0
    BY <2>1
  <2> QED
    BY <2>1, <2>2, AFunction DEF ListSoFar, Before
<1>2. ASSUME ListSoFar, [Next]_vars
      PROVE  ListSoFar'
  <2>1. machine' = machine /\ Functions' = Functions /\ machine \in Machines
    BY <1>2 DEF ListSoFar, Functions, Next, vars, MemoryInit, PagingInit, PciInit, PciDone, Search, SearchDone,
                IdeInit, DiskioInit, MbrDrive, MbrEnumerate, NoCds, CdInit, IsoInit, CdDone
  <2>2. CASE MemoryInit \/ PagingInit
    BY <1>2, <2>1, <2>2, AFunction DEF MemoryInit, PagingInit, ListSoFar, Before
  <2>3. CASE PciInit
    <3>1. i \in Nat /\ i = Len(list) + 1 /\ i <= Len(Functions) /\ Len(list) \in Nat /\ pc = "pci"
      BY <1>2, <2>3 DEF PciInit, ListSoFar, Functions
    <3>2. CASE Len(list) < ListLen
      <4>1. list' = Append(list, Word(Functions[i])) /\ pc' = pc /\ i' = i + 1
        BY <2>3, <3>2 DEF PciInit, Functions
      <4>2. Word(Functions[i]) \in Words
        BY <2>1, <3>1, AFunction
      <4>3. /\ list' \in Seq(Words) /\ Len(list') = i
            /\ \A k \in 1..i : list'[k] = IF k = i THEN Word(Functions[i]) ELSE list[k]
        BY <1>2, <3>1, <4>1, <4>2 DEF ListSoFar
      <4> QED
        BY <1>2, <2>1, <3>1, <4>1, <4>3 DEF ListSoFar, Before
    <3>3. CASE ~ Len(list) < ListLen
      <4>1. list' = list /\ pc' = "astray"
        BY <2>3, <3>3 DEF PciInit
      <4> QED
        BY <1>2, <2>1, <4>1 DEF ListSoFar, Before
    <3> QED
      BY <3>2, <3>3
  <2>4. CASE PciDone
    <3>1. pc = "pci" /\ i > Len(Functions) /\ list' = list /\ pc' = "search" /\ i' = 1
      BY <2>4 DEF PciDone, Functions
    <3>2. i = Len(list) + 1 /\ Len(list) \in Nat /\ Len(list) <= Len(Functions)
      BY <1>2, <3>1 DEF ListSoFar
    <3>3. Len(list) = Len(Functions)
      BY <2>1, <3>1, <3>2, AFunction
    <3> QED
      BY <1>2, <2>1, <3>1, <3>3 DEF ListSoFar, Before
  <2>5. CASE Search
    <3>1. list' = list /\ pc = "search" /\ pc' \in {"search", "astray"} /\ i' = i + 1
      BY <2>5 DEF Search
    <3> QED
      BY <1>2, <2>1, <3>1 DEF ListSoFar, Before
  <2>6. CASE SearchDone \/ IdeInit \/ DiskioInit \/ MbrDrive \/ MbrEnumerate \/ NoCds \/ CdInit \/ IsoInit \/ CdDone
    <3>1. /\ list' = list /\ pc' \notin {"memory", "paging", "pci", "search"}
          /\ pc' \in Before => pc \in Before \ {"memory", "paging", "pci"}
      BY <2>6 DEF SearchDone, IdeInit, DiskioInit, MbrDrive, MbrEnumerate, NoCds, CdInit, IsoInit, CdDone, Before
    <3> QED
      BY <1>2, <2>1, <3>1 DEF ListSoFar
  <2>7. CASE UNCHANGED vars
    BY <1>2, <2>1, <2>7 DEF vars, ListSoFar
  <2> QED
    BY <1>2, <2>2, <2>3, <2>4, <2>5, <2>6, <2>7 DEF Next
<1> QED
  BY <1>1, <1>2, PTL DEF Spec

\* What the search looks at is a word, behind the list too.
LEMMA ListedWords ==
    ASSUME ListSoFar, pc = "search"
    PROVE  /\ Listed \subseteq Words
           /\ i \in 1..Len(list) => Listed = {list[i]}
           /\ Len(list) < i /\ i <= ListLen => Listed = {Zero}
<1>1. list \in Seq(Words) /\ Zero \in Words /\ ListLen \in Nat
  BY BootAssumption DEF ListSoFar, Zero, Words
<1>2. \A w \in Words : [w EXCEPT !.class = 1] \in Words
  BY DEF Words
<1>3. Range(list) \subseteq Words
  BY <1>1 DEF Range
<1>4. i \in Nat /\ i > 0 /\ Len(list) \in Nat /\ (i <= Len(list) => list[i] \in Words)
  BY <1>1 DEF ListSoFar
<1>5. {[w EXCEPT !.class = 1] : w \in Range(list)} \subseteq Words
  BY <1>2, <1>3
<1> QED
  BY <1>1, <1>3, <1>4, <1>5 DEF Listed
\* The drivers that are registered before the CD drives are for IDE controllers, and the
\* IDE driver has been given one.
Driver == [device : Words, type : {IdeType}]
Controls(w) == \E k \in 1..Len(Functions) : w = Word(Functions[k]) /\ Info(w) = IdeType
DriversSoFar ==
    /\ pc \in {"memory", "paging", "pci"} => drv_list = <<>>
    /\ pc \in Before => drv_list \in Seq(Driver)
    /\ pc \in {"diskio", "mbr", "cd", "iso", "up"} => Controls(ide)

\* The word the IDE driver is given.
LEMMA ControllerListed ==
    ASSUME ListSoFar
    PROVE  /\ Controller = Zero \/ \E k \in 1..Len(list) : Controller = list[k]
           /\ Controllers # {} => Info(Controller) = IdeType
<1>1. list \in Seq(Words) /\ Len(list) \in Nat /\ DOMAIN list = 1..Len(list)
  BY DEF ListSoFar
<1>2. ASSUME Controllers # {}
      PROVE  /\ Controller = list[Min(Controllers)] /\ Min(Controllers) \in 1..Len(list)
             /\ Info(Controller) = IdeType
  <2>1. Controllers \subseteq Nat
    BY <1>1 DEF Controllers
  <2>2. Min(Controllers) \in Controllers
    BY <1>2, <2>1, SmallestIsMember
  <2> QED
    BY <1>1, <1>2, <2>2 DEF Controller, Controllers
<1>3. ASSUME Controllers = {}
      PROVE  Controller = Zero \/ (Controller = list[2] /\ 2 \in 1..Len(list))
  BY <1>1, <1>3 DEF Controller
<1> QED
  BY <1>2, <1>3

LEMMA DriversAlways == Spec => []DriversSoFar
<1>1. Init => DriversSoFar
  <2> SUFFICES ASSUME Init PROVE DriversSoFar
    OBVIOUS
  <2>1. pc = "memory" /\ drv_list = <<>>
    BY DEF Init
  <2> QED
    BY <2>1 DEF DriversSoFar
<1>2. ASSUME ListSoFar, DriversSoFar, [Next]_vars
      PROVE  DriversSoFar'
  <2>1. machine' = machine /\ Controls(ide)' = Controls(ide')
    <3>1. machine' = machine
      BY <1>2 DEF Next, vars, MemoryInit, PagingInit, PciInit, PciDone, Search, SearchDone,
                  IdeInit, DiskioInit, MbrDrive, MbrEnumerate, NoCds, CdInit, IsoInit, CdDone
    <3>2. Functions' = Functions /\ Info(ide)' = Info(ide')
      BY <3>1 DEF Functions, Info, Subclass, At
    <3> QED
      BY <3>1, <3>2 DEF Controls
  <2>2. Controls(ide') <=> \E k \in 1..Len(Functions) : ide' = Word(Functions[k]) /\ Info(ide') = IdeType
    BY DEF Controls
  <2>3. CASE MemoryInit \/ PagingInit \/ PciInit \/ PciDone
    <3>1. /\ drv_list' = drv_list /\ drv_list = <<>>
          /\ pc' \in {"paging", "pci", "search", "astray"}
      BY <1>2, <2>3 DEF MemoryInit, PagingInit, PciInit, PciDone, DriversSoFar
    <3> QED
      BY <3>1 DEF DriversSoFar
  <2>4. CASE Search
    <3>1. PICK w \in Listed :
             \/ drv_list' = drv_list
             \/ HasDriver(w) /\ drv_list' = Append(drv_list, [device |-> w, type |-> Info(w)])
      BY <2>4 DEF Search
    <3>2. pc = "search" /\ w \in Words /\ pc' \in {"search", "astray"}
      BY <1>2, <2>4, ListedWords DEF Search
    <3>3. HasDriver(w) => [device |-> w, type |-> Info(w)] \in Driver
      BY <3>2 DEF HasDriver, Driver
    <3>4. drv_list \in Seq(Driver)
      BY <1>2, <3>2 DEF DriversSoFar, Before
    <3>5. drv_list' \in Seq(Driver)
      BY <3>1, <3>3, <3>4
    <3> QED
      BY <3>2, <3>5 DEF DriversSoFar, Before
  <2>5. CASE SearchDone
    BY <1>2, <2>5 DEF SearchDone, DriversSoFar, Before
  <2>6. CASE IdeInit
    <3>1. pc = "ide" /\ drv_list' = drv_list /\ drv_list \in Seq(Driver)
      BY <1>2, <2>6 DEF IdeInit, DriversSoFar, Before
    <3>2. CASE Handled(Info(Controller)) /\ ~ Refused(Controller.slot)
      <4>1. Info(Controller) = IdeType
        <5>1. PICK k \in DOMAIN drv_list : drv_list[k].type = Info(Controller)
          BY <3>2 DEF Handled
        <5>2. drv_list[k] \in Driver
          BY <3>1, <5>1
        <5>3. \A e \in Driver : e.type = IdeType
          BY DEF Driver
        <5> QED
          BY <5>1, <5>2, <5>3
      <4>2. Controller # Zero
        BY <4>1 DEF Info, Zero, IdeType
      <4>3. PICK k \in 1..Len(list) : Controller = list[k]
        BY <1>2, <4>2, ControllerListed
      <4>4. k \in 1..Len(Functions) /\ Controller = Word(Functions[k])
        BY <1>2, <4>3, AFunction DEF ListSoFar
      <4>5. ide' = Controller /\ pc' = "diskio"
        BY <2>6, <3>2 DEF IdeInit
      <4> QED
        BY <2>1, <2>2, <3>1, <4>1, <4>4, <4>5 DEF DriversSoFar, Before
    <3>3. CASE ~ (Handled(Info(Controller)) /\ ~ Refused(Controller.slot))
      BY <2>6, <3>3 DEF IdeInit, DriversSoFar, Before
    <3> QED
      BY <3>2, <3>3
  <2>7. CASE DiskioInit \/ MbrDrive \/ MbrEnumerate \/ NoCds \/ CdInit \/ IsoInit \/ CdDone
    <3>1. /\ pc \in {"diskio", "mbr", "cd", "iso"} /\ ide' = ide
          /\ pc' \in {"mbr", "cd", "iso", "up", "halted"}
          /\ pc' \in Before => pc \in Before /\ drv_list' = drv_list
      BY <2>7 DEF DiskioInit, MbrDrive, MbrEnumerate, NoCds, CdInit, IsoInit, CdDone, Before
    <3> QED
      BY <1>2, <2>1, <3>1 DEF DriversSoFar
  <2>8. CASE UNCHANGED vars
    BY <1>2, <2>1, <2>8 DEF vars, DriversSoFar
  <2> QED
    BY <1>2, <2>3, <2>4, <2>5, <2>6, <2>7, <2>8 DEF Next
<1> QED
  BY <1>1, <1>2, ListAlways, PTL DEF Spec

\* What pciGetDevices finds on bus 0 by its class and subclass is a controller.
LEMMA ControlsOne ==
    ASSUME machine \in Machines, OneBus, NEW w, Controls(w)
    PROVE  IsController(w.slot)
<1>1. PICK k \in 1..Len(Functions) : w = Word(Functions[k]) /\ Info(w) = IdeType
  BY DEF Controls
<1> DEFINE f == Functions[k]
<1>2. /\ DOMAIN Functions = 1..Len(Functions) /\ w.slot = f.slot /\ w.class = f.class
  BY <1>1, AFunction
<1>3. f.bus = 0 /\ \A j \in DOMAIN Functions : Functions[j].bus = 0 /\ Functions[j].slot = f.slot => j = k
  BY <1>2, BootAssumption DEF OneBus, Functions
<1>4. At(w.slot) = {k}
  BY <1>2, <1>3 DEF At, Functions
<1>5. Min({k}) = k
  BY <1>2, AFunction, MinIs
<1>6. Subclass(w.slot) = f.sub
  BY <1>4, <1>5 DEF Subclass, Functions
<1>7. f.class = 1 /\ f.sub = 1
  BY <1>1, <1>2, <1>6 DEF Info, IdeType
<1> QED
  BY <1>4, <1>7 DEF IsController, IdeType, Functions

\* With everything on bus 0 the IDE driver is given an IDE controller, wherever it is in
\* the list and whatever else there is.
THEOREM ControllerDrivenAlways == Spec => []ControllerDriven
<1>1. ListSoFar /\ DriversSoFar => ControllerDriven
  BY ControlsOne DEF ListSoFar, DriversSoFar, ControllerDriven
<1> QED
  BY ListAlways, DriversAlways, <1>1, PTL
-----------------------------------------------------------------------------
(* The partition tables.                                                    *)

\* How many hard disks come before drive d.
Rank(d) == Cardinality({e \in Of("PATA") : e < d})

LEMMA Ranks ==
    /\ \A d \in 0..4 : Rank(d) \in Nat
    /\ Rank(0) = 0
    /\ Rank(4) = Cardinality(Of("PATA"))
    /\ \A d \in 0..3 : Rank(d + 1) = Rank(d) + (IF d \in Of("PATA") THEN 1 ELSE 0)
    /\ \A d \in Of("PATA"), e \in 0..4 : d < e => Rank(d) < Rank(e)
<1> DEFINE Below(d) == {e \in Of("PATA") : e < d}
<1>1. Of("PATA") \subseteq 0..3 /\ IsFiniteSet(Of("PATA"))
  <2>1. IsFiniteSet(0..3)
    <3>1. 0 \in Int /\ 3 \in Int
      OBVIOUS
    <3> QED
      BY <3>1, FS_Interval
  <2>2. Of("PATA") \subseteq 0..3
    BY DEF Of, Drives
  <2> QED
    BY <2>1, <2>2, FS_Subset
<1>2. \A d : IsFiniteSet(Below(d)) /\ Rank(d) = Cardinality(Below(d)) /\ Rank(d) \in Nat
  BY <1>1, FS_Subset, FS_CardinalityType DEF Rank
<1>3. Below(0) = {} /\ Below(4) = Of("PATA")
  BY <1>1
<1>4. ASSUME NEW d \in 0..3
      PROVE  Rank(d + 1) = Rank(d) + (IF d \in Of("PATA") THEN 1 ELSE 0)
  <2>1. Below(d + 1) = IF d \in Of("PATA") THEN Below(d) \cup {d} ELSE Below(d)
    <3>1. \A e \in 0..3 : e < d + 1 <=> e < d \/ e = d
      OBVIOUS
    <3> QED
      BY <1>1, <3>1
  <2>2. d \notin Below(d)
    OBVIOUS
  <2> HIDE DEF Below
  <2>3. Cardinality(Below(d) \cup {d}) = Cardinality(Below(d)) + 1
    BY <1>2, <2>2, FS_AddElement
  <2> QED
    BY <1>2, <2>1, <2>3
<1>5. ASSUME NEW d \in Of("PATA"), NEW e \in 0..4, d < e
      PROVE  Rank(d) < Rank(e)
  <2>1. Below(d + 1) \subseteq Below(e) /\ d \in 0..3
    BY <1>1, <1>5
  <2>2. Cardinality(Below(d + 1)) <= Cardinality(Below(e))
    <3> HIDE DEF Below
    <3> QED
      BY <1>2, <2>1, FS_Subset
  <2> HIDE DEF Below
  <2>3. Rank(d + 1) = Rank(d) + 1
    BY <1>4, <2>1
  <2> QED
    BY <1>2, <2>2, <2>3
<1>6. Rank(0) = 0
  BY <1>2, <1>3, FS_EmptySet
<1> HIDE DEF Below
<1> QED
  BY <1>2, <1>3, <1>4, <1>5, <1>6

\* MBR_getIDEDrives has been through the drives below i: the entries are the hard disks
\* among them, each at the place that is its rank.
Listing == [disk : Drives, table : Drives \cup {Absent}]
InPlace(n) == /\ Len(disks) = Rank(n)
              /\ \A k \in 1..Len(disks) : disks[k].disk \in Of("PATA") /\ Rank(disks[k].disk) = k - 1
TablesSoFar ==
    /\ disks \in Seq(Listing)
    /\ pc \in Before \ {"mbr", "cd"} => disks = <<>>
    /\ pc = "mbr" => i \in 0..4 /\ InPlace(i)
    /\ pc \in {"cd", "iso", "up"} => InPlace(4) /\ \A k \in 1..Len(disks) : disks[k].table = TableOf(disks[k].disk)

LEMMA TablesAlways == Spec => []TablesSoFar
<1>1. Init => TablesSoFar
  <2> SUFFICES ASSUME Init PROVE TablesSoFar
    OBVIOUS
  <2>1. pc = "memory" /\ disks = <<>>
    BY DEF Init
  <2> QED
    BY <2>1 DEF TablesSoFar
<1>2. ASSUME KnownSoFar, TablesSoFar, [Next]_vars
      PROVE  TablesSoFar'
  <2>1. ASSUME types' = types
        PROVE  (\A d : Rank(d)' = Rank(d)) /\ Of("PATA")' = Of("PATA")
    BY <2>1 DEF Rank, Of
  <2>0. machine' = machine
    BY <1>2 DEF Next, vars, MemoryInit, PagingInit, PciInit, PciDone, Search, SearchDone,
                IdeInit, DiskioInit, MbrDrive, MbrEnumerate, NoCds, CdInit, IsoInit, CdDone
  <2>2. CASE MemoryInit \/ PagingInit \/ PciInit \/ PciDone \/ Search \/ SearchDone \/ IdeInit
    <3>1. /\ disks' = disks /\ pc \in Before \ {"mbr", "cd"}
          /\ pc' \in (Before \ {"mbr", "cd"}) \cup {"halted", "astray"}
      BY <2>2 DEF MemoryInit, PagingInit, PciInit, PciDone, Search, SearchDone, IdeInit, Before
    <3> QED
      BY <1>2, <3>1 DEF TablesSoFar, Before
  <2>3. CASE DiskioInit
    <3>1. disks' = <<>> /\ i' = 0 /\ pc' = "mbr"
      BY <1>2, <2>3 DEF DiskioInit, TablesSoFar, Before
    <3>2. Rank(0)' = 0
      <4>1. Of("PATA")' \subseteq Nat
        BY DEF Of, Drives
      <4>2. {e \in Of("PATA")' : e < 0} = {}
        BY <4>1
      <4> QED
        BY <4>2, FS_EmptySet DEF Rank
    <3>3. Len(disks') = 0 /\ disks' \in Seq(Listing) /\ i' \in 0..4
      BY <3>1
    <3> QED
      BY <3>1, <3>2, <3>3 DEF TablesSoFar, InPlace, Before
  <2>4. CASE MbrDrive
    <3>1. /\ pc = "mbr" /\ pc' = "mbr" /\ types' = types /\ i \in 0..3 /\ i' = i + 1 /\ InPlace(i)
          /\ disks \in Seq(Listing)
      BY <1>2, <2>4 DEF MbrDrive, TablesSoFar
    <3>2. Rank(i + 1) = Rank(i) + (IF i \in Of("PATA") THEN 1 ELSE 0) /\ Rank(i) \in Nat
      BY <3>1, Ranks
    <3>3. Len(disks) = Rank(i)
      BY <3>1 DEF InPlace
    <3>4. CASE i \in Of("PATA")
      <4> DEFINE e == [disk |-> i, table |-> Absent]
      <4>1. disks' = Append(disks, e) /\ e \in Listing /\ e.disk = i
        BY <2>4, <3>1, <3>4 DEF MbrDrive, HardDisk, Of, Listing, Drives
      <4> HIDE DEF e
      <4>2. /\ disks' \in Seq(Listing) /\ Len(disks') = Len(disks) + 1
            /\ \A k \in 1..Len(disks') : disks'[k] = IF k = Len(disks) + 1 THEN e ELSE disks[k]
        BY <3>1, <4>1
      <4>3. \A k \in 1..Len(disks') : disks'[k].disk \in Of("PATA") /\ Rank(disks'[k].disk) = k - 1
        <5>1. \A k \in 1..Len(disks') : k # Len(disks) + 1 => k \in 1..Len(disks)
          BY <3>1, <4>2
        <5>2. Len(disks) = (Len(disks) + 1) - 1
          BY <3>1
        <5> QED
          BY <3>1, <3>3, <3>4, <4>1, <4>2, <5>1, <5>2 DEF InPlace
      <4>4. Len(disks') = Rank(i + 1)
        BY <3>2, <3>3, <3>4, <4>2
      <4>5. i' \in 0..4
        BY <3>1
      <4> QED
        BY <2>1, <3>1, <4>2, <4>3, <4>4, <4>5 DEF TablesSoFar, InPlace, Before
    <3>5. CASE i \notin Of("PATA")
      <4>1. disks' = disks
        BY <2>4, <3>1, <3>5 DEF MbrDrive, HardDisk, Of, Drives
      <4>2. Rank(i + 1) = Rank(i) /\ i' \in 0..4
        BY <3>1, <3>2, <3>5
      <4> QED
        BY <2>1, <3>1, <4>1, <4>2 DEF TablesSoFar, InPlace, Before
    <3> QED
      BY <3>4, <3>5
  <2>5. CASE MbrEnumerate
    <3>1. /\ pc = "mbr" /\ pc' = "cd" /\ types' = types /\ i = 4 /\ InPlace(4) /\ disks \in Seq(Listing)
          /\ disks' = [k \in DOMAIN disks |-> [disk |-> disks[k].disk, table |-> TableOf(disks[k].disk)]]
      BY <1>2, <2>5 DEF MbrEnumerate, TablesSoFar
    <3>2. \A e \in Listing : [disk |-> e.disk, table |-> TableOf(e.disk)] \in Listing
      BY DEF Listing, TableOf
    <3>3. DOMAIN disks = 1..Len(disks) /\ Len(disks) \in Nat /\ \A k \in 1..Len(disks) : disks[k] \in Listing
      BY <3>1
    <3>4. /\ disks' \in Seq(Listing) /\ Len(disks') = Len(disks)
          /\ \A k \in 1..Len(disks) : disks'[k].disk = disks[k].disk /\ disks'[k].table = TableOf(disks[k].disk)
      <4> DEFINE D == [k \in 1..Len(disks) |-> [disk |-> disks[k].disk, table |-> TableOf(disks[k].disk)]]
      <4>1. disks' = D
        BY <3>1, <3>3
      <4>2. \A k \in 1..Len(disks) : D[k] \in Listing /\ D[k].disk = disks[k].disk /\ D[k].table = TableOf(disks[k].disk)
        BY <3>2, <3>3
      <4>3. D \in [1..Len(disks) -> Listing]
        BY <4>2
      <4> HIDE DEF D
      <4>4. D \in Seq(Listing) /\ Len(D) = Len(disks)
        BY <3>3, <4>3
      <4> QED
        BY <4>1, <4>2, <4>4
    <3> QED
      BY <2>0, <2>1, <3>1, <3>4 DEF TablesSoFar, InPlace, Before, TableOf
  <2>6. CASE NoCds \/ CdInit \/ IsoInit \/ CdDone
    <3>1. /\ pc \in {"cd", "iso"} /\ pc' \in {"iso", "up", "halted"}
          /\ disks' = disks /\ types' = types
      BY <2>6 DEF NoCds, CdInit, IsoInit, CdDone
    <3> QED
      BY <1>2, <2>0, <2>1, <3>1 DEF TablesSoFar, InPlace, Before, TableOf
  <2>7. CASE UNCHANGED vars
    BY <1>2, <2>1, <2>7 DEF vars, TablesSoFar, InPlace, TableOf
  <2> QED
    BY <1>2, <2>2, <2>3, <2>4, <2>5, <2>6, <2>7 DEF Next
<1> QED
  BY <1>1, <1>2, KnownAlways, PTL DEF Spec

\* The n-th entry of DISKS is the n-th hard disk with its own partition table, and
\* FAT_init finds the table of a drive that has only hard disks before it, whatever
\* drives there are, but for disks that ignore a command while they offer a word.
THEOREM TablesFoundAlways == Spec => []TablesFound
<1>1. TablesSoFar => TablesFound
  <2> SUFFICES ASSUME TablesSoFar, pc \in {"cd", "iso", "up"}
               PROVE  /\ \A k \in DOMAIN disks : /\ ActualDrive(k - 1, "PATA") = {disks[k].disk}
                                               /\ \/ disks[k].disk \in machine.strict
                                                  \/ disks[k].table = disks[k].disk
                      /\ Cardinality(Of("PATA")) = Len(disks)
                      /\ \A d \in Of("PATA") \ machine.strict :
                            (\A e \in 0..d : e \in Of("PATA")) => disks[d + 1].table = d
    BY DEF TablesFound
  <2>1. /\ DOMAIN disks = 1..Len(disks) /\ Len(disks) = Rank(4) /\ Len(disks) \in Nat
        /\ \A k \in 1..Len(disks) : /\ disks[k].disk \in Of("PATA") /\ Rank(disks[k].disk) = k - 1
                                    /\ disks[k].disk \notin machine.strict => disks[k].table = disks[k].disk
    BY DEF TablesSoFar, InPlace, TableOf
  <2>2. Of("PATA") \subseteq 0..3
    BY DEF Of, Drives
  <2>3. \A d, e \in Of("PATA") : Rank(d) = Rank(e) => d = e
    <3> SUFFICES ASSUME NEW d \in Of("PATA"), NEW e \in Of("PATA"), d # e PROVE Rank(d) # Rank(e)
      OBVIOUS
    <3>1. d \in 0..3 /\ e \in 0..3
      BY <2>2
    <3>2. d < e \/ e < d
      BY <3>1
    <3>3. d \in 0..4 /\ e \in 0..4 /\ Rank(d) \in Nat /\ Rank(e) \in Nat
      BY <3>1, Ranks
    <3>4. Rank(d) < Rank(e) \/ Rank(e) < Rank(d)
      BY <3>2, <3>3, Ranks
    <3> QED
      BY <3>3, <3>4
  <2>4. ASSUME NEW k \in 1..Len(disks)
        PROVE  ActualDrive(k - 1, "PATA") = {disks[k].disk}
    <3>1. ActualDrive(k - 1, "PATA") = {d \in Of("PATA") : Rank(d) = k - 1}
      BY DEF ActualDrive, Rank
    <3> QED
      BY <2>1, <2>3, <3>1
  <2>5. ASSUME NEW d \in Of("PATA") \ machine.strict, \A e \in 0..d : e \in Of("PATA")
        PROVE  disks[d + 1].table = d
    <3>1. d \in 0..3
      BY <2>2
    <3>2. Rank(d) = d
      <4>1. {e \in Of("PATA") : e < d} = IF d = 0 THEN {} ELSE 0..d - 1
        BY <2>2, <2>5, <3>1
      <4>2. d > 0 => Cardinality(0..d - 1) = d
        <5>1. 0 \in Int /\ d - 1 \in Int
          BY <3>1
        <5>2. Cardinality(0..d - 1) = IF 0 > d - 1 THEN 0 ELSE (d - 1) - 0 + 1
          BY <5>1, FS_Interval
        <5> QED
          BY <3>1, <5>2
      <4>3. Rank(d) = Cardinality(IF d = 0 THEN {} ELSE 0..d - 1)
        BY <4>1 DEF Rank
      <4>4. d = 0 \/ d > 0
        BY <3>1
      <4>5. ~ (d = 0 /\ d > 0) /\ Cardinality({}) = 0
        BY FS_EmptySet
      <4> QED
        BY <4>2, <4>3, <4>4, <4>5
    <3>3. Rank(d) < Rank(4) /\ Rank(4) \in Nat
      <4>1. 4 \in 0..4 /\ d < 4
        BY <3>1
      <4> QED
        BY <4>1, Ranks
    <3>4. d + 1 \in 1..Len(disks) /\ (d + 1) - 1 = d
      BY <2>1, <3>1, <3>2, <3>3
    <3>5. disks[d + 1].disk = d
      BY <2>1, <2>3, <3>2, <3>4
    <3> QED
      BY <2>1, <3>4, <3>5
  <2> QED
    BY <2>1, <2>4, <2>5, Ranks
<1> QED
  BY TablesAlways, <1>1, PTL
-----------------------------------------------------------------------------
(* The kernel comes up.                                                     *)

\* The IDE controllers among the first n functions.
IsIde(k) == Info(Word(Functions[k])) = IdeType
IdesTo(n) == {k \in 1..n : IsIde(k)}

LEMMA IdesUpTo ==
    ASSUME NEW n \in Nat, Len(Functions) \in Nat
    PROVE  /\ IsFiniteSet(IdesTo(n)) /\ Cardinality(IdesTo(n)) \in Nat
           /\ Cardinality(IdesTo(n + 1)) = Cardinality(IdesTo(n)) + (IF IsIde(n + 1) THEN 1 ELSE 0)
           /\ n <= Len(Functions) => Cardinality(IdesTo(n)) <= Cardinality(IdesTo(Len(Functions)))
           /\ IdesTo(n) # {} => Cardinality(IdesTo(n)) > 0
<1>1. \A m \in Nat : IsFiniteSet(IdesTo(m)) /\ Cardinality(IdesTo(m)) \in Nat
  <2> SUFFICES ASSUME NEW m \in Nat PROVE IsFiniteSet(IdesTo(m)) /\ Cardinality(IdesTo(m)) \in Nat
    OBVIOUS
  <2>1. IsFiniteSet(1..m)
    BY FS_Interval
  <2>2. IdesTo(m) \subseteq 1..m
    BY DEF IdesTo
  <2> QED
    BY <2>1, <2>2, FS_Subset, FS_CardinalityType
<1>2. IdesTo(n + 1) = IF IsIde(n + 1) THEN IdesTo(n) \cup {n + 1} ELSE IdesTo(n)
  <2>1. \A k : k \in 1..n + 1 <=> k \in 1..n \/ k = n + 1
    OBVIOUS
  <2> QED
    BY <2>1 DEF IdesTo
<1>3. n + 1 \notin IdesTo(n)
  BY DEF IdesTo
<1>4. Cardinality(IdesTo(n) \cup {n + 1}) = Cardinality(IdesTo(n)) + 1
  BY <1>1, <1>3, FS_AddElement
<1>5. n <= Len(Functions) => Cardinality(IdesTo(n)) <= Cardinality(IdesTo(Len(Functions)))
  <2>1. n <= Len(Functions) => IdesTo(n) \subseteq IdesTo(Len(Functions))
    BY DEF IdesTo
  <2> QED
    BY <1>1, <2>1, FS_Subset
<1>6. IdesTo(n) # {} => Cardinality(IdesTo(n)) # 0
  BY <1>1, FS_EmptySet
<1>7. Cardinality(IdesTo(n + 1)) = Cardinality(IdesTo(n)) + (IF IsIde(n + 1) THEN 1 ELSE 0)
  <2>1. Cardinality(IdesTo(n)) + 0 = Cardinality(IdesTo(n))
    BY <1>1
  <2> QED
    BY <1>2, <1>4, <2>1
<1>8. IsFiniteSet(IdesTo(n)) /\ Cardinality(IdesTo(n)) \in Nat
  BY <1>1
<1>9. IdesTo(n) # {} => Cardinality(IdesTo(n)) > 0
  BY <1>6, <1>8
<1> QED
  BY <1>5, <1>7, <1>8, <1>9

\* On a sound machine: the search registers a driver for each controller it passes and
\* passes one before the list seems to end.
SoundSoFar ==
    Sound =>
      /\ pc \notin {"halted", "astray"}
      /\ pc = "search" => i <= Len(Functions) + 1 /\ Len(drv_list) = Cardinality(IdesTo(i - 1))
      /\ pc = "ide" => Len(drv_list) > 0
      /\ pc \in Before \ {"memory", "paging", "pci", "search"} => Len(drv_list) < DriverLen
      /\ pc \in {"mbr", "cd", "iso"} => types = machine.attached

\* What Sound says of the functions.
LEMMA SoundMeans ==
    ASSUME machine \in Machines, Sound
    PROVE  /\ Len(Functions) < ListLen /\ ListLen <= SearchLen
           /\ Cardinality(IdesTo(Len(Functions))) < DriverLen
           /\ \E k \in 1..Len(Functions) : IsIde(k) /\ \A j \in 1..k : Word(Functions[j]) # Zero
           /\ \A w : ~ Refused(w)
<1>1. DOMAIN Functions = 1..Len(Functions) /\ Len(Functions) \in Nat
  BY AFunction
<1>2. {k \in DOMAIN Functions : IsIde(k)} = IdesTo(Len(Functions))
  BY <1>1 DEF IdesTo
<1>3. PICK k \in 1..Len(Functions) : IsIde(k) /\ \A j \in 1..k - 1 : Word(Functions[j]) # Zero
  BY <1>1 DEF Sound, IsIde, Functions
<1>4. Word(Functions[k]) # Zero
  <2>1. Word(Functions[k]).class = 1
    BY <1>3 DEF IsIde, Info, IdeType
  <2> QED
    BY <2>1 DEF Zero
<1>5. \A j \in 1..k : j \in 1..k - 1 \/ j = k
  BY <1>1
<1>6. \A w : ~ Refused(w)
  BY DEF Refused, At, Sound
<1> QED
  BY <1>2, <1>3, <1>4, <1>5, <1>6, BootAssumption DEF Sound, IsIde, Functions

LEMMA SoundAlways == Spec => []SoundSoFar
<1>1. Init => SoundSoFar
  BY DEF Init, SoundSoFar, Before
<1>2. ASSUME KnownSoFar, ListSoFar, DriversSoFar, ControllerDriven, SoundSoFar, [Next]_vars
      PROVE  SoundSoFar'
  <2>1. /\ machine' = machine /\ Functions' = Functions /\ machine \in Machines
        /\ Sound' = Sound /\ \A n : IdesTo(n)' = IdesTo(n)
    <3>1. machine' = machine
      BY <1>2 DEF Next, vars, MemoryInit, PagingInit, PciInit, PciDone, Search, SearchDone,
                  IdeInit, DiskioInit, MbrDrive, MbrEnumerate, NoCds, CdInit, IsoInit, CdDone
    <3>2. Functions' = Functions /\ \A w : Info(w)' = Info(w)
      BY <3>1 DEF Functions, Info, Subclass, At
    <3>3. Sound' = Sound
      BY <3>1, <3>2 DEF Sound, OneBus
    <3> QED
      BY <1>2, <3>1, <3>2, <3>3 DEF ListSoFar, IdesTo, IsIde
  <2> SUFFICES ASSUME Sound
               PROVE  /\ pc' \notin {"halted", "astray"}
                      /\ pc' = "search" => /\ i' <= Len(Functions) + 1
                                           /\ Len(drv_list') = Cardinality(IdesTo(i' - 1))
                      /\ pc' = "ide" => Len(drv_list') > 0
                      /\ pc' \in Before \ {"memory", "paging", "pci", "search"} => Len(drv_list') < DriverLen
                      /\ pc' \in {"mbr", "cd", "iso"} => types' = machine.attached
    BY <2>1 DEF SoundSoFar
  <2>2. /\ Len(Functions) \in Nat /\ Len(Functions) < ListLen /\ ListLen <= SearchLen
        /\ Cardinality(IdesTo(Len(Functions))) < DriverLen
        /\ ListLen \in Nat /\ SearchLen \in Nat /\ DriverLen \in Nat /\ DriverLen > 0
        /\ Len(list) \in Nat
    BY <1>2, <2>1, SoundMeans, AFunction, BootAssumption DEF ListSoFar
  <2>3. CASE MemoryInit
    BY <2>3 DEF MemoryInit, Before
  <2>0. CASE PagingInit
    BY <2>0 DEF PagingInit, Before
  <2>4. CASE PciInit
    <3>1. pc = "pci" /\ Len(list) < ListLen
      BY <1>2, <2>2, <2>4 DEF PciInit, ListSoFar
    <3> QED
      BY <2>4, <3>1 DEF PciInit, Before
  <2>5. CASE PciDone
    <3>1. IdesTo(0) = {}
      BY DEF IdesTo
    <3>2. drv_list' = <<>> /\ pc' = "search" /\ i' = 1
      BY <1>2, <2>5 DEF PciDone, DriversSoFar
    <3> QED
      BY <2>2, <3>1, <3>2, FS_EmptySet DEF Before
  <2>6. CASE Search
    <3>1. /\ pc = "search" /\ i \in Nat \ {0} /\ i <= Len(Functions) + 1 /\ i' = i + 1
          /\ Len(list) = Len(Functions) /\ Len(drv_list) = Cardinality(IdesTo(i - 1))
          /\ drv_list \in Seq(Driver)
      BY <1>2, <2>6 DEF Search, ListSoFar, SoundSoFar, DriversSoFar, Before
    <3>2. PICK w \in Listed :
             /\ w # Zero
             /\ IF HasDriver(w) /\ Len(drv_list) < DriverLen
                THEN drv_list' = Append(drv_list, [device |-> w, type |-> Info(w)])
                ELSE UNCHANGED drv_list
             /\ pc' = IF HasDriver(w) /\ Len(drv_list) = DriverLen THEN "astray" ELSE pc
      BY <2>6 DEF Search
    <3>3. i <= Len(Functions)
      BY <1>2, <2>2, <3>1, <3>2, ListedWords
    <3>4. w = Word(Functions[i])
      BY <1>2, <3>1, <3>2, <3>3, ListedWords DEF ListSoFar
    <3>5. HasDriver(w) <=> IsIde(i)
      BY <3>4 DEF HasDriver, IsIde
    <3>6. /\ Cardinality(IdesTo(i)) = Cardinality(IdesTo(i - 1)) + (IF IsIde(i) THEN 1 ELSE 0)
          /\ Cardinality(IdesTo(i - 1)) \in Nat /\ Cardinality(IdesTo(i)) <= Cardinality(IdesTo(Len(Functions)))
          /\ Cardinality(IdesTo(Len(Functions))) \in Nat
      <4>1. i - 1 \in Nat /\ i \in Nat /\ (i - 1) + 1 = i
        BY <3>1
      <4> QED
        BY <2>2, <3>3, <4>1, IdesUpTo
    <3>7. IsIde(i) => Len(drv_list) < DriverLen
      BY <2>2, <3>1, <3>6
    <3>8. Len(drv_list') = Cardinality(IdesTo(i)) /\ pc' = "search"
      BY <2>2, <3>1, <3>2, <3>5, <3>6, <3>7
    <3>9. i' - 1 = i /\ i' <= Len(Functions) + 1
      BY <2>2, <3>1, <3>3
    <3> QED
      BY <3>8, <3>9 DEF Before
  <2>7. CASE SearchDone
    <3>1. /\ pc = "search" /\ pc' = "ide" /\ i \in Nat \ {0} /\ i <= Len(Functions) + 1
          /\ Len(list) = Len(Functions) /\ Len(drv_list) = Cardinality(IdesTo(i - 1)) /\ drv_list' = drv_list
          /\ i > SearchLen \/ Zero \in Listed
      BY <1>2, <2>7 DEF SearchDone, ListSoFar, SoundSoFar, Before
    <3>2. PICK k \in 1..Len(Functions) : IsIde(k) /\ \A j \in 1..k : Word(Functions[j]) # Zero
      BY <2>1, SoundMeans
    <3>3. k < i
      <4>1. CASE i <= Len(Functions)
        <5>1. i \in 1..Len(list) /\ Zero \in Listed
          BY <2>2, <3>1, <4>1
        <5>2. Zero = Word(Functions[i])
          BY <1>2, <3>1, <5>1, ListedWords DEF ListSoFar
        <5>3. i \notin 1..k
          BY <3>2, <5>2
        <5> QED
          BY <2>2, <3>1, <5>3
      <4>2. CASE ~ i <= Len(Functions)
        BY <2>2, <3>1, <4>2
      <4> QED
        BY <4>1, <4>2
    <3>4. k \in IdesTo(i - 1)
      BY <2>2, <3>1, <3>2, <3>3 DEF IdesTo
    <3>5. /\ Cardinality(IdesTo(i - 1)) > 0 /\ Cardinality(IdesTo(i - 1)) \in Nat
          /\ Cardinality(IdesTo(i - 1)) <= Cardinality(IdesTo(Len(Functions)))
          /\ Cardinality(IdesTo(Len(Functions))) \in Nat
      <4>1. i - 1 \in Nat /\ i - 1 <= Len(Functions)
        BY <2>2, <3>1
      <4> QED
        BY <2>2, <3>4, <4>1, IdesUpTo
    <3> QED
      BY <2>2, <3>1, <3>5 DEF Before
  <2>8. CASE IdeInit
    <3>1. pc = "ide" /\ drv_list' = drv_list /\ Len(drv_list) > 0 /\ drv_list \in Seq(Driver) /\ Len(drv_list) < DriverLen
      BY <1>2, <2>8 DEF IdeInit, DriversSoFar, SoundSoFar, Before
    <3>2. PICK k \in 1..Len(Functions) : IsIde(k)
      BY <2>1, SoundMeans
    <3>3. k \in Controllers
      <4>1. Len(list) = Len(Functions) /\ list[k] = Word(Functions[k]) /\ k \in DOMAIN list /\ k < ListLen
        BY <1>2, <2>2, <3>1, <3>2 DEF ListSoFar, Before
      <4> QED
        BY <3>2, <4>1 DEF Controllers, IsIde
    <3>4. Info(Controller) = IdeType
      BY <1>2, <3>3, ControllerListed
    <3>5. 1 \in DOMAIN drv_list /\ drv_list[1].type = IdeType
      <4>1. 1 \in DOMAIN drv_list /\ drv_list[1] \in Driver
        BY <3>1
      <4> QED
        BY <4>1 DEF Driver
    <3>6. pc' = "diskio"
      BY <2>1, <2>8, <3>4, <3>5, SoundMeans DEF IdeInit, Handled
    <3> QED
      BY <3>1, <3>6 DEF Before
  <2>9. CASE DiskioInit
    <3>1. pc = "diskio" /\ pc' = "mbr" /\ drv_list' = drv_list /\ Len(drv_list) < DriverLen
      BY <1>2, <2>9 DEF DiskioInit, SoundSoFar, Before
    <3>2. IsController(ide.slot)
      BY <1>2, <3>1 DEF ControllerDriven, Sound
    <3>3. types' = machine.attached
      BY <2>9, <3>2 DEF DiskioInit
    <3> QED
      BY <3>1, <3>3 DEF Before
  <2>10. CASE MbrDrive \/ MbrEnumerate \/ NoCds \/ CdDone
    <3>1. /\ pc \in {"mbr", "cd", "iso"} /\ pc' \in {"mbr", "cd", "up"} /\ types' = types
          /\ pc' \in {"mbr", "cd"} => pc = "mbr" /\ drv_list' = drv_list
      BY <2>10 DEF MbrDrive, MbrEnumerate, NoCds, CdDone
    <3> QED
      BY <1>2, <3>1 DEF SoundSoFar, Before
  <2>11. CASE CdInit
    <3>1. pc = "cd" /\ Len(drv_list) < DriverLen /\ Len(drv_list) \in Nat
      <4>1. pc = "cd" /\ drv_list \in Seq(Driver)
        BY <1>2, <2>11 DEF CdInit, DriversSoFar, Before
      <4> QED
        BY <1>2, <4>1 DEF SoundSoFar, Before
    <3>2. pc' = "iso" /\ types' = types
      <4>1. Len(drv_list) # DriverLen
        BY <2>2, <3>1
      <4> QED
        BY <2>11, <4>1 DEF CdInit
    <3> QED
      BY <1>2, <3>1, <3>2 DEF SoundSoFar, Before
  <2>12. CASE IsoInit
    <3> DEFINE new == i \in Of("PATAPI") /\ \A e \in known : e < i
    <3>1. /\ pc = "iso" /\ i \in 0..3 /\ types' = types /\ types = machine.attached
          /\ known = {d \in Of("PATAPI") : d < i}
      BY <1>2, <2>12 DEF IsoInit, KnownSoFar, SoundSoFar
    <3>2. pc' \in IF new /\ i \notin machine.discs THEN {pc, "halted"} ELSE {pc}
      BY <2>12 DEF IsoInit, Turn
    <3>3. i \in Of("PATAPI") => i \in machine.discs
      BY <3>1 DEF Sound, Of
    <3>4. pc' = "iso"
      BY <3>1, <3>2, <3>3
    <3> QED
      BY <3>1, <3>4 DEF Before
  <2>13. CASE UNCHANGED vars
    BY <1>2, <2>13 DEF vars, SoundSoFar
  <2> QED
    BY <1>2, <2>0, <2>3, <2>4, <2>5, <2>6, <2>7, <2>8, <2>9, <2>10, <2>11, <2>12, <2>13 DEF Next
<1> QED
  BY <1>1, <1>2, KnownAlways, ListAlways, DriversAlways, ControllerDrivenAlways, PTL DEF Spec

\* A sound machine comes up: no list is overrun and no assertion fails, for lists of any
\* length and any functions and drives.
THEOREM BootsAlways == Spec => []Boots
<1>1. SoundSoFar => Boots
  BY DEF SoundSoFar, Boots
<1> QED
  BY SoundAlways, <1>1, PTL
=============================================================================
