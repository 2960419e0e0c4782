------------------------------ MODULE Kmalloc -------------------------------
(***************************************************************************)
(* The kernel heap of core/memory/memory.c: the table memory_t, kmalloc    *)
(* and kfree, and the call sites of the kernel that hold what kmalloc      *)
(* returned.  Addresses and sizes are counted in blocks of 512 bytes       *)
(* (MEMORY_BLOCK_SIZE), so that a pointer inside a block, which the table  *)
(* never holds, is not represented.  A request is the number of blocks     *)
(* HOW_MANY computes before the cast to uint8_t cuts it.                   *)
(***************************************************************************)
EXTENDS Integers

CONSTANTS
    TableLen,   \* MEMORY_TABLE_LENGTH
    Base,       \* MEMORY_MALLOC_MEMSTRT, in blocks
    ByteMod,    \* values of a uint8_t: 256 in the code
    Owners,     \* the call sites; each holds at most one allocation
    Requests,   \* the whole numbers of blocks asked for
    OobWords    \* the words that may lie behind the last entry of memory_t

ASSUME KmallocAssumption ==
    /\ TableLen \in Nat \ {0}
    /\ Base \in Nat \ {0}
    /\ ByteMod \in Nat /\ ByteMod > TableLen
    /\ Requests \subseteq Nat
    /\ OobWords \subseteq Nat

NULL == 0
None == -1

Index == 0..(TableLen - 1)

VARIABLES
    loc,     \* memory_t[i].loc
    size,    \* memory_t[i].size
    ptr,     \* ptr[o]: what kmalloc returned to o, NULL when o has nothing
    asked    \* asked[o]: the blocks o asked for, None when o is not holding

vars == <<loc, size, ptr, asked>>

Init == /\ loc = [i \in Index |-> 0]
        /\ size = [i \in Index |-> 0]
        /\ ptr = [o \in Owners |-> NULL]
        /\ asked = [o \in Owners |-> None]
-----------------------------------------------------------------------------
\* uint8_t blocks = (uint8_t) HOW_MANY(size, MEMORY_BLOCK_SIZE)
Blocks(n) == n % ByteMod

\* Where b consecutive entries are free.
Fits(b) == {s \in Index : /\ s + b <= TableLen
                          /\ \A i \in s..(s + b - 1) : loc[i] = NULL}

\* The run the scan of the table stops at: the first one.
AnyFit(b) == Fits(b)
FirstFit(b) == {s \in Fits(b) : \A t \in Fits(b) : s <= t}

\* The scan itself: its counter "available" after entry i, and the entry it breaks at.
CountedOn(i, before) == IF loc[i] = NULL THEN before + 1 ELSE before
Counted(i, before) == IF loc[i] = NULL THEN before + 1 ELSE 0
Available[i \in Index] == Counted(i, IF i = 0 THEN 0 ELSE Available[i - 1])
BreaksAt(b, e) == Available[e] = b /\ \A i \in Index : i < e => Available[i] # b

\* The address given to the run that starts at entry s: computed from the entry
\* before it, not from s.
Location(s) == IF s = 0 THEN Base ELSE loc[s - 1] + size[s - 1]

\* memory_update_table: all b entries of the run carry the same pair.
UpdateTable(s, p, b) ==
    /\ loc' = [i \in Index |-> IF i \in s..(s + b - 1) THEN p ELSE loc[i]]
    /\ size' = [i \in Index |-> IF i \in s..(s + b - 1) THEN b ELSE size[i]]

\* The owner o asked for n blocks and kmalloc returned p.
Returns(o, n, p) == /\ ptr' = [ptr EXCEPT ![o] = p]
                    /\ asked' = [asked EXCEPT ![o] = n]

Malloc(o, n) ==
    /\ asked[o] = None
    /\ Blocks(n) > 0
    /\ \E s \in FirstFit(Blocks(n)) :
          /\ UpdateTable(s, Location(s), Blocks(n))
          /\ Returns(o, n, Location(s))

MallocNull(o, n) ==
    /\ asked[o] = None
    /\ Blocks(n) > 0
    /\ Fits(Blocks(n)) = {}
    /\ Returns(o, n, NULL)
    /\ UNCHANGED <<loc, size>>

\* The scan for 0 blocks stops at the first entry in use, k; no entry is
\* written, and the result is read from the entry behind k.
ZeroStops(k) == loc[k] # NULL /\ \A j \in Index : j < k => loc[j] = NULL

MallocZero(o, n) ==
    /\ asked[o] = None
    /\ Blocks(n) = 0
    /\ \E k \in Index : /\ ZeroStops(k)
                        /\ k + 1 \in Index
                        /\ Returns(o, n, loc[k + 1])
    /\ UNCHANGED <<loc, size>>

\* As above, when the entry read is behind the end of memory_t: the only one
\* in use is the last, or none is and the scan ran to the end.
MallocZeroPastEnd(o, n) ==
    /\ asked[o] = None
    /\ Blocks(n) = 0
    /\ \A i \in Index : i # TableLen - 1 => loc[i] = NULL
    /\ \E w \in OobWords : Returns(o, n, w)
    /\ UNCHANGED <<loc, size>>
-----------------------------------------------------------------------------
\* The first entry that carries the pointer p.
Finds(i, p) == loc[i] = p /\ \A j \in Index : j < i => loc[j] # p

\* uint8_t len = (uint8_t) (i + memory_t[i].size)
LastOfRun(i) == (i + size[i] - 1) % ByteMod
Len(i) == (i + size[i]) % ByteMod

Forgets(o) == /\ ptr' = [ptr EXCEPT ![o] = NULL]
              /\ asked' = [asked EXCEPT ![o] = None]

FreeNull(o) ==
    /\ asked[o] # None
    /\ ptr[o] = NULL
    /\ Forgets(o)
    /\ UNCHANGED <<loc, size>>

Free(o) ==
    /\ asked[o] # None
    /\ ptr[o] # NULL
    /\ \E i \in Index :
          /\ Finds(i, ptr[o])
          /\ loc' = [j \in Index |-> IF j \in i..(Len(i) - 1) THEN 0 ELSE loc[j]]
          /\ size' = [j \in Index |-> IF j \in i..(Len(i) - 1) THEN 0 ELSE size[j]]
    /\ Forgets(o)

\* No entry carries the pointer: i is left at MEMORY_TABLE_LENGTH, the size is
\* read behind the table and what may be cleared lies behind the table too.
FreeUnknown(o) ==
    /\ asked[o] # None
    /\ ptr[o] # NULL
    /\ \A i \in Index : loc[i] # ptr[o]
    /\ Forgets(o)
    /\ UNCHANGED <<loc, size>>

Next == \E o \in Owners :
           \/ \E n \in Requests : \/ Malloc(o, n)
                                  \/ MallocNull(o, n)
                                  \/ MallocZero(o, n)
                                  \/ MallocZeroPastEnd(o, n)
           \/ FreeNull(o)
           \/ Free(o)
           \/ FreeUnknown(o)

Spec == Init /\ [][Next]_vars
-----------------------------------------------------------------------------
TypeOK == /\ loc \in [Index -> Nat]
          /\ size \in [Index -> Nat]
          /\ ptr \in [Owners -> Nat]
          /\ asked \in [Owners -> Requests \cup {None}]

\* The entry that starts the run of entry i, and the entry behind the run.
RunStart(i) == loc[i] - Base
RunEnd(i) == RunStart(i) + size[i]

\* Whatever is asked for and however it is freed, the table is a row of whole
\* runs: an entry in use belongs to a run that starts at the entry its address
\* names, stays inside the table, and carries one address and one size
\* throughout.  kmalloc computes an address from the neighbour entry and kfree
\* clears as many entries as the first match says, so every address handed out
\* later depends on it.
TableWellFormed ==
    \A i \in Index :
       IF loc[i] = NULL
       THEN size[i] = 0
       ELSE /\ RunStart(i) \in 0..i
            /\ RunEnd(i) \in (i + 1)..TableLen
            /\ \A j \in Index : j >= RunStart(i) /\ j < RunEnd(i) =>
                  loc[j] = loc[i] /\ size[j] = size[i]

\* The blocks o may write to: as many as it asked for.
Span(o) == IF ptr[o] = NULL THEN {} ELSE ptr[o]..(ptr[o] + asked[o] - 1)

\* "see if we can find enough 512 blocks to fit our needs" (memory.c:157):
\* a caller that was given a pointer was given as many blocks as it asked for.
EnoughBlocks ==
    \A o \in Owners : ptr[o] # NULL =>
       \A a \in Span(o) : a - Base \in Index /\ loc[a - Base] = ptr[o]

\* No two callers may write to the same block: the table is shared by every
\* driver and file system of the kernel and keeps no owner.
Disjoint == \A o, q \in Owners : o # q => Span(o) \cap Span(q) = {}

\* Every block marked in use is some caller's: kfree leaves no block behind
\* and kmalloc marks none in excess.
NoBlockLost == \A i \in Index : loc[i] # NULL => \E o \in Owners : Base + i \in Span(o)

\* The single pass of kmalloc with one counter finds exactly the lowest run of b free
\* entries, and ends without a break exactly when there is none (memory.c:157, "see if
\* we can find enough 512 blocks").
ScanIsFirstFit ==
    \A b \in 1..TableLen : FirstFit(b) = {s \in Index : \E e \in Index : BreaksAt(b, e) /\ s = e - b + 1}

\* The heap Kmalloc implements.
Abstract == INSTANCE Heap WITH own <- [o \in Owners |-> Span(o)]

\* For callers that ask for a sound number of blocks, kmalloc and kfree are a
\* heap: every pointer is a free run of the size asked for inside the heap
\* (the page directory starts right behind it), and NULL is returned only when
\* no run of that size is free.
HeapSpec == Abstract!Spec

\* At least one block, and a number the cast to uint8_t leaves alone.
SoundRequests == \A n \in Requests : n > 0 /\ n < ByteMod
=============================================================================
