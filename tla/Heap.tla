-------------------------------- MODULE Heap --------------------------------
(***************************************************************************)
(* What a heap promises its callers, with nothing of how the kernel keeps  *)
(* its books: an owner either gets a run of free blocks of the length it   *)
(* asked for, or is refused because no such run exists, and gives back     *)
(* exactly what it got.  Kmalloc.tla implements this specification.        *)
(* It is an abstraction of core/memory/memory.c, not a component of it.    *)
(***************************************************************************)
EXTENDS Integers

CONSTANTS
    TableLen,   \* number of blocks of the heap
    Base,       \* address of the first block, in blocks
    Owners,     \* the callers
    Requests,   \* numbers of blocks a caller may ask for
    None        \* "nothing asked"

VARIABLES
    own,        \* own[o]: the block addresses o may write to
    asked       \* asked[o]: what o asked for, or None

vars == <<own, asked>>

\* The contiguous runs of n blocks of the heap.
Runs(n) == {a..(a + n - 1) : a \in Base..(Base + TableLen - n)}

\* The blocks some owner has.
Used == UNION {own[o] : o \in Owners}

Init == /\ own = [o \in Owners |-> {}]
        /\ asked = [o \in Owners |-> None]

\* o gets some free run of n blocks.
Grant(o, n) ==
    /\ asked[o] = None
    /\ \E run \in Runs(n) : /\ run \cap Used = {}
                            /\ own' = [own EXCEPT ![o] = run]
    /\ asked' = [asked EXCEPT ![o] = n]

\* o is refused, and only because no run of n blocks is free.
Refuse(o, n) ==
    /\ asked[o] = None
    /\ \A run \in Runs(n) : run \cap Used # {}
    /\ asked' = [asked EXCEPT ![o] = n]
    /\ UNCHANGED own

\* o gives back all it has.
Release(o) ==
    /\ asked[o] # None
    /\ own' = [own EXCEPT ![o] = {}]
    /\ asked' = [asked EXCEPT ![o] = None]

Next == \E o \in Owners : \/ \E n \in Requests : Grant(o, n) \/ Refuse(o, n)
                          \/ Release(o)

Spec == Init /\ [][Next]_vars
=============================================================================
