------------------------------- MODULE Paging -------------------------------
(***************************************************************************)
(* The pages of core/memory/paging.c once paging_init is done: the shadow  *)
(* map, valloc and vfree, and the process ids task_new_pid                 *)
(* (core/exec/task.c) hands to the loaders of programs.  Addresses are     *)
(* page numbers, sizes are numbers of pages.  How the page tables are      *)
(* built is in PageTables.tla.                                             *)
(*                                                                         *)
(* Pages are asked for by the kernel, which frees them again (the buffers  *)
(* of the file systems), and by the loader of programs, which never does,  *)
(* for the program's segments and for its stack.                           *)
(***************************************************************************)
EXTENDS Integers

CONSTANTS
    NumPages,     \* g_max_pages and shadow_len: the pages of the machine
    KernelPages,  \* the pages up to the end of the page tables
    ResvPid,      \* PID_RESV: 255, the largest uint8_t
    PagesPerTable, \* PAGING_TABLE_SIZE
    StackPids,    \* the pids the loader may read for a stack, see Requesters
    ShortMod,     \* values of a uint16_t
    PidBound,     \* bound: no program is started once the last pid is above it
    Owners,       \* the call sites; each holds at most one allocation
    Requests      \* the numbers of pages asked for

ASSUME PagingAssumption ==
    /\ NumPages \in Nat
    /\ KernelPages \in Nat \ {0} /\ KernelPages <= NumPages
    /\ ResvPid \in Nat /\ ResvPid > 1
    /\ PagesPerTable \in Nat /\ PagesPerTable > 1
    /\ StackPids \subseteq 0..ResvPid
    /\ ShortMod \in Nat \ {0}
    /\ PidBound \in Nat
    /\ Requests \subseteq Nat

NULL == 0
None == -1
Empty == "empty"
KernelPid == 0

Page == 0..(NumPages - 1)

\* The frame behind a page once paging is on: the kernel's own pages are mapped
\* to themselves, and behind them a table starts with the frame the one before
\* it ended with (FramesDrift of PageTables.tla).
FrameOf(v) == IF v < KernelPages THEN v ELSE v - v \div PagesPerTable
Shared(v) == \E w \in Page \ {v} : FrameOf(w) = FrameOf(v)

VARIABLES
    pid,      \* pid[v]: shadow_t[v].pid
    npages,   \* npages[v]: shadow_t[v].npages
    user,     \* the pages whose entries let user mode in
    lastPid,  \* the static pid of task_new_pid
    contents, \* contents[v]: the caller whose data page v still shows as it
              \* wrote them there, Empty when they were cleared or overwritten
    halted,   \* an assertion failed: the kernel loops forever
    ptr,      \* ptr[o]: what valloc returned to o, NULL when o has nothing
    asked,    \* asked[o]: the pages o asked for, None when o is not holding
    role      \* role[o]: what o asks for; only a "buffer" is ever freed

vars == <<pid, npages, user, lastPid, contents, halted, ptr, asked, role>>

\* paging_init: nothing but the kernel's space is taken, and its pages carry
\* the attributes paging_map_kernelspace asks for.
Init ==
    /\ pid = [v \in Page |-> IF v < KernelPages THEN KernelPid ELSE ResvPid]
    /\ npages = [v \in Page |-> ShortMod - 1]
    /\ user = 0..(KernelPages - 1)
    /\ lastPid = KernelPid
    /\ contents = [v \in Page |-> Empty]
    /\ halted = FALSE
    /\ ptr = [o \in Owners |-> NULL]
    /\ asked = [o \in Owners |-> None]
    /\ role = [o \in Owners |-> "buffer"]
-----------------------------------------------------------------------------
(* task_new_pid *)

NextPid(p) == IF p = ResvPid THEN KernelPid + 1 ELSE p + 1

NewPid ==
    /\ ~halted
    /\ lastPid <= PidBound
    /\ lastPid' = NextPid(lastPid)
    /\ UNCHANGED <<pid, npages, user, contents, halted, ptr, asked, role>>

\* Who fills in a request: the kernel, which lets user mode in; the loader for
\* the segments of the program it loads; and the loader for the program's stack,
\* which passes 4096 for the request itself, so that whatever lies at that
\* address is its pid, its attributes and its size.
BufferRequest == [pid |-> KernelPid, user |-> TRUE, role |-> "buffer"]
SegmentRequest == [pid |-> lastPid, user |-> FALSE, role |-> "segment"]
StackRequests == [pid : StackPids, user : BOOLEAN, role : {"stack"}]

Requesters == {BufferRequest} \cup
              (IF lastPid = KernelPid THEN {} ELSE {SegmentRequest} \cup StackRequests)
-----------------------------------------------------------------------------
(* valloc *)

\* paging_find_free counts one page more than it was asked for.
Fits(n) == {s \in Page : s + n < NumPages /\ \A v \in s..(s + n) : pid[v] = ResvPid}
FindFree(n) == {s \in Fits(n) : \A t \in Fits(n) : s <= t}

Returns(o, n, p) == /\ ptr' = [ptr EXCEPT ![o] = p]
                    /\ asked' = [asked EXCEPT ![o] = n]

VallocNull(o, n) ==
    /\ ~halted
    /\ asked[o] = None
    /\ n > NumPages \/ n = 0
    /\ Returns(o, n, NULL)
    /\ UNCHANGED <<pid, npages, user, lastPid, contents, halted, role>>

MarkFirst(s, n, p) == pid' = [pid EXCEPT ![s] = p]
Mark(s, n, p) == pid' = [v \in Page |-> IF v \in s..(s + n - 1) THEN p ELSE pid[v]]

\* o writes to some pages in turn: what is put in a frame through a later page
\* takes the place of what was there.
Writes(o, pages) ==
    contents' = [v \in Page |->
                    IF v \in pages /\ \A w \in pages : FrameOf(w) = FrameOf(v) => w <= v THEN o
                    ELSE IF \E w \in pages : FrameOf(w) = FrameOf(v) THEN Empty
                    ELSE contents[v]]

\* The pages that are written to right after the call: the caller's own, but for a
\* stack, whose pointer is its first byte, the page before, where the call
\* of the program is pushed.
WrittenFirst(s, n, r) == IF r.role = "stack" THEN {s - 1} ELSE s..(s + n - 1)

\* Only the entry of the first page gets the attributes.
Valloc(o, n, r) ==
    /\ ~halted
    /\ asked[o] = None
    /\ n <= NumPages /\ n # 0
    /\ \E s \in FindFree(n) :
          /\ user' = IF r.user THEN user \cup {s} ELSE user \ {s}
          /\ Mark(s, n, r.pid)
          /\ npages' = [npages EXCEPT ![s] = n % ShortMod]
          /\ Returns(o, n, s)
          /\ Writes(o, WrittenFirst(s, n, r))
    /\ role' = [role EXCEPT ![o] = r.role]
    /\ UNCHANGED <<lastPid, halted>>

\* dbg_assert(ptr)
VallocHalt(o, n) ==
    /\ ~halted
    /\ asked[o] = None
    /\ n <= NumPages /\ n # 0
    /\ Fits(n) = {}
    /\ halted' = TRUE
    /\ UNCHANGED <<pid, npages, user, lastPid, contents, ptr, asked, role>>
-----------------------------------------------------------------------------
(* vfree *)

\* The pages vfree clears and gives back: as many as the first one's entry of
\* the shadow map says.
RunButFirst(p) == (p + 1)..(p + npages[p] - 1)
Run(p) == p..(p + npages[p] - 1)

\* The pages whose contents the memset removes.
FirstCleared(p) == {p}
ClearedPastEnd(p) == p..(p + npages[p])
Cleared(p) == Run(p)

Forgets(o) == /\ ptr' = [ptr EXCEPT ![o] = NULL]
              /\ asked' = [asked EXCEPT ![o] = None]

Vfree(o) ==
    /\ ~halted
    /\ asked[o] # None
    /\ role[o] = "buffer"
    /\ ptr[o] # NULL
    /\ user' = user \ {ptr[o]}
    /\ contents' = [v \in Page |-> IF \E w \in Cleared(ptr[o]) : FrameOf(w) = FrameOf(v)
                                  THEN Empty ELSE contents[v]]
    /\ pid' = [v \in Page |-> IF v \in Run(ptr[o]) THEN ResvPid ELSE pid[v]]
    /\ Forgets(o)
    /\ UNCHANGED <<npages, lastPid, halted, role>>

\* The caller got NULL and gives up; no caller passes NULL to vfree.
GiveUp(o) ==
    /\ ~halted
    /\ asked[o] # None
    /\ ptr[o] = NULL
    /\ Forgets(o)
    /\ UNCHANGED <<pid, npages, user, lastPid, contents, halted, role>>

Next == \/ NewPid
        \/ \E o \in Owners :
              \/ \E n \in Requests : \/ VallocNull(o, n)
                                     \/ \E r \in Requesters : Valloc(o, n, r)
                                     \/ VallocHalt(o, n)
              \/ Vfree(o)
              \/ GiveUp(o)

Spec == Init /\ [][Next]_vars
-----------------------------------------------------------------------------
TypeOK == /\ pid \in [Page -> 0..ResvPid]
          /\ npages \in [Page -> 0..(ShortMod - 1)]
          /\ user \subseteq Page
          /\ lastPid \in 0..ResvPid
          /\ contents \in [Page -> Owners \cup {Empty}]
          /\ halted \in BOOLEAN
          /\ ptr \in [Owners -> Page]
          /\ asked \in [Owners -> Requests \cup {None}]
          /\ role \in [Owners -> {"buffer", "segment", "stack"}]

\* The pages o may write to.
Span(o) == IF ptr[o] = NULL THEN {} ELSE ptr[o]..(ptr[o] + asked[o] - 1)

\* "RESV PID means unallocated" (paging.c:168): a page is marked with PID_RESV
\* exactly when it is outside the kernel's space and nobody holds it.
ShadowExact ==
    \A v \in Page : pid[v] = ResvPid <=> (v >= KernelPages /\ \A o \in Owners : v \notin Span(o))

\* The pages of a caller are its own and outside the kernel's space.
Exclusive == \A o \in Owners : /\ Span(o) \cap 0..(KernelPages - 1) = {}
                               /\ \A q \in Owners : o # q => Span(o) \cap Span(q) = {}

\* The page below a program's stack.
BelowStack(v) == \E o \in Owners : role[o] = "stack" /\ ptr[o] = v + 1

\* What vfree gives back is closed to user mode, and its frame is empty, unless
\* a page in use has the same frame or a program's stack reached down to it.
NothingLeftBehind ==
    \A v \in Page : pid[v] = ResvPid =>
       /\ v \notin user
       /\ \A w \in Page : FrameOf(w) = FrameOf(v) /\ contents[w] # Empty =>
             pid[w] # ResvPid \/ BelowStack(w)

\* A caller of valloc finds in its pages what it put there, whatever the others
\* are given and free, except at the two ends of a page table, where
\* two pages have one frame, and below the stack of a program.
ContentsKept ==
    \A o \in Owners : role[o] # "stack" =>
       \A v \in Span(o) : contents[v] = o \/ Shared(v) \/ BelowStack(v)

\* The pages behind the kernel's space are a heap to their callers.
Abstract == INSTANCE Heap WITH TableLen <- NumPages - KernelPages,
                               Base <- KernelPages,
                               own <- [o \in Owners |-> Span(o)]

\* valloc gives out free pages outside the kernel's space, as many as were
\* asked for, and vfree takes back exactly those.
HeapSpec == Abstract!Spec

\* Fewer programs than process ids, no stack with the pid that means unallocated,
\* and no run longer than a uint16_t counts.
SoundUse == /\ PidBound < ResvPid - 1
            /\ ResvPid \notin StackPids
            /\ \A n \in Requests : n <= NumPages => n < ShortMod
=============================================================================
