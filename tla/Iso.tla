--------------------------------- MODULE Iso ---------------------------------
(***************************************************************************)
(* The ISO9660 driver, core/drv/FS/iso9660.c: from a path to the first     *)
(* sector of a file, through the path table and one directory, and the     *)
(* buffers this takes from the kernel heap or, when that is full, from the *)
(* page allocator.                                                         *)
(*                                                                         *)
(* Names are sequences of characters, since the driver compares prefixes.  *)
(* A sector of the path table holds PerSector entries, and the first       *)
(* sector of a directory the records of PerListing names.  The entries of  *)
(* a real path table may lie across the end of a sector, which the driver  *)
(* does not allow for: those of a volume that is not "whole" do.           *)
(* A read of a sector is taken to end well (Atapi says when it does); the  *)
(* packet read of diskio.c takes and gives back for it is left out.        *)
(***************************************************************************)
EXTENDS Naturals, Sequences, SequencesExt, FiniteSetsExt

CONSTANTS
    Cds,        \* the CD drives
    Volumes,    \* what may be in them: [table, files, whole]
    Paths,      \* what is read: [dirs, file], the outermost directory first
    PerSector,  \* entries in a sector of the path table
    PerListing, \* names in the first sector of a directory
    Stale,      \* words that may be left in the heap behind the end of a string
    Heap,       \* buffers the kernel heap has room for
    Pages       \* and the page allocator

Name == Seq(STRING)

\* A path table is a sequence of [name, parent] with the root directory first;
\* files[i] is the sequence of the names in directory i.
ASSUME IsoAssumption ==
    /\ Cds \subseteq 0..3
    /\ \A v \in Volumes : /\ v.table \in Seq([name : Name, parent : Nat]) \ {<<>>}
                          /\ v.files \in Seq(Seq(Name)) /\ Len(v.files) = Len(v.table)
                          /\ \A i \in 2..Len(v.table) : v.table[i].parent \in 1..i - 1
                          /\ v.whole \in BOOLEAN
    /\ Paths \subseteq [dirs : Seq(Name), file : Name]
    /\ PerSector \in Nat \ {0} /\ PerListing \in Nat
    /\ Stale \subseteq Seq(Name) /\ <<>> \in Stale
    /\ Heap \in Nat /\ Pages \in Nat

VARIABLES
    pc,     \* what the driver does next
    vol,    \* vol[d]: the volume in drive d
    known,  \* atapi_devices
    info,   \* the drive cd_info_ptr was filled from, or NoDrive
    drive, path,
    stale,  \* stale.tail follows the reversed path, stale.behind its copy
    sect, loc,  \* lba and loc of iso_search_in_path_table, which are static
    dir,    \* the directory found (its place in the path table)
    place,  \* the file found in it, 0 before that
    mem     \* the buffers

vars == <<pc, vol, known, info, drive, path, stale, sect, loc, dir, place, mem>>
request == <<drive, path, stale>>
search == <<sect, loc, dir, place>>

NoDrive == 4
NoPath == [dirs |-> <<>>, file |-> <<>>]
Zeroes == [tail |-> <<>>, behind |-> <<>>]
\* From the heap only: create_backup_str, reverse_path and the list of the drives
\* that convert_drive_id asks for and nobody gives back.
Strings == {"path", "reversed", "copy", "parents", "words", "new", "list"}
Buffers == Strings \cup {"info", "name", "first", "sector", "entry", "parent", "listing", "contents"}
-----------------------------------------------------------------------------
(* Buffers.  mem.at[x] is where the buffer of variable x comes from; "freed"  *)
(* when it has been given back, "stale" when something was allocated since.   *)
(* mem.heap and mem.pages are how many there still are, mem.ok is that nothing *)
(* was asked for in vain, after which nothing happens any more, mem.clash that *)
(* a buffer of another was given back.                                         *)

\* iso_allocate_bfr and create_backup_str for one buffer after the other.
FromHeap(m, xs) == {xs[i] : i \in DOMAIN xs \cap 1..m.heap}
Lacks(m, xs) == \/ ~m.ok \/ Len(xs) > m.heap + m.pages
                \/ \E i \in DOMAIN xs : i > m.heap /\ xs[i] \in Strings
Takes(m, xs) ==
    IF Lacks(m, xs)
    THEN [m EXCEPT !.ok = FALSE]
    ELSE [m EXCEPT !.heap = @ - Min({@, Len(xs)}),
                   !.pages = @ - Max({0, Len(xs) - m.heap}),
                   !.at = [x \in Buffers |-> IF x \in FromHeap(m, xs) THEN "heap"
                                             ELSE IF x \in Range(xs) THEN "page"
                                             ELSE IF @[x] = "freed" THEN "stale" ELSE @[x]]]
Take(m, x) == Takes(m, <<x>>)

\* iso_free_bfr.  A block that is free already is not found.
FromBoth(m, xs, where) == Cardinality({x \in Range(xs) : m.at[x] \in {"heap", "page"}})
From(m, xs, where) == Cardinality({x \in Range(xs) : m.at[x] = where})
Gives(m, xs) ==
    IF ~m.ok THEN m
    ELSE [m EXCEPT !.heap = @ + From(m, xs, "heap"),
                   !.pages = @ + From(m, xs, "page"),
                   !.at = [x \in Buffers |-> IF x \in Range(xs) THEN "freed" ELSE @[x]],
                   !.clash = @ \/ From(m, xs, "stale") > 0]
Give(m, x) == Gives(m, <<x>>)

Init == /\ pc = "idle"
        /\ vol \in [Cds -> Volumes]
        /\ known = {} /\ info = NoDrive
        /\ drive = NoDrive /\ path = NoPath /\ stale = Zeroes
        /\ sect = 0 /\ loc = 1 /\ dir = 1 /\ place = 0
        /\ mem = [heap |-> Heap, pages |-> Pages, at |-> [x \in Buffers |-> "none"],
                  ok |-> TRUE, clash |-> FALSE]

\* Buffers that are all taken, and then all given back.
Uses(m, xs) ==
    IF Lacks(m, xs)
    THEN [m EXCEPT !.ok = FALSE]
    ELSE [m EXCEPT !.at = [x \in Buffers |-> IF x \in Range(xs) THEN "freed"
                                             ELSE IF @[x] = "freed" THEN "stale" ELSE @[x]]]
Use(m, x) == Uses(m, <<x>>)

\* reverse_path: a copy to take the words from and the string they are put together
\* in.  It writes one slash before that string, on a byte of whatever lies there.
Reversing(m) == Uses(m, <<"words", "new">>)

\* The step to a label, or the end when there is no memory: valloc halts, and
\* nobody looks at the NULL of kmalloc.
Go(label, m) == mem' = m /\ pc' = IF m.ok THEN label ELSE "exhausted"
-----------------------------------------------------------------------------
\* iso_init.  A drive with a lower number than a known one is taken for known;
\* there is one cd_info for all, and a buffer for the descriptors.
Mount(d) == /\ pc = "idle"
            /\ \A e \in known : e < d
            /\ known' = known \cup {d} /\ info' = d
            /\ LET m == IF info = NoDrive THEN Take(mem, "info") ELSE mem
               IN Go("idle", Use(m, "sector"))
            /\ UNCHANGED <<vol, request, search>>

\* What iso_clean_path_reverse makes of the path, word by word: the innermost
\* directory first, or the name of the file when there is no directory.  The
\* string that is reversed has no end: what lay behind it comes along.
Tailed(ws, t) == IF t = <<>> THEN ws ELSE Front(ws) \o <<Last(ws) \o Head(t)>> \o Tail(t)
Reversed == IF path.dirs = <<>> THEN <<path.file>> ELSE Tailed(Reverse(path.dirs), stale.tail)
HasDot == \E i \in DOMAIN Reversed : "." \in Range(Reversed[i])

\* iso_path_to_dir_lba: the directory and its parents.  Those of a path of one word
\* are read from behind its end.
Words == IF Len(Reversed) = 1 THEN Reversed \o stale.behind ELSE Reversed

\* The start of iso_read and iso_traverse, to the test for a directory.
Read(d, p) ==
    /\ pc = "idle" /\ info # NoDrive
    /\ drive' = d /\ path' = p
    /\ stale' \in [tail : IF p.dirs = <<>> THEN {<<>>} ELSE Stale,
                  behind : IF Len(p.dirs) > 1 THEN {<<>>} ELSE Stale]
    /\ LET m == Takes(Reversing(Takes(mem, <<"list", "path", "reversed">>)), <<"name", "list">>)
       IN Go("cleaned", IF p.dirs = <<>> THEN m ELSE Reversing(m))
    /\ UNCHANGED <<vol, known, info, search>>

\* Tables are looked for where those of the drive read last were: on another
\* drive anything may be found there.
WrongDrive == /\ pc = "cleaned" /\ drive # info
              /\ pc' = "astray"
              /\ UNCHANGED <<vol, known, info, request, search, mem>>

InRoot == /\ pc = "cleaned" /\ drive = info /\ HasDot
          /\ dir' = 1 /\ pc' = "dir"
          /\ UNCHANGED <<vol, known, info, request, sect, loc, place, mem>>

\* iso_path_to_dir_lba up to the first search (RESET).
InDirectory == /\ pc = "cleaned" /\ drive = info /\ ~HasDot
               /\ sect' = 0 /\ loc' = 1
               /\ Go("scan", Takes(mem, <<"copy", "first">>))
               /\ UNCHANGED <<vol, known, info, request, dir, place>>

Table == vol[drive].table
\* iso_read_path_table_buffer: a prefix on either side.
Alike(n, m) == IsPrefix(n, m) \/ IsPrefix(m, n)
SectorOf(i) == (i - 1) \div PerSector
Hits == {i \in 2..Len(Table) : SectorOf(i) = sect /\ i >= loc /\ Alike(Table[i].name, Words[1])}

\* A turn of iso_search_in_path_table without success.
LbaKept(s) == s
LbaAfter(s) == s + 1
NextSector == /\ pc = "scan" /\ sect <= SectorOf(Len(Table)) /\ Hits = {}
              /\ sect' = LbaAfter(sect) /\ loc' = 1
              /\ Go("scan", Use(mem, "sector"))
              /\ UNCHANGED <<vol, known, info, request, dir, place>>

\* The last turn.  The sector is not given back.  The byte that pads an entry of
\* odd length is not skipped, and a search that goes on behind one is out of step.
Resume(i) == IF Len(Table[i].name) % 2 = 0 THEN {i + 1} ELSE i + 1..Len(Table) + 1

FoundFreed(m) == Give(Takes(m, <<"sector", "entry", "parents">>), "entry")
Found(m) == Takes(m, <<"sector", "entry", "parents">>)
Hit == /\ pc = "scan" /\ Hits # {}
       /\ LET i == Min(Hits) IN dir' = i /\ loc' \in Resume(i)
       /\ Go("parents", Found(mem))
       /\ UNCHANGED <<vol, known, info, request, sect, place>>

\* What is out of step may also fit by chance: an entry of no length is compared by
\* one character.
Spurious == /\ pc = "scan" /\ loc > 1 /\ Len(Table[dir].name) % 2 = 1
            /\ pc' = "astray"
            /\ UNCHANGED <<vol, known, info, request, search, mem>>

\* iso_path_to_dir_lba returns MAX, and the search goes on in that sector.
NoHit == /\ pc = "scan" /\ sect > SectorOf(Len(Table))
         /\ pc' = "astray"
         /\ UNCHANGED <<vol, known, info, request, search, mem>>

\* check_parents.  Up[k] is the k-th directory above dir; iso_find_index does not
\* find the root, nor what is not in the first sector.  A single parent is not
\* looked at.
Up[k \in 0..Len(Words)] == IF k = 0 THEN dir ELSE IF Up[k - 1] <= 1 THEN 1 ELSE Table[Up[k - 1]].parent
Parents == Len(Words) - 1
ParentsSeen == IF Parents >= 2 THEN Parents ELSE 0

\* The name in the table is a copy without an end, and a parent that goes on behind
\* it may fit or not.
MayFit(k) == Up[k] # 1 /\ Alike(Table[Up[k]].name, Words[k + 1])
MayDiffer(k) == Up[k] = 1 \/ ~IsPrefix(Words[k + 1], Table[Up[k]].name)
AgreeFirst(n) == IF n = 0 THEN ParentsSeen > 0 => MayDiffer(1)
                 ELSE n = ParentsSeen /\ MayFit(1)
AgreeUpTo(n) == /\ \A k \in 1..n : MayFit(k)
                /\ n < ParentsSeen => MayDiffer(n + 1)

\* Each parent that was read leaves its sector behind, the last one its entry
\* too when it does not fit.
SectorsRead(n) == [i \in 1..n |-> "sector"]

\* An entry that is not in the first sector: the count of a later one stops where its
\* own number is that of the entry, and the same sector is read again and again, each
\* time into a new buffer; or it never does, and NULL is read as an entry.
CheckEndless == /\ pc = "parents"
                /\ \E n \in 1..ParentsSeen : /\ \A k \in 1..n - 1 : MayFit(k)
                                             /\ SectorOf(Up[n]) > 0
                                             /\ \E label \in {"endless", "astray"} :
                                                   Go(label, Takes(mem, SectorsRead(n)))
                /\ UNCHANGED <<vol, known, info, request, search>>

ReadAgain == /\ pc = "endless"
             /\ Go("endless", Take(mem, "sector"))
             /\ UNCHANGED <<vol, known, info, request, search>>

InFirstSector(n) == \A k \in 1..n : SectorOf(Up[k]) = 0

ParentsFit == /\ pc = "parents" /\ AgreeUpTo(ParentsSeen) /\ InFirstSector(ParentsSeen)
              /\ LET m == IF ParentsSeen = 0 THEN mem
                          ELSE Gives(Takes(mem, Append(SectorsRead(ParentsSeen), "parent")),
                                     <<"parent", "parents">>)
                 IN Go("dir", Gives(m, <<"copy", "first", "parents", "entry">>))
              /\ UNCHANGED <<vol, known, info, request, search>>

\* The copy of the parents is made anew.
ParentsDiffer == /\ pc = "parents"
                 /\ \E n \in 0..ParentsSeen - 1 :
                       /\ AgreeUpTo(n) /\ InFirstSector(n + 1)
                       /\ Go("scan", Gives(Takes(mem, Append(SectorsRead(n + 1), "parent")),
                                           <<"entry", "parents">>))
                 /\ UNCHANGED <<vol, known, info, request, search>>

\* An entry across the end of a sector is seen in two halves.
Torn == /\ \/ pc = "scan" /\ (sect > 0 \/ Hits \subseteq {PerSector})
           \/ pc = "parents" /\ \E k \in 1..ParentsSeen : Up[k] >= PerSector
        /\ ~vol[drive].whole /\ SectorOf(Len(Table)) > 0
        /\ pc' = "astray"
        /\ UNCHANGED <<vol, known, info, request, search, mem>>

\* iso_search_dir with its two buffers, the second for the whole directory and one
\* sector more.  Records do not lie across the end of a sector, and the first byte of
\* the zeroes behind the last one of a sector fails an assertion: a name beyond is
\* found only when the records fill the sector to its last byte, and with those of
\* the last sector the search leaves the directory.
Named == {j \in DOMAIN vol[drive].files[dir] : IsPrefix(path.file, vol[drive].files[dir][j])}
FirstSector == 1..PerListing
Reached == IF Named \cap FirstSector # {} THEN Named \cap FirstSector ELSE Named

SearchDir ==
    /\ pc = "dir" /\ Reached # {}
    /\ place' = Min(Reached)
    /\ Go("found", Gives(Use(Use(mem, "sector"), "listing"), <<"path", "name">>))
    /\ UNCHANGED <<vol, known, info, request, sect, loc, dir>>

NotReached ==
    /\ pc = "dir" /\ Named \cap FirstSector = {}
    /\ \E label \in IF Named = {} THEN {"halted", "astray"} ELSE {"halted"} :
          Go(label, Take(Use(mem, "sector"), "listing"))
    /\ UNCHANGED <<vol, known, info, request, search>>

\* The end of iso_read, where the drive is asked for once more.  The caller keeps
\* the contents.
Return == /\ pc = "found"
          /\ drive' = NoDrive /\ path' = NoPath /\ stale' = Zeroes /\ dir' = 1 /\ place' = 0
          /\ Go("idle", Takes(mem, <<"list", "contents">>))
          /\ UNCHANGED <<vol, known, info, sect, loc>>

Driver == \/ WrongDrive \/ InRoot \/ InDirectory
          \/ NextSector \/ Hit \/ Spurious \/ Torn \/ NoHit
          \/ CheckEndless \/ ReadAgain \/ ParentsFit \/ ParentsDiffer
          \/ SearchDir \/ NotReached \/ Return

Next == \/ \E d \in Cds : Mount(d) \/ \E p \in Paths : Read(d, p)
        \/ Driver

Spec == Init /\ [][Next]_vars
FairSpec == Spec /\ WF_vars(Driver)
-----------------------------------------------------------------------------
Labels == {"idle", "cleaned", "scan", "parents", "dir", "found"}
Stops == {"halted", "astray", "endless", "exhausted"}

\* The type invariant.
TypeOK ==
    /\ pc \in Labels \cup Stops
    /\ vol \in [Cds -> Volumes]
    /\ known \subseteq Cds /\ info \in Cds \cup {NoDrive}
    /\ drive \in Cds \cup {NoDrive} /\ path \in Paths \cup {NoPath}
    /\ stale \in [tail : Stale, behind : Stale]
    /\ sect \in Nat /\ loc \in Nat \ {0} /\ dir \in Nat \ {0} /\ place \in Nat
    /\ pc \notin {"idle", "exhausted"} => dir \in DOMAIN Table
    /\ mem \in [heap : 0..Heap, pages : 0..Pages, ok : BOOLEAN, clash : BOOLEAN,
                at : [Buffers -> {"none", "heap", "page", "freed", "stale"}]]

\* The path of a directory, and where the file of a path is, by the whole names.
PathOf[i \in DOMAIN Table] == IF i = 1 THEN <<>> ELSE Append(PathOf[Table[i].parent], Table[i].name)
Target == {i \in DOMAIN Table : PathOf[i] = path.dirs}

\* What the driver asks of a volume and a path without saying so: that no name of a
\* directory begins with that of another, and none holds two of one name; that the
\* directory is the only one of its name, or lies deeper than two with an even name,
\* with its parents in the first sector of the table, and no other one ends in the
\* same names; that no entry of the table lies across the end of a sector; that
\* directories have no dots, files in the root have one; that the file is in the first
\* sector of its directory, and no other one there has a name that begins with the one
\* that is read; and, of the heap, that no dot and no slash are left behind the strings.
NamesClear == \A i, j \in 2..Len(Table) :
                 /\ Alike(Table[i].name, Table[j].name) => Table[i].name = Table[j].name
                 /\ Table[i] = Table[j] => i = j
OtherNames == {i \in 2..Len(Table) \ Target : path.dirs # <<>> /\ Table[i].name = Last(path.dirs)}
DirectoryClear == \/ OtherNames = {}
                  \/ /\ Len(path.dirs) > 2 /\ Len(Last(path.dirs)) % 2 = 0
                     /\ \A i \in OtherNames : ~IsSuffix(path.dirs, PathOf[i])
ParentsNear == Len(path.dirs) > 2 =>
                  \A i \in 2..Len(Table) : Table[i].name = Last(path.dirs) => SectorOf(Table[i].parent) = 0
DotsClear == IF path.dirs = <<>> THEN "." \in Range(path.file)
             ELSE \A k \in DOMAIN path.dirs : "." \notin Range(path.dirs[k])
FilesClear == \A i \in Target : \A j \in DOMAIN vol[drive].files[i] :
                 IsPrefix(path.file, vol[drive].files[i][j]) =>
                    path.file = vol[drive].files[i][j] /\ j \in FirstSector
TableClear == vol[drive].whole \/ SectorOf(Len(Table)) = 0
HeapClear == /\ Len(stale.behind) <= 1 \/ Len(path.dirs) > 1
             /\ \/ stale.tail = <<>>
                \/ /\ Len(path.dirs) <= 2 /\ Len(stale.tail) = 1
                   /\ "." \notin Range(stale.tail[1])
Clear == NamesClear /\ TableClear /\ DirectoryClear /\ ParentsNear /\ DotsClear /\ FilesClear /\ HeapClear
There == \E i \in Target : \E j \in DOMAIN vol[drive].files[i] : vol[drive].files[i][j] = path.file

\* A file that is there is found, and no other one in its place (iso_traverse),
\* when volume, path and heap are as the driver needs them: prefixes, directories in
\* several sectors of the path table or of the same name and the position kept
\* between two searches do not lead it astray, and it neither stops nor loops.
RightFile ==
    pc \in {"found", "halted", "astray", "endless"} /\ drive = info /\ There /\ Clear =>
        pc = "found" /\ dir \in Target /\ vol[drive].files[dir][place] = path.file

\* The buffers the driver will still read at a label.
InUse == CASE pc = "parents" -> {"path", "name", "copy", "first", "entry", "parents"}
           [] pc = "scan" -> {"path", "name", "copy", "first"}
           [] pc \in {"cleaned", "dir"} -> {"path", "name"}
           [] OTHER -> {}

\* A buffer that is still to be read has not been given back, nor has one that went
\* to another variable since: that check_parents and its caller both give back the
\* parents does no harm, wherever the buffers come from.
Live == ~mem.clash /\ \A x \in InUse : mem.at[x] \in {"heap", "page"}

\* A read comes to an end, if only by stopping the machine: the search goes on behind
\* the directory whose parents differ, and the loop of iso_find_index, which nothing
\* else would end, comes to the assertion of valloc.
Ends == pc # "idle" ~> pc \in {"idle", "halted", "astray", "exhausted"}
=============================================================================
