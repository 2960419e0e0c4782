--------------------------------- MODULE Fat ---------------------------------
(***************************************************************************)
(* The FAT32 driver, core/drv/FS/fat.c: mounting, saving, reading and      *)
(* renaming files on one volume, one step per sector it writes, with the   *)
(* power going off between any two of them.                                *)
(*                                                                         *)
(* The driver reads and writes the FAT by sectors into a table of 32-bit   *)
(* words, which it indexes by the BYTE offset of an entry: the entry of    *)
(* cluster c is looked for where that of cluster 4*c is.  Above cluster 31 *)
(* of a sector the index is outside the table: what is read is whatever    *)
(* the heap holds there, what is written may damage the heap.              *)
(* A cluster is one sector; the files and directories on a volume have one *)
(* cluster each to begin with.                                             *)
(*                                                                         *)
(* A write leaves the disk in the middle of a command (Disk, EndWrite).    *)
(* Some disks start the next command all the same; a strict one ignores    *)
(* it, and the driver, which is told nothing, goes on with what its buffer *)
(* held before.  Where the driver works on such memory it is "astray", and *)
(* nothing is said of what it does from there.                             *)
(***************************************************************************)
EXTENDS Naturals, Sequences, FiniteSetsExt

CONSTANTS
    Last,    \* the last cluster whose word lies inside the table
    Sub,     \* the cluster of a subdirectory of the root directory
    Names,   \* of files, as they are on the disk: eleven bytes
    Dotted,  \* those made of a name with a dot, whose end is whatever the stack held
    Values,  \* what files contain
    Lengths, \* of files, in clusters
    Volumes, \* [used, strict]: the clusters in use at first, whether the disk is strict
    Buffers, \* what the byte SectClust of info_buffer may happen to be
    DirSize  \* entries in a cluster

Root == 2
Clusters == Root..Last
\* All clusters whose index is outside the table: what they hold is never read.
Beyond == Last + 1
Blocks == Root..Beyond
Dirs == {Root, Sub}
Free == 0
End == 268435455        \* 0x0FFFFFFF

ASSUME FatAssumption ==
    /\ Last \in 3..1000 /\ Sub \in Clusters \ {Root}
    /\ Lengths \subseteq Nat
    /\ \A m \in Volumes : m.used \subseteq Nat /\ Dirs \subseteq m.used /\ m.strict \in BOOLEAN
    /\ Buffers \subseteq 0..255
    /\ DirSize \in Nat \ {0}
    /\ "sub" \notin Names /\ Dotted \subseteq Names

VARIABLES
    pc,      \* "off", or what the driver does next
    deaf,    \* whether the disk ignores the next command
    job,     \* the save that is going on
    buffer,  \* info_buffer->SectClust, never filled from the disk
    fat,     \* the words of the FAT sector
    data,    \* data[c]: what cluster c holds
    volume,  \* one of Volumes
    files    \* the files whose save has returned, for the properties

vars == <<pc, deaf, job, buffer, fat, data, volume, files>>

used == volume.used

\* A cluster holds file contents or directory entries.
File(v) == [entries |-> <<>>, value |-> v]
Directory(es) == [entries |-> es, value |-> "directory"]
Entry(n, c) == [name |-> n, cluster |-> c]

NoJob == [dir |-> Root, name |-> "none", value |-> "none", length |-> 0, cluster |-> Root,
          marks |-> <<>>, extends |-> FALSE]

Init == /\ pc = "off" /\ deaf = FALSE /\ job = NoJob /\ buffer \in Buffers
        /\ volume \in Volumes
        /\ fat = [i \in 0..4 * Last |-> IF i \in used THEN End ELSE Free]
        /\ data = [c \in Clusters |->
                      CASE c = Root -> Directory(<<Entry("sub", Sub)>>)
                        [] c = Sub -> Directory(<<>>)
                        [] OTHER -> File(IF c \in used THEN "foreign" ELSE "none")]
        /\ files = {}
-----------------------------------------------------------------------------
IndexFromRoot(c) == 4 * (c - Root)
Index(c) == 4 * c

\* FAT32_readFat, which also lists its first cluster twice.
Chain[k \in 0..Last] ==
    [c \in Clusters |-> IF k = 0 \/ fat[Index(c)] \notin Clusters THEN <<c>>
                        ELSE <<c>> \o Chain[k - 1][fat[Index(c)]]]
DirChain(d) == Chain[Last][d]

\* FAT_file_exists: a name is looked for in the whole directory.
Listed(c, n) == \E i \in DOMAIN data[c].entries : data[c].entries[i].name = n
Exists(d, n) == \E k \in DOMAIN DirChain(d) : Listed(DirChain(d)[k], n)

\* seek_empty_clusters(1).  When no word of the table is free the search goes
\* on behind the table.
NoSpace == \A c \in Clusters : fat[Index(c)] # Free
FirstFree == IF NoSpace THEN Beyond ELSE Min({c \in Clusters : fat[Index(c)] = Free})

\* The words update_fat writes for a list of clusters.
MarksUnended(s) == [i \in DOMAIN s |-> [of |-> s[i], as |-> IF i = Len(s) THEN Free ELSE s[i + 1]]]
Marks(s) == [i \in DOMAIN s |-> [of |-> s[i], as |-> IF i = Len(s) THEN End ELSE s[i + 1]]]

\* save: of a buffer of n sectors as many go to the disk as info_buffer says a
\* cluster has.  The last ones are those behind the cluster.
Written(n) == IF n < buffer THEN n ELSE buffer
Save(c, content, n, behind) ==
    data' = [x \in Clusters |-> IF x = c /\ Written(n) >= 1 THEN content
                              ELSE IF x = c + 1 /\ Written(n) >= 2 THEN behind
                              ELSE data[x]]
-----------------------------------------------------------------------------
\* DRV_COMMAND_INIT.  A second one for the same partition changes nothing.
Mount == /\ pc = "off"
         /\ pc' = "idle"
         /\ buffer' \in Buffers
         /\ UNCHANGED <<deaf, job, fat, data, volume, files>>

PowerOff == /\ pc \notin {"off", "astray"}
            /\ pc' = "off" /\ deaf' = FALSE /\ job' = NoJob
            /\ UNCHANGED <<buffer, fat, data, volume, files>>

\* The disk ignores a command: what was to be read is what the heap held, and the
\* next sector to be written goes where the last one went, or behind it.
Misled == /\ deaf /\ pc \notin {"off", "astray"}
          /\ pc' = "astray"
          /\ UNCHANGED <<deaf, job, buffer, fat, data, volume, files>>

\* The directory a path ends in.  The name FAT_convertPath looks for is built
\* on the stack and not terminated, so that it may not be found where it is; the
\* file then goes to the directory above.
Found(d) == {d, Root}
Readable(d) == data[Root].value = "directory" /\ Listed(Root, "sub") /\ data[d].value = "directory"

\* A name that exists is refused, unless it comes without an end, when it is too
\* long for FAT_file_exists.
Accepted(d, n) == Exists(d, n) => n \in Dotted

\* FS_COMMAND_WRITE up to the first write: the cluster is chosen, the name looked
\* for, and a full directory is about to be extended by dir_prepare_new.  That
\* seeks an empty cluster too, and finds the same one.  Which bytes the conversion
\* makes of a name, some of which may be left over from before, is not modelled: n
\* is what it has made.
FullTooLate(d) == Len(data[d].entries) > DirSize
Full(d) == Len(data[d].entries) = DirSize

LinkBackwards(d, c) == Marks(<<c, DirChain(d)[Len(DirChain(d))]>>)
Link(d, c) == Marks(<<DirChain(d)[Len(DirChain(d))], c>>)

Choose(w, n, v, k) ==
    /\ Accepted(w, n)
    /\ pc' = IF Full(w) THEN "link" ELSE "entry"
    /\ job' = [dir |-> w, name |-> n, value |-> v, length |-> k, cluster |-> FirstFree,
               extends |-> Full(w), marks |-> IF Full(w) THEN Link(w, FirstFree) ELSE <<>>]

Begin(d, n, v, k) ==
    /\ pc = "idle" /\ ~deaf /\ d # Root
    /\ IF Readable(d) THEN \E w \in Found(d) : Choose(w, n, v, k)
       ELSE pc' = "astray" /\ UNCHANGED job
    /\ UNCHANGED <<deaf, buffer, fat, data, volume, files>>

\* A file of the root directory: FAT_convertPath copies strlen(NULL) - 1 bytes.
Dies == /\ pc = "idle"
        /\ pc' = "dead"
        /\ UNCHANGED <<deaf, job, buffer, fat, data, volume, files>>

\* One turn of update_fat, which reads the sector, changes a word, writes it.  A
\* word outside the table belongs to a block of the heap, which may be in use.
UpdateFat(from, to) ==
    LET m == Head(job.marks) IN
    /\ pc = from /\ ~deaf
    /\ fat' = IF m.of \in Clusters THEN [fat EXCEPT ![Index(m.of)] = m.as] ELSE fat
    /\ job' = [job EXCEPT !.marks = Tail(@)]
    /\ \/ pc' = IF Len(job.marks) = 1 THEN to ELSE from
       \/ m.of \notin Clusters /\ pc' = "astray"
    /\ deaf' = volume.strict
    /\ UNCHANGED <<buffer, data, volume, files>>

\* The end of update_dir.  The buffer of a directory that was extended has been
\* given back: of what it held the new cluster gets what nobody has taken the
\* memory for, with the new entry as the first.  Only for a file of one cluster
\* the rest can be followed: an empty one makes n_clusters - 1 wrap, and of a long
\* one the clusters are copied behind the array.
WriteEntry ==
    LET d == job.dir
        e == Entry(job.name, job.cluster)
        old == data[d].entries
    IN /\ pc = "entry" /\ ~deaf
       /\ IF job.extends
          THEN \E es \in {[old EXCEPT ![1] = e], <<e>>} :
                  Save(job.cluster, Directory(es), 2, data[d])
          ELSE Save(d, Directory(Append(old, e)), 2, data[d])
       /\ job' = [job EXCEPT !.marks = Marks(<<job.cluster>>)]
       /\ pc' = IF job.length = 1 THEN "mark" ELSE "astray"
       /\ deaf' = volume.strict
       /\ UNCHANGED <<buffer, fat, volume, files>>

\* save with the contents of the file, and the return.  A file is promised to stay
\* unless it has had its directory extended, whose new cluster it overwrites itself,
\* has found no free word in the table, or was given a cluster that a save which was
\* cut off had linked to a directory.
Saved == [dir |-> job.dir, name |-> job.name, cluster |-> job.cluster, value |-> job.value]
Promised == /\ ~job.extends /\ job.cluster \in Clusters
            /\ \A x \in Clusters : fat[Index(x)] # job.cluster

WriteData ==
    /\ pc = "data" /\ ~deaf
    /\ Save(job.cluster, File(job.value), 1, File("none"))
    /\ pc' = "idle" /\ job' = NoJob
    /\ files' = IF Promised THEN files \cup {Saved} ELSE files
    /\ deaf' = volume.strict
    /\ UNCHANGED <<buffer, fat, volume>>

\* FS_COMMAND_RENAME of a name that is found in the first cluster of a directory.
RenameFirst(w, old, new) ==
    LET es == data[w].entries
        i == Min({j \in DOMAIN es : es[j].name = old})
    IN /\ Save(w, Directory([es EXCEPT ![i].name = new]), 2, data[w])
       /\ files' = {[f EXCEPT !.name = IF f.dir = w /\ @ = old /\ f.cluster = es[i].cluster
                                       THEN new ELSE @] : f \in files}
       /\ UNCHANGED pc

\* Of a name that is found later: the contents of the first cluster are written to
\* the one it is in or to the next; behind the last the list of clusters is what
\* the heap held.
RenameLater(w) ==
    /\ Len(DirChain(w)) >= 2
    /\ \/ /\ \E k \in 2..Len(DirChain(w)) : Save(DirChain(w)[k], data[w], 2, data[w])
          /\ UNCHANGED pc
       \/ pc' = "astray" /\ UNCHANGED data
    /\ UNCHANGED files

Rename(d, old, new) ==
    /\ pc = "idle" /\ ~deaf /\ d # Root
    /\ IF Readable(d)
       THEN \E w \in Found(d) :
               /\ Accepted(w, new)
               /\ IF Listed(w, old) THEN RenameFirst(w, old, new) ELSE RenameLater(w)
       ELSE pc' = "astray" /\ UNCHANGED <<data, files>>
    /\ deaf' = volume.strict
    /\ UNCHANGED <<job, buffer, fat, volume>>

Next == \/ Mount \/ PowerOff \/ Misled \/ Dies
        \/ \E n \in Names, v \in Values, k \in Lengths : Begin(Sub, n, v, k)
        \/ UpdateFat("link", "entry")
        \/ WriteEntry
        \/ UpdateFat("mark", "data")
        \/ WriteData
        \/ \E old, new \in Names : Rename(Sub, old, new)

Spec == Init /\ [][Next]_vars
-----------------------------------------------------------------------------
\* The clusters that are in use for the driver: those whose word, where it looks
\* for it, says so.
Taken == {c \in Clusters : Index(c) \in used}

\* What the driver needs to work: a block from the heap that happens to hold the
\* right number of sectors, and a volume that is filled far enough for the words it
\* takes for those of the directories not to be free.
SoundUse == Buffers = {1} /\ \A m \in Volumes : \A d \in Dirs : Index(d) \in m.used

\* Where the variables range.
TypeOK ==
    /\ pc \in {"off", "idle", "dead", "astray", "link", "entry", "mark", "data"}
    /\ deaf => volume.strict
    /\ pc \in {"link", "mark"} => Len(job.marks) \in 1..2
    /\ job.dir \in Dirs /\ job.cluster \in Blocks
    /\ DOMAIN fat = 0..4 * Last /\ DOMAIN data = Clusters
    /\ \A c \in Clusters : Len(data[c].entries) <= DirSize

\* FS_COMMAND_WRITE: a file whose save has returned is on the disk - an entry of its
\* directory names its cluster, no earlier one has its name, the word the driver
\* takes for the cluster's is not free, and the cluster has its contents - whatever
\* is saved or renamed later and wherever the power goes off, until the driver goes
\* astray.  (Of two names without an end the second may be that of the first.)
Kept ==
    \A f \in files :
       /\ \E i \in DOMAIN data[f.dir].entries :
             /\ data[f.dir].entries[i] = Entry(f.name, f.cluster)
             /\ f.name \notin Dotted => \A j \in 1..i - 1 : data[f.dir].entries[j].name # f.name
       /\ fat[Index(f.cluster)] # Free
       /\ data[f.cluster] = File(f.value)

\* update_dir comes before update_fat: wherever the power goes off, a cluster
\* that was free for the driver and is marked is named by an entry or linked to its
\* directory.  What an interrupted save may leave is an entry that names a free one.
NoClusterLost ==
    \A c \in Clusters \ Taken : fat[Index(c)] # Free =>
       \/ \E d \in Dirs : \E i \in DOMAIN data[d].entries : data[d].entries[i].cluster = c
       \/ \E x \in Clusters : fat[Index(x)] = c

\* Directories stay directories, and of the files the driver did not write those
\* keep what they hold whose cluster is in use where the driver looks.  (The others
\* it takes for free: see ChosenIsFree.)
OthersIntact ==
    /\ \A d \in Dirs : data[d].value = "directory"
    /\ data[Root].entries[1] = Entry("sub", Sub)
    /\ \A c \in (used \cap Taken) \ Dirs : data[c] = File("foreign")

\* "we store the cluster number if it's free" (fat.c:906).
ChosenIsFree == pc \in {"link", "entry"} => job.cluster \notin used
=============================================================================
