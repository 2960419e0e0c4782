------------------------------ MODULE FatProofs ------------------------------
(***************************************************************************)
(* Proofs about Fat, for volumes, tables and directories of any size and   *)
(* any number of saves and renames with the power going off anywhere:      *)
(* first the chains of clusters, then an invariant that relates the words  *)
(* of the FAT, what the clusters hold, and the save that is going on.      *)
(***************************************************************************)
EXTENDS Fat, SequenceTheorems, FiniteSetTheorems, WellFoundedInduction, TLAPS

LEMMA Smallest ==
    ASSUME NEW S \in SUBSET Nat, S # {}
    PROVE  \E n \in S : \A m \in S : n <= m
<1> DEFINE less == {ss \in Nat \X Nat : ss[1] < ss[2]}
<1>a. IsWellFoundedOn(less, Nat)
  BY NatLessThanWellFounded DEF OpToRel
<1> HIDE DEF less
<1>1. PICK n \in S : \A m \in S : ~ (<<m, n>> \in less)
  BY <1>a, WFMin
<1>2. \A m \in S : ~ (m < n)
  BY <1>1 DEF less
<1> QED
  BY <1>2

LEMMA NatInd ==
    ASSUME NEW S, 0 \in S, \A n \in Nat : n \in S => n + 1 \in S
    PROVE  Nat \subseteq S
<1> SUFFICES ASSUME Nat \ S # {} PROVE FALSE
  OBVIOUS
<1>1. PICK n \in Nat \ S : \A m \in Nat \ S : n <= m
  BY Smallest
<1>2. n - 1 \in Nat /\ n - 1 \in S
  BY <1>1
<1> QED
  BY <1>1, <1>2

LEMMA ChainUnfolds ==
    /\ \A k \in 0..Last, c \in Clusters : Chain[k][c] \in Seq(Clusters)
    /\ \A k \in 0..Last : \A c \in Clusters :
         /\ k = 0 => Chain[k][c] = <<c>>
         /\ fat[Index(c)] \notin Clusters => Chain[k][c] = <<c>>
         /\ k # 0 /\ fat[Index(c)] \in Clusters => Chain[k][c] = <<c>> \o Chain[k - 1][fat[Index(c)]]
<1> DEFINE Body(f, k) == [c \in Clusters |-> IF k = 0 \/ fat[Index(c)] \notin Clusters THEN <<c>>
                            ELSE <<c>> \o f[k - 1][fat[Index(c)]]]
           S == {n \in Nat : \E f : f = [k \in 0..n |-> Body(f, k)]}
<1>0. Last \in Nat
  BY FatAssumption
<1>a. \A f, g : Body(f, 0) = Body(g, 0)
  OBVIOUS
<1>b. \A f, g, k : f[k - 1] = g[k - 1] => Body(f, k) = Body(g, k)
  OBVIOUS
<1>1. 0 \in S
  <2> HIDE DEF Body
  <2> DEFINE g == [k \in 0..0 |-> Body(<<>>, k)]
  <2>1. g = [k \in 0..0 |-> Body(g, k)]
    BY <1>a
  <2> QED BY <2>1
<1>2. ASSUME NEW n \in Nat, n \in S PROVE n + 1 \in S
  <2> HIDE DEF Body
  <2>1. PICK f : f = [k \in 0..n |-> Body(f, k)]
    BY <1>2
  <2> DEFINE g == [k \in 0..n+1 |-> Body(f, k)]
  <2>2. \A k \in 0..n : g[k] = f[k]
    BY <2>1
  <2>3. \A k \in 0..n+1 : Body(g, k) = Body(f, k)
    <3> SUFFICES ASSUME NEW k \in 0..n+1 PROVE Body(g, k) = Body(f, k)
      OBVIOUS
    <3>1. CASE k = 0
      BY <1>a, <3>1
    <3>2. CASE k # 0
      <4>1. k - 1 \in 0..n
        BY <3>2
      <4>2. g[k - 1] = f[k - 1]
        BY <2>2, <4>1
      <4> HIDE DEF g
      <4> QED BY <1>b, <4>2
    <3> QED BY <3>1, <3>2
  <2>4. g = [k \in 0..n+1 |-> Body(g, k)]
    BY <2>3
  <2>5. \E h : h = [k \in 0..n+1 |-> Body(h, k)]
    <3> HIDE DEF g
    <3> QED BY <2>4
  <2> QED BY <2>5
<1>3. \E h : h = [k \in 0..Last |-> Body(h, k)]
  <2>1. Last \in S
    <3> HIDE DEF S
    <3> QED BY <1>0, <1>1, <1>2, NatInd
  <2> HIDE DEF Body
  <2> QED BY <2>1
<1>4. Chain = [k \in 0..Last |-> Body(Chain, k)]
  <2>1. Chain = CHOOSE h : h = [k \in 0..Last |-> Body(h, k)]
    BY DEF Chain
  <2> HIDE DEF Body
  <2> QED BY <1>3, <2>1
<1>5. \A k \in 0..Last : Chain[k] = Body(Chain, k)
  <2> HIDE DEF Body
  <2> QED BY <1>4
<1>6. \A k \in 0..Last : \A c \in Clusters :
         /\ k = 0 => Chain[k][c] = <<c>>
         /\ fat[Index(c)] \notin Clusters => Chain[k][c] = <<c>>
         /\ k # 0 /\ fat[Index(c)] \in Clusters => Chain[k][c] = <<c>> \o Chain[k - 1][fat[Index(c)]]
  <2> SUFFICES ASSUME NEW k \in 0..Last, NEW c \in Clusters
               PROVE  /\ k = 0 => Chain[k][c] = <<c>>
                      /\ fat[Index(c)] \notin Clusters => Chain[k][c] = <<c>>
                      /\ k # 0 /\ fat[Index(c)] \in Clusters
                            => Chain[k][c] = <<c>> \o Chain[k - 1][fat[Index(c)]]
    OBVIOUS
  <2>1. Chain[k] = Body(Chain, k)
    BY <1>5
  <2> QED
    BY <2>1
<1> HIDE DEF Body
<1>7. \A c \in Clusters : <<c>> \in Seq(Clusters)
  OBVIOUS
<1> DEFINE T == {n \in Nat : n \in 0..Last => \A c \in Clusters : Chain[n][c] \in Seq(Clusters)}
<1>8. 0 \in T
  <2>1. 0 \in 0..Last
    BY <1>0
  <2>2. \A c \in Clusters : Chain[0][c] = <<c>>
    BY <1>6, <2>1
  <2> QED BY <1>7, <2>2
<1>9. ASSUME NEW n \in Nat, n \in T PROVE n + 1 \in T
  <2> SUFFICES ASSUME n + 1 \in 0..Last, NEW c \in Clusters PROVE Chain[n + 1][c] \in Seq(Clusters)
    OBVIOUS
  <2>1. n \in 0..Last /\ (n + 1) - 1 = n /\ n + 1 # 0
    BY <1>0
  <2>2. CASE fat[Index(c)] \notin Clusters
    BY <1>6, <1>7, <2>2
  <2>3. CASE fat[Index(c)] \in Clusters
    <3>1. Chain[n + 1][c] = <<c>> \o Chain[n][fat[Index(c)]]
      BY <1>6, <2>1, <2>3
    <3>2. Chain[n][fat[Index(c)]] \in Seq(Clusters)
      BY <1>9, <2>1, <2>3
    <3> QED BY <1>7, <3>1, <3>2
  <2> QED BY <2>2, <2>3
<1>10. Nat \subseteq T
  <2> HIDE DEF T
  <2> QED BY <1>8, <1>9, NatInd
<1>11. \A k \in 0..Last, c \in Clusters : Chain[k][c] \in Seq(Clusters)
  BY <1>0, <1>10
<1> QED
  BY <1>6, <1>11
-----------------------------------------------------------------------------
(* Chains *)

\* The word of a cluster, and the last element of a chain.
Word(c) == fat[Index(c)]
End_(s) == s[Len(s)]
Linked(c) == \E x \in Clusters \ {c} : Word(x) = c

LEMMA NonEmptyConcat ==
    ASSUME NEW S, NEW c \in S, NEW t \in Seq(S), Len(t) >= 1
    PROVE  /\ Len(<<c>> \o t) = 1 + Len(t)
           /\ (<<c>> \o t)[1] = c
           /\ \A i \in 2..Len(<<c>> \o t) : i - 1 \in 1..Len(t) /\ (<<c>> \o t)[i] = t[i - 1]
           /\ End_(<<c>> \o t) = End_(t)
<1>1. <<c>> \in Seq(S) /\ Len(<<c>>) = 1 /\ <<c>>[1] = c
  OBVIOUS
<1>2. Len(t) \in Nat
  OBVIOUS
<1>3. /\ Len(<<c>> \o t) = 1 + Len(t)
      /\ \A i \in 1..1 + Len(t) : (<<c>> \o t)[i] = IF i <= 1 THEN <<c>>[i] ELSE t[i - 1]
  BY <1>1, ConcatProperties
<1>4. (<<c>> \o t)[1] = c
  BY <1>1, <1>2, <1>3
<1>5. \A i \in 2..1 + Len(t) : i - 1 \in 1..Len(t) /\ (<<c>> \o t)[i] = t[i - 1]
  BY <1>2, <1>3
<1>6. (<<c>> \o t)[1 + Len(t)] = t[Len(t)]
  BY <1>2, <1>5
<1> QED
  BY <1>3, <1>4, <1>5, <1>6 DEF End_

\* A chain begins with the cluster it is asked for; the others are linked.
Shaped(s, c) ==
    /\ Len(s) >= 1 /\ s[1] = c
    /\ \A i \in 2..Len(s) : \E x \in Clusters : Word(x) = s[i]
    /\ End_(s) = c \/ Linked(End_(s))

LEMMA ChainShape == \A k \in 0..Last, c \in Clusters : Shaped(Chain[k][c], c)
<1> DEFINE T == {n \in Nat : n \in 0..Last => \A c \in Clusters : Shaped(Chain[n][c], c)}
<1>0. Last \in Nat
  BY FatAssumption
<1>1. \A c \in Clusters : Shaped(<<c>>, c)
  BY DEF Shaped, End_
<1>2. 0 \in T
  <2>1. 0 \in 0..Last
    BY <1>0
  <2> QED BY <1>1, <2>1, ChainUnfolds
<1>3. ASSUME NEW n \in Nat, n \in T PROVE n + 1 \in T
  <2> SUFFICES ASSUME n + 1 \in 0..Last, NEW c \in Clusters PROVE Shaped(Chain[n + 1][c], c)
    OBVIOUS
  <2>1. n \in 0..Last /\ (n + 1) - 1 = n /\ n + 1 # 0
    BY <1>0
  <2>2. CASE fat[Index(c)] \notin Clusters
    BY <1>1, <2>2, ChainUnfolds
  <2>3. CASE fat[Index(c)] \in Clusters
    <3> DEFINE t == Chain[n][Word(c)]
    <3>1. Chain[n + 1][c] = <<c>> \o t
      BY <2>1, <2>3, ChainUnfolds DEF Word
    <3>2. t \in Seq(Clusters) /\ Shaped(t, Word(c)) /\ Word(c) \in Clusters
      BY <1>3, <2>1, <2>3, ChainUnfolds DEF Word
    <3> HIDE DEF t
    <3>3. Len(t) \in Nat /\ Len(t) >= 1 /\ t[1] = Word(c)
      BY <3>2 DEF Shaped
    <3>4. /\ Len(<<c>> \o t) = 1 + Len(t)
          /\ (<<c>> \o t)[1] = c
          /\ \A i \in 2..Len(<<c>> \o t) : i - 1 \in 1..Len(t) /\ (<<c>> \o t)[i] = t[i - 1]
          /\ End_(<<c>> \o t) = End_(t)
      BY <3>2, <3>3, NonEmptyConcat
    <3>5. ASSUME NEW i \in 2..Len(<<c>> \o t) PROVE \E x \in Clusters : Word(x) = (<<c>> \o t)[i]
      <4>1. CASE i = 2
        BY <3>3, <3>4, <4>1
      <4>2. CASE i # 2
        <5>1. i - 1 \in 2..Len(t)
          BY <3>3, <3>4, <4>2
        <5> QED BY <3>2, <3>4, <5>1 DEF Shaped
      <4> QED BY <4>1, <4>2
    <3>6. End_(t) = c \/ Linked(End_(t))
      BY <3>2 DEF Shaped, Linked
    <3> QED BY <3>1, <3>3, <3>4, <3>5, <3>6 DEF Shaped
  <2> QED BY <2>2, <2>3
<1>4. Nat \subseteq T
  <2> HIDE DEF T
  <2> QED BY <1>2, <1>3, NatInd
<1> QED
  BY <1>0, <1>4

\* The clusters are ordered so that links go upwards.
Ascends(rank) ==
    /\ rank \in [Clusters -> Nat]
    /\ \A c \in Clusters : Word(c) \in Clusters \ {c} => rank[c] < rank[Word(c)]

\* A chain that is cut off before its end has as many clusters as there are turns.
Ends(e) == Word(e) \notin Clusters \ {e}
Above(rank, c) == {x \in Clusters : rank[x] >= rank[c]}
LongFrom(rank, c, n) == \E T : T \subseteq Above(rank, c) /\ IsFiniteSet(T) /\ Cardinality(T) = n

LEMMA ChainEnds ==
    ASSUME NEW rank, Ascends(rank)
    PROVE  \A k \in 0..Last, c \in Clusters :
              Ends(End_(Chain[k][c])) \/ LongFrom(rank, c, k + 1)
<1> DEFINE Claim(n, c) == /\ Ends(End_(Chain[n][c])) \/ LongFrom(rank, c, n + 1)
                          /\ Word(c) = c => End_(Chain[n][c]) = c
           T == {n \in Nat : n \in 0..Last => \A c \in Clusters : Claim(n, c)}
<1>0. Last \in Nat
  BY FatAssumption
<1>1. \A c \in Clusters : End_(<<c>>) = c
  BY DEF End_
<1>2. 0 \in T
  <2> SUFFICES ASSUME NEW c \in Clusters PROVE Claim(0, c)
    BY <1>0
  <2>1. 0 \in 0..Last
    BY <1>0
  <2>2. Chain[0][c] = <<c>>
    BY <2>1, ChainUnfolds
  <2>3. {c} \subseteq Above(rank, c)
    BY DEF Above, Ascends
  <2>a. IsFiniteSet({c}) /\ Cardinality({c}) = 1
    BY FS_Singleton
  <2>4. IsFiniteSet({c}) /\ Cardinality({c}) = 0 + 1
    BY <2>a
  <2>5. LongFrom(rank, c, 0 + 1)
    BY <2>3, <2>4 DEF LongFrom
  <2> QED BY <1>1, <2>2, <2>5
<1>3. ASSUME NEW n \in Nat, n \in T PROVE n + 1 \in T
  <2> SUFFICES ASSUME n + 1 \in 0..Last, NEW c \in Clusters PROVE Claim(n + 1, c)
    OBVIOUS
  <2>1. n \in 0..Last /\ (n + 1) - 1 = n /\ n + 1 # 0
    BY <1>0
  <2>2. CASE Word(c) \notin Clusters
    <3>1. Chain[n + 1][c] = <<c>>
      BY <2>2, ChainUnfolds DEF Word
    <3> QED BY <1>1, <2>2, <3>1 DEF Ends
  <2>3. CASE Word(c) \in Clusters
    <3> DEFINE t == Chain[n][Word(c)]
    <3>a. Chain[n + 1][c] = <<c>> \o t
      BY <2>1, <2>3, ChainUnfolds DEF Word
    <3>b. t \in Seq(Clusters) /\ Shaped(t, Word(c))
      BY <2>1, <2>3, ChainUnfolds, ChainShape DEF Word
    <3>1. Chain[n + 1][c] = <<c>> \o t /\ t \in Seq(Clusters) /\ Len(t) >= 1
      BY <3>a, <3>b DEF Shaped
    <3>2. End_(Chain[n + 1][c]) = End_(t)
      BY <3>1, NonEmptyConcat
    <3>3. Claim(n, Word(c))
      BY <1>3, <2>1, <2>3
    <3>4. CASE Word(c) = c
      BY <2>3, <3>2, <3>3, <3>4 DEF Ends
    <3>5. CASE Word(c) # c /\ ~Ends(End_(t))
      <4>1. PICK U : U \subseteq Above(rank, Word(c)) /\ IsFiniteSet(U) /\ Cardinality(U) = n + 1
        BY <3>3, <3>5 DEF LongFrom
      <4>2. rank[c] < rank[Word(c)] /\ rank[c] \in Nat /\ rank[Word(c)] \in Nat
        BY <2>3, <3>5 DEF Ascends
      <4>3. U \cup {c} \subseteq Above(rank, c) /\ c \notin U
        BY <4>1, <4>2 DEF Above, Ascends
      <4>4. IsFiniteSet(U \cup {c}) /\ Cardinality(U \cup {c}) = (n + 1) + 1
        BY <4>1, <4>3, FS_AddElement
      <4>5. LongFrom(rank, c, (n + 1) + 1)
        BY <4>3, <4>4 DEF LongFrom
      <4> QED BY <3>5, <4>5
    <3> QED BY <3>2, <3>4, <3>5
  <2> QED BY <2>2, <2>3
<1>4. Nat \subseteq T
  <2> HIDE DEF T
  <2> QED BY <1>2, <1>3, NatInd
<1> QED
  BY <1>0, <1>4

\* What is needed of the chain of a directory.
LEMMA DirChainIs ==
    ASSUME NEW rank, Ascends(rank), NEW d \in Clusters
    PROVE  LET s == DirChain(d) IN
           /\ s \in Seq(Clusters) /\ Len(s) \in Nat /\ Len(s) >= 1 /\ s[1] = d
           /\ \A i \in 2..Len(s) : \E x \in Clusters : Word(x) = s[i]
           /\ End_(s) \in Clusters
           /\ End_(s) = d \/ Linked(End_(s))
           /\ Ends(End_(s))
<1>1. Last \in Nat /\ Last \in 0..Last /\ Clusters = 2..Last
  BY FatAssumption DEF Clusters, Root
<1>2. DirChain(d) \in Seq(Clusters) /\ Shaped(DirChain(d), d)
  BY <1>1, ChainUnfolds, ChainShape DEF DirChain
<1>3. ~LongFrom(rank, d, Last + 1)
  <2> SUFFICES ASSUME NEW T, T \subseteq Above(rank, d), Cardinality(T) = Last + 1 PROVE FALSE
    BY DEF LongFrom
  <2>1. T \subseteq 2..Last
    BY <1>1 DEF Above
  <2>2. IsFiniteSet(2..Last) /\ Cardinality(2..Last) <= Last
    BY <1>1, FS_Interval
  <2>3. Cardinality(T) <= Cardinality(2..Last) /\ Cardinality(2..Last) \in Nat
    BY <2>1, <2>2, FS_Subset, FS_CardinalityType
  <2> QED BY <1>1, <2>2, <2>3
<1>4. Ends(End_(DirChain(d)))
  BY <1>1, <1>3, ChainEnds DEF DirChain
<1> HIDE DEF Clusters, DirChain
<1>5. Len(DirChain(d)) \in Nat /\ Len(DirChain(d)) \in 1..Len(DirChain(d))
  BY <1>2 DEF Shaped
<1>6. End_(DirChain(d)) \in Clusters
  BY <1>2, <1>5, ElementOfSeq DEF End_
<1> QED
  BY <1>2, <1>4, <1>5, <1>6 DEF Shaped
-----------------------------------------------------------------------------
(* The invariant *)

Contents == [entries : Seq([name : Names \cup {"sub"}, cluster : Blocks]),
             value : Values \cup {"foreign", "none", "directory"}]
Jobs == [dir : Dirs, name : Names \cup {"none"}, value : Values \cup {"none"},
         length : Nat, cluster : Blocks, marks : Seq([of : Blocks, as : Nat]), extends : BOOLEAN]
Saves == [dir : Dirs, name : Names, cluster : Clusters, value : Values]

Typed ==
    /\ pc \in {"off", "idle", "dead", "astray", "link", "entry", "mark", "data"}
    /\ deaf \in {FALSE, volume.strict}
    /\ job \in Jobs /\ buffer = 1 /\ Dirs \subseteq Taken
    /\ fat \in [0..4 * Last -> Nat] /\ data \in [Clusters -> Contents]
    /\ files \in SUBSET Saves

\* No directory has more entries than fit; that of the root is not empty.
Sized == /\ \A c \in Clusters : Len(data[c].entries) <= DirSize
         /\ Len(data[Root].entries) >= 1

\* The words as a graph: those of clusters that are taken say so, links lead to clusters
\* the driver found free and go upwards, except one from a cluster to itself,
\* which is then linked from another too.
WordsOK ==
    /\ \A c \in Clusters : Word(c) \in Clusters \cup {Free, Beyond, End}
    /\ \A c \in Clusters \cap Taken : Word(c) # Free
    /\ \A c \in Clusters : Word(c) \in Clusters => Word(c) \notin Taken
    /\ \A c \in Clusters : Word(c) = c => Linked(c)
    /\ \E rank : Ascends(rank)

\* The save that is going on: its cluster is nobody's, and the words still to
\* be written do not cut off or join chains.
Chosen == job.cluster
InTable == Chosen \in Clusters
Placed == \E i \in DOMAIN data[job.dir].entries :
             /\ data[job.dir].entries[i] = Entry(job.name, Chosen)
             /\ job.name \notin Dotted =>
                   \A j \in 1..i - 1 : data[job.dir].entries[j].name # job.name
LastMark == <<[of |-> Chosen, as |-> End]>>
LinkMarks(x) == <<[of |-> x, as |-> Chosen], [of |-> Chosen, as |-> End]>>

ChoiceOK ==
    pc \in {"link", "entry", "mark", "data"} =>
       /\ job.name \in Names /\ job.value \in Values
       /\ InTable => Chosen \notin Taken
       /\ \A f \in files : f.cluster # Chosen
LinkOK ==
    pc = "link" =>
       /\ job.extends
       /\ \/ /\ job.marks = LastMark
             /\ InTable => Linked(Chosen) /\ Word(Chosen) \in {Free, Chosen}
          \/ \E x \in Clusters :
                /\ job.marks = LinkMarks(x)
                /\ InTable => Word(Chosen) = Free
                /\ Ends(x)
                /\ x \in Dirs \/ Linked(x)
Fresh == /\ job.name \notin Dotted => ~Listed(job.dir, job.name)
         /\ job.extends = Full(job.dir)
EntryOK ==
    /\ pc \in {"link", "entry"} => Fresh
    /\ pc \in {"entry", "mark", "data"} /\ job.extends /\ InTable =>
          Linked(Chosen) /\ Word(Chosen) = End
    /\ pc \in {"entry", "mark"} /\ ~job.extends /\ InTable => Word(Chosen) = Free
    /\ pc \in {"mark", "data"} /\ ~job.extends => Placed
MarkOK == /\ pc = "mark" => job.marks = LastMark
          /\ pc = "data" /\ InTable => Word(Chosen) # Free

\* The cluster of a file that is promised to stay is nobody else's.
FilesFree == \A f \in files : f.cluster \notin Taken /\ ~Linked(f.cluster)

IInv == /\ Typed /\ Sized /\ WordsOK
        /\ ChoiceOK /\ LinkOK /\ EntryOK /\ MarkOK
        /\ Kept /\ FilesFree
        /\ NoClusterLost /\ OthersIntact

LEMMA Sizes ==
    /\ Last \in Nat /\ Last >= 3 /\ DirSize \in Nat /\ DirSize >= 1
    /\ Clusters \subseteq Nat /\ Clusters \subseteq Blocks /\ Blocks = Clusters \cup {Beyond}
    /\ Beyond \in Blocks /\ Beyond \notin Clusters /\ Free \notin Clusters /\ End \notin Clusters
    /\ Free # End /\ Free # Beyond /\ End # Beyond
    /\ Dirs \subseteq Clusters /\ Root \in Dirs /\ Sub \in Dirs /\ Root # Sub
    /\ Free \in Nat /\ End \in Nat /\ Blocks \subseteq Nat
    /\ \A c \in Clusters : Index(c) \in 0..4 * Last
    /\ \A c, d \in Clusters : Index(c) = Index(d) => c = d
    /\ Taken \subseteq Clusters
BY FatAssumption DEF Clusters, Blocks, Beyond, Dirs, Root, Free, End, Index, Taken

\* A write to the table changes the word of one cluster.
LEMMA WordSet ==
    ASSUME fat \in [0..4 * Last -> Nat], NEW x \in Clusters, NEW n \in Nat,
           fat' = [fat EXCEPT ![Index(x)] = n]
    PROVE  /\ fat' \in [0..4 * Last -> Nat]
           /\ Word(x)' = n
           /\ \A y \in Clusters : y # x => Word(y)' = Word(y)
BY Sizes DEF Word

\* Of a buffer the first sector goes to the disk.
LEMMA SaveOne ==
    ASSUME buffer = 1, data \in [Clusters -> Contents], NEW c \in Blocks, NEW content \in Contents,
           NEW n \in 1..2, NEW behind, Save(c, content, n, behind)
    PROVE  /\ data' \in [Clusters -> Contents]
           /\ c \in Clusters => data'[c] = content
           /\ \A x \in Clusters : x # c => data'[x] = data[x]
<1>1. Written(n) = 1
  BY DEF Written
<1>2. data' = [x \in Clusters |-> IF x = c THEN content ELSE data[x]]
  BY <1>1 DEF Save
<1> QED
  BY <1>2

LEMMA NoJobIsJob == NoJob \in Jobs
BY Sizes DEF NoJob, Jobs

LEMMA MinIs ==
    ASSUME NEW S \in SUBSET Nat, S # {}
    PROVE  Min(S) \in S /\ \A x \in S : Min(S) <= x
<1>1. \E m \in S : \A x \in S : m <= x
  BY Smallest
<1>2. Min(S) = CHOOSE x \in S : \A y \in S : x <= y
  BY DEF Min
<1> QED
  BY <1>1, <1>2

LEMMA FirstFreeIs ==
    /\ FirstFree \in Blocks
    /\ FirstFree \in Clusters => Word(FirstFree) = Free
<1>1. CASE NoSpace
  BY <1>1, Sizes DEF FirstFree
<1>2. CASE ~NoSpace
  <2> DEFINE S == {c \in Clusters : fat[Index(c)] = Free}
  <2>1. S # {} /\ S \in SUBSET Nat
    BY <1>2, Sizes DEF NoSpace
  <2>3. Min(S) \in S
    <3> HIDE DEF S
    <3> QED BY <2>1, MinIs
  <2>4. FirstFree = Min(S)
    BY <1>2 DEF FirstFree
  <2> QED BY <2>3, <2>4, Sizes DEF Word
<1> QED
  BY <1>1, <1>2
-----------------------------------------------------------------------------
LEMMA InitIInv == ASSUME SoundUse, Init PROVE IInv
<1>1. /\ buffer = 1 /\ pc = "off" /\ deaf = FALSE /\ job = NoJob /\ files = {}
      /\ Dirs \subseteq Taken
  BY Sizes DEF Init, SoundUse, Taken, used
<1>2. \A c \in Clusters : Word(c) = IF c \in Taken THEN End ELSE Free
  BY Sizes DEF Init, Word, Taken
<1>3. /\ \A c \in Clusters : data[c] \in Contents
      /\ data[Root] = Directory(<<Entry("sub", Sub)>>)
      /\ data[Sub] = Directory(<<>>)
      /\ \A c \in Clusters \ Dirs : data[c] = File(IF c \in used THEN "foreign" ELSE "none")
  <2>1. Entry("sub", Sub) \in [name : Names \cup {"sub"}, cluster : Blocks]
    BY Sizes DEF Entry
  <2>2. <<Entry("sub", Sub)>> \in Seq([name : Names \cup {"sub"}, cluster : Blocks])
    BY <2>1
  <2>3. Directory(<<Entry("sub", Sub)>>) \in Contents /\ Directory(<<>>) \in Contents
    BY <2>2 DEF Directory, Contents
  <2>4. File("foreign") \in Contents /\ File("none") \in Contents
    BY DEF File, Contents
  <2>5. \A c \in Clusters : data[c] = CASE c = Root -> Directory(<<Entry("sub", Sub)>>)
                                      [] c = Sub -> Directory(<<>>)
                                      [] OTHER -> File(IF c \in used THEN "foreign" ELSE "none")
    BY DEF Init
  <2>6. data[Root] = Directory(<<Entry("sub", Sub)>>) /\ data[Sub] = Directory(<<>>)
    BY <2>5, Sizes
  <2>7. \A c \in Clusters \ Dirs : data[c] = File(IF c \in used THEN "foreign" ELSE "none")
    BY <2>5, Sizes DEF Dirs
  <2> QED BY <2>3, <2>4, <2>6, <2>7 DEF Dirs
<1>4. Typed
  <2>1. fat \in [0..4 * Last -> Nat]
    BY Sizes DEF Init
  <2>2. data \in [Clusters -> Contents]
    BY <1>3 DEF Init
  <2> QED BY <1>1, <2>1, <2>2, NoJobIsJob DEF Typed
<1>5. Sized
  <2>1. \A v : File(v).entries = <<>>
    BY DEF File
  <2>2. \A c \in Clusters \ Dirs : data[c].entries = <<>>
    BY <1>3, <2>1
  <2>3. data[Sub].entries = <<>>
    BY <1>3 DEF Directory
  <2>4. data[Root].entries = <<Entry("sub", Sub)>>
    BY <1>3 DEF Directory
  <2>5. /\ Len(<<>>) \in Nat /\ Len(<<>>) <= 1
        /\ Len(data[Root].entries) \in Nat
        /\ Len(data[Root].entries) <= 1 /\ Len(data[Root].entries) >= 1
    BY <2>4
  <2>6. ASSUME NEW c \in Clusters PROVE Len(data[c].entries) <= DirSize
    <3>1. c \in Clusters \ Dirs \/ c = Sub \/ c = Root
      BY DEF Dirs
    <3>2. data[c].entries = <<>> \/ c = Root
      BY <2>2, <2>3, <3>1
    <3>3. Len(data[c].entries) \in Nat /\ Len(data[c].entries) <= 1
      <4>1. CASE data[c].entries = <<>>
        BY <2>5, <4>1, Zenon
      <4>2. CASE c = Root
        BY <2>5, <4>2, Zenon
      <4> QED BY <3>2, <4>1, <4>2
    <3>4. DirSize \in Nat /\ DirSize >= 1
      BY Sizes
    <3> QED BY <3>3, <3>4
  <2> QED BY <2>5, <2>6 DEF Sized
<1>6. WordsOK
  <2>1. \A c \in Clusters : Word(c) \notin Clusters
    BY <1>2, Sizes
  <2>2. Ascends([c \in Clusters |-> 0])
    BY <2>1 DEF Ascends
  <2>3. \A c \in Clusters : Word(c) = c => Linked(c)
    BY <2>1
  <2> HIDE DEF Clusters
  <2> QED BY <1>2, <2>1, <2>2, <2>3, Sizes DEF WordsOK
<1>7. ChoiceOK /\ LinkOK /\ EntryOK /\ MarkOK /\ Kept /\ FilesFree
  BY <1>1 DEF ChoiceOK, LinkOK, EntryOK, MarkOK, Kept, FilesFree
<1>8. NoClusterLost
  BY <1>2 DEF NoClusterLost, Word
<1>9. OthersIntact
  <2>1. \A d \in Dirs : data[d].value = "directory"
    BY <1>3 DEF Dirs, Directory
  <2>2. data[Root].entries[1] = Entry("sub", Sub)
    BY <1>3 DEF Directory
  <2>3. \A c \in (used \cap Taken) \ Dirs : data[c] = File("foreign")
    BY <1>3, Sizes
  <2> QED BY <2>1, <2>2, <2>3 DEF OthersIntact
<1> QED
  BY <1>4, <1>5, <1>6, <1>7, <1>8, <1>9 DEF IInv

\* A directory's chain begins with it, and what follows is in use by nobody else.
LEMMA DirChainFacts ==
    ASSUME IInv, NEW d \in Dirs
    PROVE  /\ DirChain(d) \in Seq(Clusters) /\ Len(DirChain(d)) \in Nat /\ Len(DirChain(d)) >= 1
           /\ DirChain(d)[1] = d
           /\ \A i \in 2..Len(DirChain(d)) : /\ DirChain(d)[i] \in Clusters /\ DirChain(d)[i] \notin Taken
                                               /\ Linked(DirChain(d)[i])
           /\ LET e == DirChain(d)[Len(DirChain(d))] IN
              e \in Clusters /\ Ends(e) /\ (e \in Dirs \/ Linked(e))
<1>1. PICK rank : Ascends(rank)
  BY DEF IInv, WordsOK
<1>2. d \in Clusters
  BY Sizes
<1>3. /\ DirChain(d) \in Seq(Clusters) /\ Len(DirChain(d)) \in Nat /\ Len(DirChain(d)) >= 1
      /\ DirChain(d)[1] = d
      /\ \A i \in 2..Len(DirChain(d)) : \E x \in Clusters : Word(x) = DirChain(d)[i]
      /\ End_(DirChain(d)) \in Clusters /\ Ends(End_(DirChain(d)))
      /\ End_(DirChain(d)) = d \/ Linked(End_(DirChain(d)))
  BY <1>1, <1>2, DirChainIs
<1>4. ASSUME NEW i \in 2..Len(DirChain(d))
      PROVE  DirChain(d)[i] \in Clusters /\ DirChain(d)[i] \notin Taken /\ Linked(DirChain(d)[i])
  <2>1. DirChain(d)[i] \in Clusters
    BY <1>3, ElementOfSeq
  <2>2. PICK x \in Clusters : Word(x) = DirChain(d)[i]
    BY <1>3
  <2> QED BY <2>1, <2>2 DEF IInv, WordsOK, Linked
<1> QED
  BY <1>3, <1>4 DEF End_

LEMMA ListedExists ==
    ASSUME IInv, NEW d \in Dirs, NEW n, Listed(d, n)
    PROVE  Exists(d, n)
<1>1. 1 \in DOMAIN DirChain(d) /\ DirChain(d)[1] = d
  BY DirChainFacts
<1> QED
  BY <1>1 DEF Exists

LEMMA MarksAre ==
    /\ \A x : Marks(<<x>>) = <<[of |-> x, as |-> End]>>
    /\ \A x, y : Marks(<<x, y>>) = <<[of |-> x, as |-> y], [of |-> y, as |-> End]>>
<1>1. \A x : Marks(<<x>>) = <<[of |-> x, as |-> End]>>
  BY DEF Marks
<1>2. \A x, y : Marks(<<x, y>>) = <<[of |-> x, as |-> y], [of |-> y, as |-> End]>>
  BY DEF Marks
<1> QED
  BY <1>1, <1>2
-----------------------------------------------------------------------------
(* The steps *)

\* What does not touch the table or the volume does not touch what is said of it.
LEMMA TableSame ==
    ASSUME IInv, UNCHANGED <<fat, volume, Taken>>
    PROVE  /\ WordsOK'
           /\ \A c : Word(c)' = Word(c) /\ (Linked(c)' <=> Linked(c)) /\ (Ends(c)' <=> Ends(c))
<1>1. \A c : Word(c)' = Word(c)
  BY DEF Word
<1>2. \A c : (Linked(c)' <=> Linked(c)) /\ (Ends(c)' <=> Ends(c))
  BY <1>1 DEF Linked, Ends
<1>3. \A rank : Ascends(rank) => Ascends(rank)'
  BY <1>1 DEF Ascends
<1>4. WordsOK'
  BY <1>1, <1>2, <1>3 DEF IInv, WordsOK
<1> QED
  BY <1>1, <1>2, <1>4

LEMMA VolumeSame ==
    ASSUME IInv, UNCHANGED <<fat, data, volume, Taken, files>>
    PROVE  /\ Sized' /\ WordsOK' /\ Kept' /\ FilesFree'
           /\ NoClusterLost' /\ OthersIntact'
           /\ \A c : Word(c)' = Word(c) /\ (Linked(c)' <=> Linked(c)) /\ (Ends(c)' <=> Ends(c))
<1>1. Sized' /\ Kept' /\ FilesFree' /\ NoClusterLost' /\ OthersIntact'
  <2>1. Sized' /\ Kept' /\ NoClusterLost'
    BY DEF IInv, Sized, Kept, NoClusterLost
  <2>2. used' = used
    BY DEF used
  <2>3. OthersIntact'
    BY <2>2 DEF IInv, OthersIntact
  <2>4. FilesFree'
    BY TableSame DEF IInv, FilesFree
  <2> QED BY <2>1, <2>3, <2>4
<1> QED
  BY <1>1, TableSame

\* Where no save is going on the job does not matter.
LEMMA Quiet ==
    ASSUME IInv, UNCHANGED <<fat, data, volume, Taken, files>>, job' \in Jobs, buffer' = 1,
           deaf' \in {FALSE, volume.strict}, pc' \in {"off", "idle", "dead", "astray"}
    PROVE  IInv'
<1>1. Typed'
  BY DEF IInv, Typed
<1>2. ChoiceOK' /\ LinkOK' /\ EntryOK' /\ MarkOK'
  BY DEF ChoiceOK, LinkOK, EntryOK, MarkOK
<1> QED
  BY <1>1, <1>2, VolumeSame DEF IInv

LEMMA TakenSame == volume' = volume => Taken' = Taken
BY DEF Taken, used

LEMMA ChooseStep ==
    ASSUME IInv, UNCHANGED <<deaf, buffer, fat, data, volume, Taken, files>>,
           NEW w \in Dirs, NEW n \in Names, NEW v \in Values, NEW k \in Nat, Choose(w, n, v, k)
    PROVE  IInv'
<1>a. PICK c : c = FirstFree
  OBVIOUS
<1>b. PICK e : e = DirChain(w)[Len(DirChain(w))]
  OBVIOUS
<1>2. /\ Accepted(w, n)
      /\ pc' = IF Full(w) THEN "link" ELSE "entry"
      /\ job' = [dir |-> w, name |-> n, value |-> v, length |-> k, cluster |-> c,
                 extends |-> Full(w), marks |-> IF Full(w) THEN Link(w, c) ELSE <<>>]
  BY <1>a DEF Choose
<1>5. c \in Blocks /\ (c \in Clusters => Word(c) = Free)
  BY <1>a, FirstFreeIs
<1>6. e \in Clusters /\ Ends(e) /\ (e \in Dirs \/ Linked(e))
  BY <1>b, DirChainFacts
<1>7. Link(w, c) = <<[of |-> e, as |-> c], [of |-> c, as |-> End]>>
  BY <1>b, MarksAre DEF Link
<1>8. /\ job'.dir = w /\ job'.name = n /\ job'.value = v
      /\ Chosen' = c /\ job'.extends = Full(w)
      /\ Full(w) => job'.marks = <<[of |-> e, as |-> c], [of |-> c, as |-> End]>>
  BY <1>2, <1>7 DEF Chosen
<1>9. job' \in Jobs
  <2>1. e \in Blocks /\ c \in Nat /\ End \in Nat
    BY <1>5, <1>6, Sizes
  <2>2. <<[of |-> e, as |-> c], [of |-> c, as |-> End]>> \in Seq([of : Blocks, as : Nat])
    BY <1>5, <2>1
  <2>a. <<>> \in Seq([of : Blocks, as : Nat])
    OBVIOUS
  <2>3. (IF Full(w) THEN Link(w, c) ELSE <<>>) \in Seq([of : Blocks, as : Nat])
    BY <1>7, <2>2, <2>a, Zenon
  <2>4. Full(w) \in BOOLEAN
    BY DEF Full
  <2> QED BY <1>2, <1>5, <2>3, <2>4 DEF Jobs
<1>10. pc' \in {"link", "entry"} /\ (pc' = "link" <=> Full(w))
  BY <1>2
<1>11. Typed'
  BY <1>9, <1>10 DEF IInv, Typed
<1>12. n \notin Dotted => ~Listed(w, n)
  BY <1>2, ListedExists DEF Accepted
<1>15. ChoiceOK'
  <2>1. ASSUME NEW f \in files PROVE f.cluster # c
    <3>1. f.cluster \in Clusters /\ Word(f.cluster) # Free
      BY <2>1 DEF IInv, Typed, Saves, Kept, Word
    <3> QED BY <1>5, <3>1
  <2>2. c \in Clusters => c \notin Taken
    BY <1>5 DEF IInv, WordsOK
  <2> QED BY <1>5, <1>8, <2>1, <2>2 DEF ChoiceOK, InTable
<1>16. LinkOK'
  <2>1. /\ Ends(e)' /\ (e \in Dirs \/ Linked(e)')
        /\ c \in Clusters => Word(c)' = Free
    BY <1>5, <1>6, VolumeSame
  <2>2. Full(w) => job'.marks = LinkMarks(e)'
    BY <1>8 DEF LinkMarks
  <2> QED BY <1>6, <1>8, <1>10, <2>1, <2>2 DEF LinkOK, InTable
<1>17. EntryOK'
  <2>1. c \in Clusters => Word(c)' = Free
    BY <1>5, VolumeSame
  <2>2. /\ job'.name \notin Dotted => ~Listed(job.dir, job.name)'
        /\ (job.extends = Full(job.dir))'
    BY <1>8, <1>12 DEF Listed, Full
  <2>3. pc' = "entry" => job'.extends = FALSE
    BY <1>8, <1>10 DEF Full
  <2>4. Fresh'
    BY <2>2 DEF Fresh
  <2> QED BY <1>8, <1>10, <2>1, <2>3, <2>4 DEF EntryOK, InTable
<1>18. MarkOK'
  BY <1>10 DEF MarkOK
<1> QED
  BY <1>11, <1>15, <1>16, <1>17, <1>18, VolumeSame DEF IInv

LEMMA BeginStep ==
    ASSUME IInv, NEW n \in Names, NEW v \in Values, NEW k \in Lengths, Begin(Sub, n, v, k)
    PROVE  IInv'
<1>1. UNCHANGED <<deaf, buffer, fat, data, volume, Taken, files>>
  BY TakenSame DEF Begin
<1>2. CASE Readable(Sub)
  <2>1. PICK w \in Found(Sub) : Choose(w, n, v, k)
    BY <1>2 DEF Begin
  <2>2. w \in Dirs /\ k \in Nat
    BY FatAssumption DEF Found, Dirs
  <2> QED BY <1>1, <2>1, <2>2, ChooseStep
<1>3. CASE ~Readable(Sub)
  <2>1. pc' = "astray" /\ job' = job
    BY <1>3 DEF Begin
  <2>2. job \in Jobs /\ buffer = 1 /\ deaf \in {FALSE, volume.strict}
    BY DEF IInv, Typed
  <2> QED BY <1>1, <2>1, <2>2, Quiet
<1> QED
  BY <1>2, <1>3

Named(c) == \E d \in Dirs : \E i \in DOMAIN data[d].entries : data[d].entries[i].cluster = c

\* A word may be written that ends or prolongs a chain which a directory or
\* another cluster leads to.
LEMMA WordWritten ==
    ASSUME IInv, NEW x \in Clusters, NEW n \in Clusters \cup {Beyond, End},
           fat' = [fat EXCEPT ![Index(x)] = n], UNCHANGED <<data, volume, Taken, files>>,
           Ends(x), x \in Taken \/ Linked(x) \/ Named(x),
           n \in Clusters => n \notin Taken /\ Word(n) = Free /\ (n = x => Linked(x)),
           \A f \in files : f.cluster # n
    PROVE  /\ fat' \in [0..4 * Last -> Nat] /\ Word(x)' = n
           /\ \A y \in Clusters : y # x => Word(y)' = Word(y)
           /\ \A c \in Clusters : Linked(c) => Linked(c)'
           /\ n \in Clusters => Linked(n)'
           /\ Sized' /\ WordsOK' /\ Kept' /\ FilesFree'
           /\ NoClusterLost' /\ OthersIntact'
<1>1. n \in Nat /\ n # Free
  BY Sizes
<1>2. /\ fat' \in [0..4 * Last -> Nat] /\ Word(x)' = n
      /\ \A y \in Clusters : y # x => Word(y)' = Word(y)
  BY <1>1, WordSet DEF IInv, Typed
<1>3. \A c \in Clusters : Linked(c) => Linked(c)'
  BY <1>2 DEF Linked, Ends
<1>4. n \in Clusters => Linked(n)'
  BY <1>2, <1>3 DEF Linked
<1>5. PICK rank : Ascends(rank)
  BY DEF IInv, WordsOK
<1>6. \E r : Ascends(r)'
  <2>1. CASE n \in Clusters \ {x}
    <3> DEFINE r == [rank EXCEPT ![n] = rank[n] + rank[x] + 1]
    <3>1. rank \in [Clusters -> Nat] /\ rank[n] \in Nat /\ rank[x] \in Nat
      BY <1>5, <2>1 DEF Ascends
    <3>2. /\ r \in [Clusters -> Nat] /\ r[n] > rank[x] /\ r[n] >= rank[n]
          /\ \A y \in Clusters : y # n => r[y] = rank[y]
      BY <2>1, <3>1
    <3>3. Word(n)' = Free
      BY <1>2, <2>1
    <3> HIDE DEF r
    <3>4. ASSUME NEW c \in Clusters, Word(c)' \in Clusters \ {c} PROVE r[c] < r[Word(c)']
      <4>1. CASE c = n
        BY <3>3, <3>4, <4>1, Sizes
      <4>2. CASE c = x
        BY <1>2, <2>1, <3>1, <3>2, <4>2
      <4>3. CASE c # n /\ c # x
        <5>1. Word(c)' = Word(c) /\ rank[c] < rank[Word(c)] /\ r[c] = rank[c]
          BY <1>2, <1>5, <3>2, <3>4, <4>3 DEF Ascends
        <5>2. rank[c] \in Nat /\ rank[Word(c)] \in Nat /\ r[Word(c)] \in Nat /\ r[Word(c)] >= rank[Word(c)]
          BY <3>1, <3>2, <3>4, <5>1
        <5> QED BY <5>1, <5>2
      <4> QED BY <4>1, <4>2, <4>3
    <3>5. Ascends(r)'
      BY <3>2, <3>4 DEF Ascends
    <3> QED BY <3>5
  <2>2. CASE n \notin Clusters \ {x}
    <3>1. Ascends(rank)'
      BY <1>2, <1>5, <2>2 DEF Ascends
    <3> QED BY <3>1
  <2> QED BY <2>1, <2>2
<1>7. WordsOK'
  <2>1. (\A c \in Clusters : Word(c) \in Clusters \cup {Free, Beyond, End})'
    BY <1>2 DEF IInv, WordsOK
  <2>2. (\A c \in Clusters \cap Taken : Word(c) # Free)'
    BY <1>1, <1>2 DEF IInv, WordsOK
  <2>3. (\A c \in Clusters : Word(c) \in Clusters => Word(c) \notin Taken)'
    BY <1>2 DEF IInv, WordsOK
  <2>4. (\A c \in Clusters : Word(c) = c => Linked(c))'
    BY <1>2, <1>3, <1>4 DEF IInv, WordsOK
  <2> QED BY <1>6, <2>1, <2>2, <2>3, <2>4 DEF WordsOK
<1>8. Kept' /\ FilesFree'
  <2>1. \A f \in files : Word(f.cluster)' # Free
    BY <1>1, <1>2 DEF IInv, Typed, Saves, Kept, Word
  <2>2. Kept'
    BY <2>1 DEF IInv, Kept, Word
  <2>3. ASSUME NEW f \in files PROVE f.cluster \notin Taken /\ ~Linked(f.cluster)'
    <3>1. f.cluster \in Clusters /\ f.cluster \notin Taken /\ ~Linked(f.cluster)
      BY <2>3 DEF IInv, Typed, Saves, FilesFree
    <3> QED BY <1>2, <2>3, <3>1 DEF Linked
  <2> QED BY <2>2, <2>3 DEF FilesFree
<1>9. NoClusterLost'
  <2> SUFFICES ASSUME NEW c \in Clusters, c \notin Taken, Word(c)' # Free, ~Named(c)
               PROVE  Linked(c)'
    BY DEF NoClusterLost, Word, Linked, Named
  <2>1. CASE c = x
    BY <1>3, <2>1
  <2>2. CASE c # x
    <3>1. \E y \in Clusters : Word(y) = c
      BY <1>2, <2>2 DEF IInv, NoClusterLost, Word, Named
    <3>2. Linked(c)
      BY <3>1 DEF IInv, WordsOK, Linked
    <3> QED BY <1>3, <3>2
  <2> QED BY <2>1, <2>2
<1>10. Sized' /\ OthersIntact'
  BY DEF IInv, Sized, OthersIntact, used
<1> QED
  BY <1>2, <1>3, <1>4, <1>7, <1>8, <1>9, <1>10

LEMMA MarkStep ==
    ASSUME IInv, UpdateFat("mark", "data")
    PROVE  IInv'
<1>1. pc = "mark" /\ job.marks = LastMark /\ job \in Jobs
  BY DEF UpdateFat, IInv, MarkOK, Typed
<1>2. /\ Head(job.marks) = [of |-> Chosen, as |-> End] /\ Tail(job.marks) = <<>> /\ Len(job.marks) = 1
  BY <1>1 DEF LastMark
<1>3. /\ pc' = "data" \/ (~InTable /\ pc' = "astray")
      /\ job' = [job EXCEPT !.marks = <<>>]
      /\ fat' = IF InTable THEN [fat EXCEPT ![Index(Chosen)] = End] ELSE fat
      /\ deaf' \in {FALSE, volume.strict}
      /\ UNCHANGED <<buffer, data, volume, Taken, files>>
  <2>1. Head(job.marks).of = Chosen /\ Head(job.marks).as = End
    BY <1>2
  <2>2. /\ pc' = "data" \/ (Chosen \notin Clusters /\ pc' = "astray")
        /\ job' = [job EXCEPT !.marks = Tail(job.marks)]
    <3>1. /\ \/ pc' = IF Len(job.marks) = 1 THEN "data" ELSE "mark"
             \/ Head(job.marks).of \notin Clusters /\ pc' = "astray"
          /\ job' = [job EXCEPT !.marks = Tail(job.marks)]
      BY DEF UpdateFat
    <3>2. Len(job.marks) = 1
      BY <1>2
    <3>3. CASE pc' = IF Len(job.marks) = 1 THEN "data" ELSE "mark"
      <4>1. pc' = "data"
        BY <3>2, <3>3
      <4> QED BY <3>1, <4>1, Zenon
    <3>4. CASE Head(job.marks).of \notin Clusters /\ pc' = "astray"
      BY <2>1, <3>1, <3>4
    <3> QED BY <3>1, <3>3, <3>4
  <2>3. fat' = IF Chosen \in Clusters THEN [fat EXCEPT ![Index(Chosen)] = End] ELSE fat
    BY <2>1 DEF UpdateFat
  <2>4. UNCHANGED <<buffer, data, volume, Taken, files>> /\ deaf' \in {FALSE, volume.strict}
    BY TakenSame DEF UpdateFat
  <2> QED BY <1>2, <2>2, <2>3, <2>4 DEF InTable
<1>4. /\ job' \in Jobs /\ job'.dir = job.dir /\ job'.name = job.name /\ job'.value = job.value
      /\ job'.cluster = job.cluster /\ job'.length = job.length /\ job'.extends = job.extends
      /\ Chosen' = Chosen /\ (InTable' <=> InTable)
  <2>1. <<>> \in Seq([of : Blocks, as : Nat])
    OBVIOUS
  <2>2. /\ job' \in Jobs /\ job'.dir = job.dir /\ job'.name = job.name /\ job'.value = job.value
        /\ job'.cluster = job.cluster /\ job'.length = job.length /\ job'.extends = job.extends
    BY <1>1, <1>3, <2>1 DEF Jobs
  <2> QED BY <2>2 DEF Chosen, InTable
<1>0. CASE pc' = "astray"
  <2>1. UNCHANGED fat /\ buffer' = 1
    BY <1>0, <1>3 DEF IInv, Typed
  <2> QED BY <1>0, <1>3, <1>4, <2>1, Quiet
<1>d. SUFFICES ASSUME pc' = "data" PROVE IInv'
  BY <1>0, <1>3
<1>5. ChoiceOK' /\ LinkOK'
  <2>1. ChoiceOK'
    BY <1>1, <1>3, <1>4, <1>d DEF IInv, ChoiceOK
  <2>2. LinkOK'
    BY <1>d DEF LinkOK
  <2> QED BY <2>1, <2>2
<1>6. ~job.extends => Placed'
  <2>1. ~job.extends => Placed
    BY <1>1 DEF IInv, EntryOK
  <2> QED BY <1>3, <1>4, <2>1 DEF Placed
<1>7. CASE ~InTable
  <2>1. UNCHANGED fat
    BY <1>3, <1>7
  <2>2. Typed'
    BY <1>3, <1>4, <1>d, <2>1 DEF IInv, Typed
  <2>3. EntryOK' /\ MarkOK'
    BY <1>4, <1>6, <1>7, <1>d DEF EntryOK, MarkOK
  <2> QED BY <1>3, <1>5, <2>1, <2>2, <2>3, VolumeSame DEF IInv
<1>8. CASE InTable
  <2>1. Chosen \in Clusters /\ Chosen \notin Taken
    BY <1>1, <1>8 DEF IInv, ChoiceOK, InTable
  <2>2. Ends(Chosen)
    BY <1>1, <1>8, Sizes DEF IInv, EntryOK, Ends
  <2>3. Linked(Chosen) \/ Named(Chosen)
    <3>1. CASE job.extends
      BY <1>1, <1>8, <3>1 DEF IInv, EntryOK
    <3>2. CASE ~job.extends
      <4>1. Placed /\ job.dir \in Dirs
        BY <1>1, <3>2 DEF IInv, EntryOK, Jobs
      <4> QED BY <4>1 DEF Placed, Entry, Named
    <3> QED BY <3>1, <3>2
  <2>4. PICK cc \in Clusters : cc = Chosen
    BY <2>1
  <2>5. End \in Clusters \cup {Beyond, End} /\ End \notin Clusters /\ End # Free
    BY Sizes
  <2>a. \A f \in files : f.cluster # End
    BY <2>5 DEF IInv, Typed, Saves
  <2>6. fat' = [fat EXCEPT ![Index(cc)] = End]
    BY <1>3, <1>8, <2>4
  <2>7. /\ fat' \in [0..4 * Last -> Nat] /\ Word(cc)' = End
        /\ \A c \in Clusters : Linked(c) => Linked(c)'
        /\ Sized' /\ WordsOK' /\ Kept' /\ FilesFree'
        /\ NoClusterLost' /\ OthersIntact'
    BY <1>3, <2>1, <2>2, <2>3, <2>4, <2>5, <2>6, <2>a, WordWritten
  <2>8. Typed'
    BY <1>3, <1>4, <1>d, <2>7 DEF IInv, Typed
  <2>9. EntryOK'
    <3>1. job.extends => Linked(cc)' /\ Word(cc)' = End
      BY <1>1, <1>8, <2>4, <2>7 DEF IInv, EntryOK
    <3> QED BY <1>4, <1>6, <1>d, <2>4, <3>1 DEF EntryOK
  <2>10. MarkOK'
    BY <1>4, <1>d, <2>4, <2>5, <2>7 DEF MarkOK
  <2> QED BY <1>5, <2>7, <2>8, <2>9, <2>10 DEF IInv
<1> QED
  BY <1>7, <1>8

LEMMA LinkStep ==
    ASSUME IInv, UpdateFat("link", "entry")
    PROVE  IInv'
<1>1. /\ pc = "link" /\ job \in Jobs /\ job.extends /\ Chosen \in Blocks
      /\ InTable => Chosen \notin Taken
      /\ \A f \in files : f.cluster # Chosen
      /\ buffer' = 1 /\ deaf' \in {FALSE, volume.strict}
      /\ UNCHANGED <<buffer, data, volume, Taken, files>>
  <2>1. pc = "link" /\ job \in Jobs /\ buffer = 1
    BY DEF UpdateFat, IInv, Typed
  <2>2. UNCHANGED <<buffer, data, volume, Taken, files>> /\ deaf' \in {FALSE, volume.strict}
    BY TakenSame DEF UpdateFat
  <2>3. Chosen \in Blocks
    BY <2>1 DEF Jobs, Chosen
  <2>4. job.extends /\ (InTable => Chosen \notin Taken) /\ \A f \in files : f.cluster # Chosen
    BY <2>1 DEF IInv, LinkOK, ChoiceOK
  <2> QED BY <2>1, <2>2, <2>3, <2>4
<1>u. /\ \/ pc' = IF Len(job.marks) = 1 THEN "entry" ELSE "link"
         \/ Head(job.marks).of \notin Clusters /\ pc' = "astray"
      /\ job' = [job EXCEPT !.marks = Tail(job.marks)]
      /\ fat' = IF Head(job.marks).of \in Clusters
                THEN [fat EXCEPT ![Index(Head(job.marks).of)] = Head(job.marks).as] ELSE fat
  BY DEF UpdateFat
<1>2. ASSUME NEW t \in Seq([of : Blocks, as : Nat]), job' = [job EXCEPT !.marks = t],
             pc' \in {"link", "entry"}
      PROVE  /\ job' \in Jobs /\ job'.dir = job.dir /\ job'.name = job.name /\ job'.value = job.value
             /\ job'.cluster = job.cluster /\ job'.length = job.length /\ job'.extends = job.extends /\ job'.marks = t
             /\ Chosen' = Chosen /\ (InTable' <=> InTable) /\ ChoiceOK'
             /\ Fresh' /\ MarkOK'
  <2>1. /\ job' \in Jobs /\ job'.dir = job.dir /\ job'.name = job.name /\ job'.value = job.value
        /\ job'.cluster = job.cluster /\ job'.length = job.length /\ job'.extends = job.extends /\ job'.marks = t
    BY <1>1, <1>2 DEF Jobs
  <2>2. Chosen' = Chosen /\ (InTable' <=> InTable)
    BY <2>1 DEF Chosen, InTable
  <2>3. ChoiceOK'
    BY <1>1, <2>1, <2>2 DEF IInv, ChoiceOK
  <2>4. Fresh
    BY <1>1 DEF IInv, EntryOK
  <2>5. Fresh'
    BY <1>1, <2>1, <2>4 DEF Fresh, Listed, Full
  <2>6. MarkOK'
    BY <1>2 DEF MarkOK
  <2> QED BY <2>1, <2>2, <2>3, <2>5, <2>6
<1>3. CASE /\ job.marks = LastMark
           /\ InTable => Linked(Chosen) /\ Word(Chosen) \in {Free, Chosen}
  <2>1. /\ Head(job.marks).of = Chosen /\ Head(job.marks).as = End
        /\ Tail(job.marks) = <<>> /\ Len(job.marks) = 1
    BY <1>3 DEF LastMark
  <2>2. /\ pc' = "entry" \/ (~InTable /\ pc' = "astray")
        /\ job' = [job EXCEPT !.marks = <<>>]
    <3>1. CASE pc' = IF Len(job.marks) = 1 THEN "entry" ELSE "link"
      <4>1. pc' = "entry"
        BY <2>1, <3>1
      <4>2. job' = [job EXCEPT !.marks = <<>>]
        BY <1>u, <2>1
      <4> QED BY <4>1, <4>2, Zenon
    <3>2. CASE Head(job.marks).of \notin Clusters /\ pc' = "astray"
      BY <1>u, <2>1, <3>2 DEF InTable
    <3> QED BY <1>u, <3>1, <3>2
  <2>3. fat' = IF Chosen \in Clusters THEN [fat EXCEPT ![Index(Chosen)] = End] ELSE fat
    BY <1>u, <2>1
  <2>a. <<>> \in Seq([of : Blocks, as : Nat])
    OBVIOUS
  <2>b. CASE pc' = "astray"
    <3>1. UNCHANGED fat
      BY <2>2, <2>3, <2>b DEF InTable
    <3>2. job' \in Jobs
      BY <1>1, <2>2, <2>a DEF Jobs
    <3> QED BY <1>1, <2>b, <3>1, <3>2, Quiet
  <2>c. SUFFICES ASSUME pc' = "entry" PROVE IInv'
    BY <2>2, <2>b
  <2>4. /\ job' \in Jobs /\ job'.extends = job.extends /\ Chosen' = Chosen /\ (InTable' <=> InTable)
        /\ ChoiceOK' /\ Fresh' /\ MarkOK'
    BY <1>2, <2>2, <2>a, <2>c
  <2>5. LinkOK'
    BY <2>c DEF LinkOK
  <2>6. CASE ~InTable
    <3>1. UNCHANGED fat
      BY <2>3, <2>6 DEF InTable
    <3>2. Typed'
      BY <1>1, <2>4, <2>c, <3>1 DEF IInv, Typed
    <3>3. EntryOK'
      BY <1>1, <2>4, <2>6, <2>c DEF EntryOK
    <3> QED BY <1>1, <2>4, <2>5, <3>1, <3>2, <3>3, VolumeSame DEF IInv
  <2>7. CASE InTable
    <3>1. PICK c \in Clusters : c = Chosen
      BY <2>7 DEF InTable
    <3>2. Ends(c) /\ Linked(c)
      BY <1>3, <2>7, <3>1, Sizes DEF Ends
    <3>3. End \in Clusters \cup {Beyond, End} /\ End \notin Clusters
      BY Sizes
    <3>a. \A f \in files : f.cluster # End
      BY <3>3 DEF IInv, Typed, Saves
    <3>4. fat' = [fat EXCEPT ![Index(c)] = End]
      BY <2>3, <3>1
    <3>5. /\ fat' \in [0..4 * Last -> Nat] /\ Word(c)' = End /\ Linked(c)'
          /\ Sized' /\ WordsOK' /\ Kept' /\ FilesFree'
          /\ NoClusterLost' /\ OthersIntact'
      BY <1>1, <3>2, <3>3, <3>4, <3>a, WordWritten
    <3>6. Typed'
      BY <1>1, <2>4, <2>c, <3>5 DEF IInv, Typed
    <3>7. EntryOK'
      BY <1>1, <2>4, <2>c, <3>1, <3>5 DEF EntryOK
    <3> QED BY <2>4, <2>5, <3>5, <3>6, <3>7 DEF IInv
  <2> QED BY <2>6, <2>7
<1>4. ASSUME NEW x \in Clusters, job.marks = LinkMarks(x), InTable => Word(Chosen) = Free,
             Ends(x), x \in Dirs \/ Linked(x)
      PROVE  IInv'
  <2>1. /\ Head(job.marks).of = x /\ Head(job.marks).as = Chosen
        /\ Tail(job.marks) = LastMark /\ Len(job.marks) = 2
    BY <1>4 DEF LinkMarks, LastMark
  <2>2. pc' = "link" /\ job' = [job EXCEPT !.marks = LastMark]
    <3>1. Len(job.marks) # 1
      BY <2>1
    <3> QED BY <1>4, <1>u, <2>1, <3>1, Zenon
  <2>3. fat' = [fat EXCEPT ![Index(x)] = Chosen]
    BY <1>4, <1>u, <2>1
  <2>4. LastMark \in Seq([of : Blocks, as : Nat])
    <3>1. [of |-> Chosen, as |-> End] \in [of : Blocks, as : Nat]
      BY <1>1, Sizes
    <3> QED BY <3>1 DEF LastMark
  <2>5. PICK t \in Seq([of : Blocks, as : Nat]) : t = LastMark
    BY <2>4
  <2>6. /\ job' \in Jobs /\ job'.extends = job.extends /\ Chosen' = Chosen /\ (InTable' <=> InTable)
        /\ job'.marks = LastMark
        /\ ChoiceOK' /\ Fresh' /\ MarkOK'
    BY <1>2, <2>2, <2>5
  <2>7. PICK n \in Clusters \cup {Beyond, End} : n = Chosen
    BY <1>1, Sizes
  <2>8. n \in Clusters => n \notin Taken /\ Word(n) = Free /\ (n = x => Linked(x))
    <3>1. n \in Clusters => n \notin Taken /\ Word(n) = Free
      BY <1>1, <1>4, <2>7 DEF InTable
    <3>2. Dirs \subseteq Taken
      BY Sizes DEF IInv, Typed
    <3> QED BY <1>4, <3>1, <3>2
  <2>9. x \in Taken \/ Linked(x) \/ Named(x)
    BY <1>4, Sizes DEF IInv, Typed
  <2>10. /\ fat' \in [0..4 * Last -> Nat] /\ Word(x)' = n
         /\ \A y \in Clusters : y # x => Word(y)' = Word(y)
         /\ n \in Clusters => Linked(n)'
         /\ Sized' /\ WordsOK' /\ Kept' /\ FilesFree'
         /\ NoClusterLost' /\ OthersIntact'
    <3>1. \A f \in files : f.cluster # n
      BY <1>1, <2>7
    <3> QED BY <1>1, <1>4, <2>3, <2>7, <2>8, <2>9, <3>1, WordWritten
  <2>11. Typed'
    BY <1>1, <2>2, <2>6, <2>10 DEF IInv, Typed
  <2>12. LinkOK'
    <3>1. n \in Clusters => Linked(n)' /\ Word(n)' \in {Free, n}
      BY <2>8, <2>10
    <3>2. job'.marks = LastMark'
      BY <2>6 DEF LastMark
    <3> QED BY <1>1, <2>6, <2>7, <3>1, <3>2 DEF LinkOK, InTable
  <2>13. EntryOK'
    BY <2>2, <2>6 DEF EntryOK
  <2> QED BY <2>6, <2>10, <2>11, <2>12, <2>13 DEF IInv
<1> QED
  BY <1>1, <1>3, <1>4 DEF IInv, LinkOK

\* What Kept says of one file.
KeptFile(f) ==
    /\ \E i \in DOMAIN data[f.dir].entries :
          /\ data[f.dir].entries[i] = Entry(f.name, f.cluster)
          /\ f.name \notin Dotted => \A j \in 1..i - 1 : data[f.dir].entries[j].name # f.name
    /\ fat[Index(f.cluster)] # Free
    /\ data[f.cluster] = File(f.value)

LEMMA KeptIs == Kept <=> \A f \in files : KeptFile(f)
BY DEF Kept, KeptFile

LEMMA FilesAre ==
    ASSUME IInv, NEW f \in files
    PROVE  /\ f \in Saves /\ f.dir \in Dirs /\ f.name \in Names /\ f.value \in Values
           /\ f.cluster \in Clusters /\ f.cluster \notin Taken /\ KeptFile(f)
           /\ ~Linked(f.cluster) /\ f.dir \in Clusters /\ f.cluster \notin Dirs
<1>1. /\ f \in Saves /\ f.cluster \notin Taken /\ ~Linked(f.cluster)
      /\ KeptFile(f) /\ Dirs \subseteq Taken
  BY KeptIs DEF IInv, Typed, FilesFree
<1> QED
  BY <1>1, Sizes DEF Saves

\* A write to a cluster that holds no directory, no file of the driver's and
\* none of anybody else.
LEMMA Elsewhere ==
    ASSUME IInv, UNCHANGED <<fat, volume, Taken>>, NEW c \in Blocks, c \in Clusters => c \notin Taken,
           data' \in [Clusters -> Contents], \A x \in Clusters : x # c => data'[x] = data[x],
           c \in Clusters => Len(data'[c].entries) <= DirSize
    PROVE  /\ Sized' /\ NoClusterLost' /\ OthersIntact'
           /\ \A d \in Dirs : data'[d] = data[d]
           /\ \A f \in files : f.cluster # c => KeptFile(f)'
<1>1. Dirs \subseteq Taken /\ Dirs \subseteq Clusters /\ Root \in Dirs /\ Clusters \subseteq Blocks
  BY Sizes DEF IInv, Typed
<1>2. \A d \in Dirs : data'[d] = data[d]
  BY <1>1
<1>3. Sized'
  BY <1>1, <1>2 DEF IInv, Sized
<1>4. NoClusterLost'
  BY <1>2 DEF IInv, NoClusterLost
<1>u. used' = used
  BY DEF used
<1>5. OthersIntact'
  BY <1>1, <1>2, <1>u, Sizes DEF IInv, OthersIntact
<1>6. ASSUME NEW f \in files, f.cluster # c PROVE KeptFile(f)'
  <2>1. data'[f.dir] = data[f.dir] /\ data'[f.cluster] = data[f.cluster] /\ KeptFile(f)
    BY <1>2, <1>6, FilesAre
  <2> QED BY <2>1 DEF KeptFile
<1> QED
  BY <1>2, <1>3, <1>4, <1>5, <1>6

\* A write to a directory that keeps its first entry and what its entries name.
LEMMA DirectoryWritten ==
    ASSUME IInv, UNCHANGED <<fat, volume, Taken>>, NEW d \in Dirs, NEW es,
           data' \in [Clusters -> Contents], \A x \in Clusters : x # d => data'[x] = data[x],
           data'[d] = Directory(es), Len(es) <= DirSize,
           d = Root => Len(es) >= 1 /\ es[1] = data[d].entries[1],
           \A i \in DOMAIN data[d].entries :
              \E j \in DOMAIN es : es[j].cluster = data[d].entries[i].cluster
    PROVE  /\ Sized' /\ NoClusterLost' /\ OthersIntact'
           /\ data'[d].entries = es
           /\ \A f \in files : f.dir # d => KeptFile(f)'
           /\ \A f \in files : f.dir = d =>
                data'[f.cluster] = data[f.cluster] /\ fat'[Index(f.cluster)] # Free
<1>1. Dirs \subseteq Taken /\ Dirs \subseteq Clusters /\ Root \in Dirs /\ Clusters \subseteq Blocks
  BY Sizes DEF IInv, Typed
<1>2. data'[d].entries = es /\ data'[d].value = "directory"
  BY DEF Directory
<1>3. Sized'
  BY <1>1, <1>2 DEF IInv, Sized
<1>4. NoClusterLost'
  <2> SUFFICES ASSUME NEW c \in Clusters, c \notin Taken, fat[Index(c)] # Free,
                      NEW x \in Dirs, NEW i \in DOMAIN data[x].entries,
                      data[x].entries[i].cluster = c
               PROVE  \E y \in Dirs : \E j \in DOMAIN data'[y].entries : data'[y].entries[j].cluster = c
    BY DEF IInv, NoClusterLost
  <2>1. CASE x = d
    BY <1>2, <2>1
  <2>2. CASE x # d
    BY <1>1, <2>2
  <2> QED BY <2>1, <2>2
<1>5. OthersIntact'
  <2>1. \A x \in Dirs : data'[x].value = "directory"
    BY <1>1, <1>2 DEF IInv, OthersIntact
  <2>2. data'[Root].entries[1] = Entry("sub", Sub)
    BY <1>1, <1>2 DEF IInv, OthersIntact
  <2>3. \A c \in (used \cap Taken) \ Dirs : data'[c] = File("foreign")
    BY <1>1, Sizes DEF IInv, OthersIntact
  <2>4. used' = used
    BY DEF used
  <2> QED BY <2>1, <2>2, <2>3, <2>4 DEF OthersIntact
<1>6. ASSUME NEW f \in files
      PROVE  data'[f.cluster] = data[f.cluster] /\ (f.dir # d => data'[f.dir] = data[f.dir]) /\ KeptFile(f)
  BY <1>6, FilesAre
<1>7. \A f \in files : f.dir # d => KeptFile(f)'
  BY <1>6 DEF KeptFile
<1> QED
  BY <1>2, <1>3, <1>4, <1>5, <1>6, <1>7 DEF KeptFile

LEMMA WriteEntryStep ==
    ASSUME IInv, WriteEntry
    PROVE  IInv'
<1>1. /\ pc = "entry" /\ pc' \in {"mark", "astray"}
      /\ UNCHANGED <<buffer, fat, volume, Taken, files>> /\ deaf' \in {FALSE, volume.strict}
      /\ job' = [job EXCEPT !.marks = Marks(<<Chosen>>)]
  BY TakenSame DEF WriteEntry, Chosen
<1>2. /\ job \in Jobs /\ job.dir \in Dirs /\ job.name \in Names /\ job.value \in Values
      /\ Chosen \in Blocks
      /\ InTable => Chosen \notin Taken
      /\ \A f \in files : f.cluster # Chosen
      /\ (job.name \notin Dotted => ~Listed(job.dir, job.name)) /\ job.extends = Full(job.dir)
      /\ job.dir \in Clusters
  <2>1. job \in Jobs /\ job.dir \in Dirs /\ Chosen \in Blocks /\ job.dir \in Clusters
    BY Sizes DEF IInv, Typed, Jobs, Chosen
  <2> QED BY <1>1, <2>1 DEF IInv, ChoiceOK, EntryOK, Fresh
<1>3. Marks(<<Chosen>>) = LastMark
  BY MarksAre DEF LastMark
<1>4. /\ job' \in Jobs /\ job'.dir = job.dir /\ job'.name = job.name /\ job'.value = job.value
      /\ job'.cluster = job.cluster /\ job'.extends = job.extends /\ job'.marks = LastMark
      /\ Chosen' = Chosen /\ (InTable' <=> InTable) /\ LastMark' = LastMark
  <2>1. LastMark \in Seq([of : Blocks, as : Nat])
    <3>1. [of |-> Chosen, as |-> End] \in [of : Blocks, as : Nat]
      BY <1>2, Sizes
    <3> QED BY <3>1 DEF LastMark
  <2>2. /\ job' \in Jobs /\ job'.dir = job.dir /\ job'.name = job.name /\ job'.value = job.value
        /\ job'.cluster = job.cluster /\ job'.extends = job.extends /\ job'.marks = LastMark
    BY <1>1, <1>2, <1>3, <2>1 DEF Jobs
  <2>3. Chosen' = Chosen
    BY <2>2 DEF Chosen
  <2> QED BY <2>2, <2>3 DEF InTable, LastMark
<1> DEFINE e == Entry(job.name, Chosen)
           old == data[job.dir].entries
           Item == [name : Names \cup {"sub"}, cluster : Blocks]
<1>5. e \in Item /\ old \in Seq(Item) /\ Len(old) \in Nat /\ Len(old) <= DirSize /\ DOMAIN old = 1..Len(old)
  <2>1. data[job.dir] \in Contents
    BY <1>2 DEF IInv, Typed
  <2>2. old \in Seq(Item)
    BY <2>1 DEF Contents
  <2>3. Len(old) <= DirSize
    BY <1>2 DEF IInv, Sized
  <2>4. e \in Item
    BY <1>2 DEF Entry
  <2> HIDE DEF old, Item
  <2> QED BY <2>2, <2>3, <2>4
<1>6. ChoiceOK' /\ LinkOK' /\ MarkOK'
  <2>1. ChoiceOK'
    BY <1>1, <1>2, <1>4 DEF ChoiceOK
  <2> QED BY <1>1, <1>4, <2>1 DEF LinkOK, MarkOK
<1>7. job.extends /\ InTable => Linked(Chosen) /\ Word(Chosen) = End
  BY <1>1 DEF IInv, EntryOK
<1>8. ~job.extends /\ InTable => Word(Chosen) = Free
  BY <1>1 DEF IInv, EntryOK
<1>9. /\ WordsOK' /\ FilesFree'
      /\ job.extends /\ InTable => Linked(Chosen)' /\ Word(Chosen)' = End
      /\ ~job.extends /\ InTable => Word(Chosen)' = Free
  <2>1. PICK c : c = Chosen
    OBVIOUS
  <2>2. WordsOK' /\ Word(c)' = Word(c) /\ (Linked(c)' <=> Linked(c))
    BY <1>1, TableSame
  <2>3. FilesFree'
    BY <1>1, TableSame DEF IInv, FilesFree
  <2> QED BY <1>4, <1>7, <1>8, <2>1, <2>2, <2>3 DEF Linked, Word
<1>10. CASE job.extends
  <2> DEFINE es0 == [old EXCEPT ![1] = e]
  <2>1. es0 \in Seq(Item) /\ Len(es0) = Len(old)
    <3>1. Len(old) = DirSize
      BY <1>2, <1>10 DEF Full
    <3> HIDE DEF old, e, Item
    <3>2. 1 \in 1..Len(old)
      BY <3>1, Sizes
    <3> QED BY <1>5, <3>2, ExceptSeq
  <2>a. PICK es \in {es0, <<e>>} : Save(Chosen, Directory(es), 2, data[job.dir])
    BY <1>10 DEF WriteEntry, Chosen
  <2>b. es \in Seq(Item) /\ Len(es) <= DirSize
    <3>1. <<e>> \in Seq(Item) /\ Len(<<e>>) = 1
      BY <1>5
    <3>2. DirSize >= 1 /\ DirSize \in Nat /\ Len(es0) \in Nat /\ Len(es0) <= DirSize
      BY <1>5, <2>1, Sizes
    <3> HIDE DEF es0, e, Item
    <3>3. CASE es = es0
      BY <2>1, <3>2, <3>3
    <3>4. CASE es = <<e>>
      BY <3>1, <3>2, <3>4
    <3> QED BY <2>a, <3>3, <3>4
  <2>2. Directory(es) \in Contents /\ Directory(es).entries = es
    BY <2>b DEF Directory, Contents
  <2> HIDE DEF es0, old
  <2>4. /\ data' \in [Clusters -> Contents] /\ (InTable => data'[Chosen] = Directory(es))
        /\ \A x \in Clusters : x # Chosen => data'[x] = data[x]
    BY <1>2, <2>2, <2>a, SaveOne DEF IInv, Typed, InTable
  <2>5. InTable => Len(data'[Chosen].entries) <= DirSize
    BY <2>b, <2>2, <2>4
  <2>6. Sized' /\ NoClusterLost' /\ OthersIntact' /\ \A f \in files : KeptFile(f)'
    BY <1>1, <1>2, <2>4, <2>5, Elsewhere DEF InTable
  <2>7. Kept'
    BY <1>1, <2>6 DEF IInv, Kept, KeptFile
  <2>8. EntryOK'
    BY <1>1, <1>4, <1>9, <1>10 DEF EntryOK
  <2>9. Typed'
    BY <1>1, <1>4, <2>4 DEF IInv, Typed
  <2> QED BY <1>6, <1>9, <2>6, <2>7, <2>8, <2>9 DEF IInv
<1>11. CASE ~job.extends
  <2> DEFINE es == Append(old, e)
  <2>1. /\ es \in Seq(Item) /\ Len(es) = Len(old) + 1 /\ DOMAIN es = 1..Len(old) + 1
        /\ es[Len(old) + 1] = e
        /\ \A i \in 1..Len(old) : es[i] = old[i]
    <3> HIDE DEF old, e, Item
    <3>1. /\ es \in Seq(Item) /\ Len(es) = Len(old) + 1
          /\ es[Len(old) + 1] = e
          /\ \A i \in 1..Len(old) : es[i] = old[i]
      BY <1>5, AppendProperties
    <3> HIDE DEF es
    <3>2. DOMAIN es = 1..Len(es)
      BY <3>1
    <3> QED BY <3>1, <3>2
  <2>2. Directory(es) \in Contents /\ Directory(es).entries = es
    BY <2>1 DEF Directory, Contents
  <2>3. Save(job.dir, Directory(es), 2, data[job.dir])
    BY <1>11 DEF WriteEntry, Chosen
  <2>4. Len(old) < DirSize
    <3>1. Len(old) # DirSize
      BY <1>2, <1>11 DEF Full
    <3>2. DirSize \in Nat /\ Len(old) \in Nat /\ Len(old) <= DirSize
      BY <1>5, Sizes
    <3> HIDE DEF old
    <3> QED BY <3>1, <3>2
  <2>5. job.dir = Root => Len(old) >= 1
    BY DEF IInv, Sized
  <2>a. job.name \notin Dotted => \A i \in 1..Len(old) : old[i].name # job.name
    BY <1>2, <1>5 DEF Listed
  <2> HIDE DEF es, old, e
  <2>6. /\ data' \in [Clusters -> Contents] /\ data'[job.dir] = Directory(es)
        /\ \A x \in Clusters : x # job.dir => data'[x] = data[x]
    <3>1. buffer = 1 /\ data \in [Clusters -> Contents]
      BY DEF IInv, Typed
    <3>2. job.dir \in Clusters /\ job.dir \in Blocks
      BY <1>2, Sizes
    <3>3. Directory(es) \in Contents
      BY <2>2
    <3>4. 2 \in 1..2
      OBVIOUS
    <3> QED BY <2>3, <3>1, <3>2, <3>3, <3>4, SaveOne
  <2>7. /\ Len(es) <= DirSize
        /\ job.dir = Root => Len(es) >= 1 /\ es[1] = old[1]
        /\ \A i \in DOMAIN old : i \in DOMAIN es /\ es[i] = old[i]
    BY <1>5, <2>1, <2>4, <2>5, Sizes
  <2>8. PICK d \in Dirs : d = job.dir
    BY <1>2
  <2>9. /\ Sized' /\ NoClusterLost' /\ OthersIntact' /\ data'[d].entries = es
        /\ \A f \in files : f.dir # d => KeptFile(f)'
        /\ \A f \in files : f.dir = d =>
                data'[f.cluster] = data[f.cluster] /\ fat'[Index(f.cluster)] # Free
    BY <1>1, <2>6, <2>7, <2>8, DirectoryWritten DEF old
  <2>10. ASSUME NEW f \in files, f.dir = d PROVE KeptFile(f)'
    <3>1. PICK i \in DOMAIN old : /\ old[i] = Entry(f.name, f.cluster)
                                  /\ f.name \notin Dotted => \A j \in 1..i - 1 : old[j].name # f.name
      BY <2>8, <2>10, FilesAre DEF KeptFile, old
    <3>2. i \in DOMAIN es /\ es[i] = old[i] /\ \A j \in 1..i - 1 : es[j] = old[j]
      BY <1>5, <2>1
    <3>3. data'[f.cluster] = File(f.value)
      BY <2>9, <2>10, FilesAre DEF KeptFile
    <3> QED BY <2>9, <2>10, <3>1, <3>2, <3>3 DEF KeptFile
  <2>11. Kept'
    BY <1>1, <2>9, <2>10 DEF IInv, Kept, KeptFile
  <2>12. Placed'
    <3>1. Len(old) + 1 \in DOMAIN es
      BY <1>5, <2>1
    <3>2. job.name \notin Dotted => \A j \in 1..(Len(old) + 1) - 1 : es[j].name # job.name
      BY <1>5, <2>1, <2>a
    <3> QED BY <1>4, <2>1, <2>8, <2>9, <3>1, <3>2 DEF Placed, e, Entry
  <2>13. EntryOK'
    BY <1>1, <1>4, <1>9, <1>11, <2>12 DEF EntryOK
  <2>14. Typed'
    BY <1>1, <1>4, <2>6 DEF IInv, Typed
  <2> QED BY <1>6, <1>9, <2>9, <2>11, <2>13, <2>14 DEF IInv
<1> QED
  BY <1>10, <1>11

LEMMA WriteDataStep ==
    ASSUME IInv, WriteData
    PROVE  IInv'
<1>1. /\ pc = "data" /\ job \in Jobs /\ job.dir \in Dirs /\ job.name \in Names /\ job.value \in Values
      /\ Chosen \in Blocks
      /\ InTable => Chosen \notin Taken /\ Word(Chosen) # Free
      /\ \A f \in files : f.cluster # Chosen
      /\ ~job.extends => Placed
      /\ UNCHANGED <<buffer, fat, volume, Taken>> /\ deaf' \in {FALSE, volume.strict}
  <2>1. pc = "data" /\ job \in Jobs /\ job.dir \in Dirs /\ Chosen \in Blocks
    BY DEF WriteData, IInv, Typed, Jobs, Chosen
  <2>2. UNCHANGED <<buffer, fat, volume, Taken>> /\ deaf' \in {FALSE, volume.strict}
    BY TakenSame DEF WriteData
  <2> QED BY <2>1, <2>2 DEF IInv, ChoiceOK, EntryOK, MarkOK
<1>3. /\ pc' = "idle" /\ job' = NoJob
      /\ files' = IF Promised THEN files \cup {Saved} ELSE files
  BY DEF WriteData
<1>4. File(job.value) \in Contents /\ File(job.value).entries = <<>>
  BY <1>1 DEF File, Contents
<1>5. Save(Chosen, File(job.value), 1, File("none"))
  BY DEF WriteData, Chosen
<1>6. /\ data' \in [Clusters -> Contents] /\ (InTable => data'[Chosen] = File(job.value))
      /\ \A x \in Clusters : x # Chosen => data'[x] = data[x]
  BY <1>1, <1>4, <1>5, SaveOne DEF IInv, Typed, InTable
<1>7. InTable => Len(data'[Chosen].entries) <= DirSize
  <2>1. Len(<<>>) = 0 /\ 0 <= DirSize
    BY Sizes
  <2> QED BY <1>4, <1>6, <2>1, Zenon
<1>8. /\ Sized' /\ NoClusterLost' /\ OthersIntact'
      /\ \A d \in Dirs : data'[d] = data[d]
      /\ \A f \in files : KeptFile(f)'
  BY <1>1, <1>6, <1>7, Elsewhere DEF InTable
<1>s. PICK s : s = Saved
  OBVIOUS
<1>9. ASSUME Promised PROVE s \in Saves /\ KeptFile(s)' /\ s.cluster \notin Taken /\ ~Linked(s.cluster)
  <2>1. ~job.extends /\ InTable /\ ~Linked(Chosen)
    BY <1>9 DEF Promised, Chosen, InTable, Linked, Word
  <2>3. s = [dir |-> job.dir, name |-> job.name, cluster |-> Chosen, value |-> job.value]
    BY <1>s DEF Saved, Chosen
  <2>4. s \in Saves /\ s.dir = job.dir /\ s.name = job.name /\ s.cluster = Chosen /\ s.value = job.value
    BY <1>1, <2>1, <2>3 DEF Saves, InTable
  <2>5. data'[s.dir] = data[s.dir] /\ data'[s.cluster] = File(s.value)
    BY <1>1, <1>6, <1>8, <2>1, <2>4
  <2>6. \E i \in DOMAIN data'[s.dir].entries :
           /\ data'[s.dir].entries[i] = Entry(s.name, s.cluster)
           /\ s.name \notin Dotted => \A j \in 1..i - 1 : data'[s.dir].entries[j].name # s.name
    BY <1>1, <2>1, <2>4, <2>5 DEF Placed
  <2>7. fat'[Index(s.cluster)] # Free
    BY <1>1, <2>1, <2>4 DEF Word
  <2>8. KeptFile(s)'
    BY <2>5, <2>6, <2>7 DEF KeptFile
  <2>9. s.cluster \notin Taken /\ ~Linked(s.cluster)
    BY <1>1, <2>1, <2>4
  <2> QED BY <2>4, <2>8, <2>9
<1>10. \A f \in files' : f \in Saves /\ f.cluster \notin Taken /\ ~Linked(f.cluster)
  BY <1>1, <1>3, <1>s, <1>9, FilesAre
<1>11. Kept'
  <2>1. ASSUME NEW f \in files' PROVE KeptFile(f)'
    BY <1>3, <1>8, <1>s, <1>9, <2>1
  <2> QED BY <2>1 DEF Kept, KeptFile
<1>12. Typed'
  BY <1>1, <1>3, <1>6, <1>10, NoJobIsJob DEF IInv, Typed
<1>13. WordsOK' /\ FilesFree'
  BY <1>1, <1>10, TableSame DEF FilesFree
<1>14. ChoiceOK' /\ LinkOK' /\ EntryOK' /\ MarkOK'
  BY <1>3 DEF ChoiceOK, LinkOK, EntryOK, MarkOK
<1> QED
  BY <1>1, <1>8, <1>10, <1>11, <1>12, <1>13, <1>14 DEF IInv

LEMMA RenameFirstStep ==
    ASSUME IInv, UNCHANGED <<job, buffer, fat, volume, Taken>>, deaf' \in {FALSE, volume.strict},
           pc = "idle", NEW old \in Names, NEW new \in Names, NEW w \in Dirs,
           Accepted(w, new), Listed(w, old), RenameFirst(w, old, new)
    PROVE  IInv'
<1>2. UNCHANGED pc
  BY DEF RenameFirst
<1>3. w \in Clusters /\ (new \notin Dotted => ~Listed(w, new))
  BY ListedExists, Sizes DEF Accepted
<1>6. WordsOK' /\ ChoiceOK' /\ LinkOK' /\ EntryOK' /\ MarkOK'
  BY <1>2, TableSame DEF ChoiceOK, LinkOK, EntryOK, MarkOK
<1> DEFINE es == data[w].entries
           Item == [name : Names \cup {"sub"}, cluster : Blocks]
<1>7. /\ data[w] \in Contents /\ es \in Seq(Item) /\ Len(es) \in Nat /\ Len(es) <= DirSize
      /\ DOMAIN es = 1..Len(es)
  <2>1. data[w] \in Contents /\ es \in Seq(Item)
    BY <1>3 DEF IInv, Typed, Contents
  <2>2. Len(es) <= DirSize
    BY <1>3 DEF IInv, Sized
  <2> HIDE DEF es, Item
  <2> QED BY <2>1, <2>2
<1> DEFINE S == {j \in DOMAIN es : es[j].name = old}
<1>8. S # {} /\ S \in SUBSET Nat
  BY <1>7 DEF Listed
<1>9. PICK i \in S : i = Min(S) /\ \A x \in S : i <= x
  <2> HIDE DEF S
  <2> QED BY <1>8, MinIs
<1>10. i \in 1..Len(es) /\ es[i].name = old /\ \A j \in 1..i - 1 : es[j].name # old
  <2>1. i \in 1..Len(es) /\ es[i].name = old
    BY <1>7, <1>9
  <2>2. ASSUME NEW j \in 1..i - 1 PROVE es[j].name # old
    <3>1. j \in 1..Len(es) /\ ~(i <= j)
      BY <1>7, <2>1
    <3> QED BY <1>7, <1>9, <3>1
  <2> QED BY <2>1, <2>2
<1> DEFINE en == [es[i] EXCEPT !.name = new]
           es2 == [es EXCEPT ![i] = en]
           Moves(f) == f.dir = w /\ f.name = old /\ f.cluster = es[i].cluster
<1>11. es[i] \in Item /\ en \in Item /\ en.name = new /\ en.cluster = es[i].cluster
  <2>1. es[i] \in Item
    <3> HIDE DEF es, Item
    <3> QED BY <1>7, <1>10
  <2> QED BY <2>1
<1>12. /\ es2 \in Seq(Item) /\ Len(es2) = Len(es) /\ es2[i] = en
       /\ \A j \in 1..Len(es) : j # i => es2[j] = es[j]
  <2> HIDE DEF es, Item, en
  <2> QED BY <1>7, <1>10, <1>11, ExceptSeq
<1>13. DOMAIN es2 = 1..Len(es)
  <2> HIDE DEF es2, es, Item
  <2> QED BY <1>12
<1>14. /\ Save(w, Directory(es2), 2, data[w])
       /\ files' = {[f EXCEPT !.name = IF f.dir = w /\ @ = old /\ f.cluster = es[i].cluster
                                       THEN new ELSE @] : f \in files}
  BY <1>9 DEF RenameFirst
<1>15. ASSUME NEW g \in files'
       PROVE  \E f \in files : /\ g \in Saves /\ g.dir = f.dir /\ g.cluster = f.cluster /\ g.value = f.value
                               /\ Moves(f) => g.name = new
                               /\ ~Moves(f) => g.name = f.name
  <2>1. PICK f \in files : g = [f EXCEPT !.name = IF f.dir = w /\ @ = old /\ f.cluster = es[i].cluster
                                                  THEN new ELSE @]
    BY <1>14, <1>15
  <2>2. f \in Saves
    BY FilesAre
  <2> HIDE DEF es
  <2> QED BY <2>1, <2>2 DEF Saves
<1>16. files' \in SUBSET Saves /\ FilesFree'
  <2>1. ASSUME NEW g \in files' PROVE g \in Saves /\ g.cluster \notin Taken /\ ~Linked(g.cluster)
    BY <1>15, <2>1, FilesAre
  <2>2. ASSUME NEW g \in files' PROVE g.cluster \notin Taken' /\ ~Linked(g.cluster)'
    BY <2>1, <2>2, TableSame
  <2> QED BY <2>1, <2>2 DEF FilesFree
<1>17. Directory(es2) \in Contents
  BY <1>12 DEF Directory, Contents
<1> HIDE DEF es2, en, es, Item, S
<1>18. /\ data' \in [Clusters -> Contents] /\ data'[w] = Directory(es2)
       /\ \A x \in Clusters : x # w => data'[x] = data[x]
  <2>1. buffer = 1 /\ data \in [Clusters -> Contents]
    BY DEF IInv, Typed
  <2>2. w \in Clusters /\ w \in Blocks
    BY <1>3, Sizes
  <2>3. 2 \in 1..2
    OBVIOUS
  <2> QED BY <1>14, <1>17, <2>1, <2>2, <2>3, SaveOne
<1>19. w = Root => Len(es2) >= 1 /\ es2[1] = es[1]
  <2> SUFFICES ASSUME w = Root PROVE Len(es2) >= 1 /\ es2[1] = es[1]
    OBVIOUS
  <2>1. Len(es) >= 1 /\ es[1] = Entry("sub", Sub)
    BY DEF IInv, Sized, OthersIntact, es
  <2>2. i # 1
    BY <1>10, <2>1, FatAssumption DEF Entry
  <2> QED BY <1>7, <1>12, <2>1, <2>2
<1>20. \A j \in DOMAIN es : j \in DOMAIN es2 /\ es2[j].cluster = es[j].cluster
  BY <1>7, <1>11, <1>12, <1>13
<1>21. /\ Sized' /\ NoClusterLost' /\ OthersIntact' /\ data'[w].entries = es2
       /\ \A f \in files : f.dir # w => KeptFile(f)'
       /\ \A f \in files : f.dir = w =>
               data'[f.cluster] = data[f.cluster] /\ fat'[Index(f.cluster)] # Free
  BY <1>3, <1>7, <1>12, <1>18, <1>19, <1>20, DirectoryWritten DEF es
<1>22. ASSUME NEW g \in files' PROVE KeptFile(g)'
  <2>1. PICK f \in files : /\ g.dir = f.dir /\ g.cluster = f.cluster /\ g.value = f.value
                           /\ Moves(f) => g.name = new
                           /\ ~Moves(f) => g.name = f.name
    BY <1>15, <1>22
  <2>2. CASE f.dir # w
    <3>1. g.name = f.name
      BY <2>1, <2>2
    <3> QED BY <1>21, <2>1, <2>2, <3>1 DEF KeptFile
  <2>3. CASE f.dir = w
    <3>1. PICK j \in DOMAIN es : /\ es[j] = Entry(f.name, f.cluster)
                                 /\ f.name \notin Dotted => \A l \in 1..j - 1 : es[l].name # f.name
      BY <2>3, FilesAre DEF KeptFile, es
    <3>2. data'[g.cluster] = File(g.value) /\ fat'[Index(g.cluster)] # Free
      BY <1>21, <2>1, <2>3, FilesAre DEF KeptFile
    <3>3. es[j].name = f.name /\ es[j].cluster = f.cluster /\ j \in 1..Len(es)
      BY <1>7, <3>1 DEF Entry
    <3>4. new \notin Dotted => \A l \in 1..Len(es) : es[l].name # new
      BY <1>3, <1>7 DEF Listed, es
    <3>5. CASE Moves(f)
      <4>1. en = Entry(g.name, g.cluster)
        BY <1>11, <2>1, <3>5 DEF Entry, en, Item
      <4>2. g.name \notin Dotted => \A l \in 1..i - 1 : es2[l].name # g.name
        BY <1>7, <1>10, <1>12, <2>1, <3>4, <3>5
      <4>3. i \in DOMAIN es2 /\ es2[i] = Entry(g.name, g.cluster)
        BY <1>10, <1>12, <1>13, <4>1
      <4>4. data'[g.dir].entries = es2
        BY <1>21, <2>1, <2>3
      <4> QED BY <3>2, <4>2, <4>3, <4>4 DEF KeptFile
    <3>6. CASE ~Moves(f)
      <4>1. g.name = f.name
        BY <2>1, <3>6
      <4>2. j # i
        <5>1. f.name # old \/ f.cluster # es[i].cluster
          BY <2>3, <3>6
        <5> QED BY <1>10, <3>3, <5>1
      <4>3. es2[j] = Entry(g.name, g.cluster) /\ j \in DOMAIN es2
        BY <1>12, <1>13, <2>1, <3>1, <3>3, <4>1, <4>2
      <4>4. ASSUME g.name \notin Dotted, NEW l \in 1..j - 1 PROVE es2[l].name # g.name
        <5>1. l \in 1..Len(es) /\ es[l].name # f.name
          BY <1>7, <3>1, <3>3, <4>1, <4>4
        <5>2. new # f.name
          BY <3>3, <3>4, <4>1, <4>4
        <5>3. CASE l = i
          BY <1>11, <1>12, <4>1, <5>2, <5>3
        <5>4. CASE l # i
          BY <1>12, <4>1, <5>1, <5>4
        <5> QED BY <5>3, <5>4
      <4>5. data'[g.dir].entries = es2
        BY <1>21, <2>1, <2>3
      <4> QED BY <3>2, <4>3, <4>4, <4>5 DEF KeptFile
    <3> QED BY <3>5, <3>6
  <2> QED BY <2>2, <2>3
<1>23. Kept'
  BY <1>22 DEF Kept, KeptFile
<1>24. Typed'
  BY <1>2, <1>16, <1>18 DEF IInv, Typed
<1> QED
  BY <1>6, <1>16, <1>21, <1>23, <1>24 DEF IInv

LEMMA RenameLaterStep ==
    ASSUME IInv, UNCHANGED <<job, buffer, fat, volume, Taken>>, deaf' \in {FALSE, volume.strict},
           pc = "idle", NEW w \in Dirs, RenameLater(w)
    PROVE  IInv'
<1>1. UNCHANGED files
  BY DEF RenameLater
<1>2. CASE pc' = "astray" /\ UNCHANGED data
  <2>1. job \in Jobs /\ buffer = 1
    BY DEF IInv, Typed
  <2> QED BY <1>1, <1>2, <2>1, Quiet
<1>3. ASSUME NEW k \in 2..Len(DirChain(w)), Save(DirChain(w)[k], data[w], 2, data[w]), UNCHANGED pc
      PROVE  IInv'
  <2>1. PICK c : c = DirChain(w)[k]
    OBVIOUS
  <2>2. c \in Clusters /\ c \in Blocks /\ c \notin Taken /\ Linked(c) /\ w \in Clusters
    BY <2>1, DirChainFacts, Sizes
  <2>3. data[w] \in Contents /\ Len(data[w].entries) <= DirSize
    BY <2>2 DEF IInv, Typed, Sized
  <2>4. Save(c, data[w], 2, data[w])
    BY <1>3, <2>1
  <2>5. /\ data' \in [Clusters -> Contents] /\ data'[c] = data[w]
        /\ \A x \in Clusters : x # c => data'[x] = data[x]
    BY <2>2, <2>3, <2>4, SaveOne DEF IInv, Typed
  <2>6. \A f \in files : f.cluster # c
    BY <2>2, FilesAre
  <2>7. /\ Sized' /\ NoClusterLost' /\ OthersIntact'
        /\ \A f \in files : KeptFile(f)'
    BY <2>2, <2>3, <2>5, <2>6, Elsewhere
  <2>8. Kept'
    BY <1>1, <2>7 DEF Kept, KeptFile
  <2>9. Typed'
    BY <1>1, <1>3, <2>5 DEF IInv, Typed
  <2>10. WordsOK' /\ ChoiceOK' /\ LinkOK' /\ EntryOK' /\ MarkOK'
    BY <1>3, TableSame DEF ChoiceOK, LinkOK, EntryOK, MarkOK
  <2>11. FilesFree'
    BY <1>1, TableSame DEF IInv, FilesFree
  <2> QED BY <2>7, <2>8, <2>9, <2>10, <2>11 DEF IInv
<1> QED
  BY <1>2, <1>3 DEF RenameLater

LEMMA RenameStep ==
    ASSUME IInv, NEW old \in Names, NEW new \in Names, Rename(Sub, old, new)
    PROVE  IInv'
<1>1. /\ pc = "idle" /\ deaf' \in {FALSE, volume.strict}
      /\ UNCHANGED <<job, buffer, fat, volume, Taken>>
  BY TakenSame DEF Rename
<1>2. CASE Readable(Sub)
  <2>1. PICK w \in Found(Sub) :
           /\ Accepted(w, new)
           /\ IF Listed(w, old) THEN RenameFirst(w, old, new) ELSE RenameLater(w)
    BY <1>2 DEF Rename
  <2>2. w \in Dirs
    BY DEF Found, Dirs
  <2>3. CASE Listed(w, old)
    <3>1. RenameFirst(w, old, new)
      BY <2>1, <2>3
    <3> QED BY <1>1, <2>1, <2>2, <2>3, <3>1, RenameFirstStep
  <2>4. CASE ~Listed(w, old)
    <3>1. RenameLater(w)
      BY <2>1, <2>4
    <3> QED BY <1>1, <2>2, <3>1, RenameLaterStep
  <2> QED BY <2>3, <2>4
<1>3. CASE ~Readable(Sub)
  <2>1. pc' = "astray" /\ UNCHANGED <<data, files>>
    BY <1>3 DEF Rename
  <2>2. job \in Jobs /\ buffer = 1
    BY DEF IInv, Typed
  <2> QED BY <1>1, <2>1, <2>2, Quiet
<1> QED
  BY <1>2, <1>3
-----------------------------------------------------------------------------
(* What the runs check *)

LEMMA IInvTyped ==
    ASSUME IInv
    PROVE  TypeOK
<1>1. \A c \in Clusters : Len(data[c].entries) <= DirSize
  BY DEF IInv, Sized
<1>2. DOMAIN fat = 0..4 * Last /\ DOMAIN data = Clusters
  BY DEF IInv, Typed
<1>3. pc \in {"link", "mark"} => Len(job.marks) \in 1..2
  <2>1. \A x : Len(LinkMarks(x)) = 2
    BY DEF LinkMarks
  <2>2. Len(LastMark) = 1
    BY DEF LastMark
  <2>3. pc = "link" => Len(job.marks) = 1 \/ Len(job.marks) = 2
    BY <2>1, <2>2 DEF IInv, LinkOK
  <2>4. pc = "mark" => Len(job.marks) = 1
    BY <2>2 DEF IInv, MarkOK
  <2> QED BY <2>3, <2>4
<1>4. job.dir \in Dirs /\ job.cluster \in Blocks /\ (deaf => volume.strict)
  <2>1. job \in Jobs /\ deaf \in {FALSE, volume.strict}
    BY DEF IInv, Typed
  <2> QED BY <2>1 DEF Jobs
<1> QED
  BY <1>1, <1>2, <1>3, <1>4 DEF TypeOK, IInv, Typed

LEMMA StepIInv ==
    ASSUME IInv, SoundUse, [Next]_vars
    PROVE  IInv'
<1>0. job \in Jobs /\ buffer = 1 /\ deaf \in {FALSE, volume.strict}
  BY DEF IInv, Typed
<1>1. CASE Mount
  <2>1. buffer' = 1
    BY <1>1 DEF Mount, SoundUse
  <2> QED BY <1>0, <1>1, <2>1, Quiet, TakenSame DEF Mount
<1>2. CASE PowerOff
  BY <1>0, <1>2, Quiet, NoJobIsJob, TakenSame DEF PowerOff
<1>m. CASE Misled
  BY <1>0, <1>m, Quiet, TakenSame DEF Misled
<1>3. CASE Dies
  BY <1>0, <1>3, Quiet, TakenSame DEF Dies
<1>4. CASE \E n \in Names, v \in Values, k \in Lengths : Begin(Sub, n, v, k)
  BY <1>4, BeginStep
<1>5. CASE UpdateFat("link", "entry")
  BY <1>5, LinkStep
<1>6. CASE WriteEntry
  BY <1>6, WriteEntryStep
<1>7. CASE UpdateFat("mark", "data")
  BY <1>7, MarkStep
<1>8. CASE WriteData
  BY <1>8, WriteDataStep
<1>9. CASE \E old, new \in Names : Rename(Sub, old, new)
  BY <1>9, RenameStep
<1>10. CASE UNCHANGED vars
  <2>1. UNCHANGED <<pc, deaf, job, buffer, fat, data, volume, Taken, files>>
    BY <1>10, TakenSame DEF vars
  <2>2. Typed'
    BY <2>1 DEF IInv, Typed
  <2>3. ChoiceOK' /\ MarkOK'
    BY <2>1 DEF IInv, ChoiceOK, MarkOK, InTable, Chosen, LastMark, Word
  <2>4. LinkOK'
    BY <2>1 DEF IInv, LinkOK, InTable, Chosen, LastMark, LinkMarks, Word, Linked, Ends
  <2>5. EntryOK'
    BY <2>1 DEF IInv, EntryOK, InTable, Chosen, Word, Linked, Fresh, Listed, Full, Placed
  <2> QED BY <2>1, <2>2, <2>3, <2>4, <2>5, VolumeSame DEF IInv
<1> QED
  BY <1>1, <1>2, <1>m, <1>3, <1>4, <1>5, <1>6, <1>7, <1>8, <1>9, <1>10 DEF Next

LEMMA InvariantHolds == ASSUME SoundUse PROVE Spec => []IInv
<1>1. IInv /\ [Next]_vars => IInv'
  BY StepIInv
<1> QED
  BY InitIInv, <1>1, PTL DEF Spec

\* On a volume the driver can work with the variables range where they should:
\* no directory overflows, and the words to be written never run out.
THEOREM TypeCorrect == SoundUse => (Spec => []TypeOK)
<1> SUFFICES ASSUME SoundUse PROVE Spec => []TypeOK
  OBVIOUS
<1>1. IInv => TypeOK
  BY IInvTyped
<1> QED
  BY InvariantHolds, <1>1, PTL

\* A file whose save has returned keeps its name, its cluster and its contents
\* through all later saves and renames, wherever the power goes off.
THEOREM KeptAlways == SoundUse => (Spec => []Kept)
<1> SUFFICES ASSUME SoundUse PROVE Spec => []Kept
  OBVIOUS
<1>1. IInv => Kept
  BY DEF IInv
<1> QED
  BY InvariantHolds, <1>1, PTL

\* Wherever the power goes off, a cluster that is marked is named by an entry of
\* a directory or linked to.
THEOREM NoClusterLostAlways == SoundUse => (Spec => []NoClusterLost)
<1> SUFFICES ASSUME SoundUse PROVE Spec => []NoClusterLost
  OBVIOUS
<1>1. IInv => NoClusterLost
  BY DEF IInv
<1> QED
  BY InvariantHolds, <1>1, PTL

\* Directories stay directories, and the files of others keep their contents.
THEOREM OthersIntactAlways == SoundUse => (Spec => []OthersIntact)
<1> SUFFICES ASSUME SoundUse PROVE Spec => []OthersIntact
  OBVIOUS
<1>1. IInv => OthersIntact
  BY DEF IInv
<1> QED
  BY InvariantHolds, <1>1, PTL
=============================================================================
