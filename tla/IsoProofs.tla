------------------------------ MODULE IsoProofs ------------------------------
(***************************************************************************)
(* Proofs about Iso, for volumes, paths, heaps and page allocators of any  *)
(* size: first what taking and giving back buffers does to the memory,     *)
(* then that no buffer is read after it was given back, and last that the  *)
(* file found is the right one.                                            *)
(***************************************************************************)
EXTENDS Iso, SequenceTheorems, FiniteSetTheorems, WellFoundedInduction, TLAPS

Where == {"none", "heap", "page", "freed", "stale"}
Memories == [heap : Nat, pages : Nat, ok : BOOLEAN, clash : BOOLEAN, at : [Buffers -> Where]]
Holding(m, where) == {x \in Buffers : m.at[x] = where}
Held(m, x) == m.at[x] \in {"heap", "page"}

\* Each buffer a variable holds is missing from the heap or from the pages, and none
\* was given back twice.
MemoryOK(m) == /\ m \in Memories /\ ~m.clash
               /\ m.heap + Cardinality(Holding(m, "heap")) <= Heap
               /\ m.pages + Cardinality(Holding(m, "page")) <= Pages
-----------------------------------------------------------------------------
LEMMA SmallestIsMember ==
    ASSUME NEW S \in SUBSET Nat, S # {}
    PROVE  Min(S) \in S /\ \A y \in S : Min(S) <= y
<1> DEFINE less == {ss \in Nat \X Nat : ss[1] < ss[2]}
<1>a. IsWellFoundedOn(less, Nat)
  BY NatLessThanWellFounded DEF OpToRel
<1> HIDE DEF less
<1>1. PICK n \in S : \A m \in S : ~ (<<m, n>> \in less)
  BY <1>a, WFMin
<1>2. \A m \in S : ~ (m < n)
  BY <1>1 DEF less
<1>3. \A m \in S : n <= m
  BY <1>2
<1> QED
  BY <1>3 DEF Min

LEMMA MinOfTwo ==
    ASSUME NEW a \in Nat, NEW b \in Nat
    PROVE  Min({a, b}) = IF a <= b THEN a ELSE b
<1> DEFINE c == IF a <= b THEN a ELSE b
<1>1. c \in {a, b} /\ \A y \in {a, b} : c <= y
  OBVIOUS
<1>2. Min({a, b}) \in {a, b} /\ \A y \in {a, b} : Min({a, b}) <= y
  BY <1>1 DEF Min
<1>3. Min({a, b}) \in Nat /\ Min({a, b}) <= c /\ c <= Min({a, b})
  BY <1>1, <1>2
<1> HIDE DEF Min
<1> QED
  BY <1>3

LEMMA MaxOfTwo ==
    ASSUME NEW a \in Int, NEW b \in Int
    PROVE  Max({a, b}) = IF a <= b THEN b ELSE a
<1> DEFINE c == IF a <= b THEN b ELSE a
<1>1. c \in {a, b} /\ \A y \in {a, b} : c >= y
  OBVIOUS
<1>2. Max({a, b}) \in {a, b} /\ \A y \in {a, b} : Max({a, b}) >= y
  BY <1>1 DEF Max
<1>3. Max({a, b}) \in Int /\ Max({a, b}) <= c /\ c <= Max({a, b})
  BY <1>1, <1>2
<1> HIDE DEF Max
<1> QED
  BY <1>3

LEMMA SurjectionIs ==
    ASSUME NEW S, NEW T, NEW f \in [S -> T], \A t \in T : \E s \in S : f[s] = t
    PROVE  f \in Surjection(S, T)
BY DEF Surjection

LEMMA BuffersFinite == IsFiniteSet(Buffers)
<1>2. IsFiniteSet(1..15)
  <2>1. \A a, b \in Int : IsFiniteSet(a..b)
    BY FS_Interval
  <2>2. 1 \in Int /\ 15 \in Int
    OBVIOUS
  <2> QED
    BY <2>1, <2>2, Zenon
<1> DEFINE bs == <<"path", "reversed", "copy", "parents", "name", "first", "sector", "entry", "parent",
                   "listing", "contents", "words", "new", "list", "info">>
           named == {bs[i] : i \in 1..15}
           g == [i \in 1..15 |-> bs[i]]
<1>1. g \in Surjection(1..15, named)
  <2> HIDE DEF bs
  <2>1. g \in [1..15 -> named] /\ \A i \in 1..15 : g[i] = bs[i]
    OBVIOUS
  <2>2. \A t \in named : \E i \in 1..15 : bs[i] = t
    OBVIOUS
  <2> HIDE DEF g, named
  <2>3. \A t \in named : \E i \in 1..15 : g[i] = t
    BY <2>1, <2>2, Zenon
  <2> QED
    BY <2>1, <2>3, SurjectionIs
<1>3. IsFiniteSet(named)
  BY <1>1, <1>2, FS_Surjection
<1>4. Buffers \subseteq named
  <2>1. /\ bs[1] = "path" /\ bs[2] = "reversed" /\ bs[3] = "copy" /\ bs[4] = "parents" /\ bs[5] = "name"
        /\ bs[6] = "first" /\ bs[7] = "sector" /\ bs[8] = "entry" /\ bs[9] = "parent"
        /\ bs[10] = "listing" /\ bs[11] = "contents" /\ bs[12] = "words" /\ bs[13] = "new"
        /\ bs[14] = "list" /\ bs[15] = "info"
    OBVIOUS
  <2>2. /\ 1 \in 1..15 /\ 2 \in 1..15 /\ 3 \in 1..15 /\ 4 \in 1..15 /\ 5 \in 1..15 /\ 6 \in 1..15
        /\ 7 \in 1..15 /\ 8 \in 1..15 /\ 9 \in 1..15 /\ 10 \in 1..15 /\ 11 \in 1..15
        /\ 12 \in 1..15 /\ 13 \in 1..15 /\ 14 \in 1..15 /\ 15 \in 1..15
    OBVIOUS
  <2>3. \A i \in 1..15 : bs[i] \in named
    OBVIOUS
  <2> HIDE DEF bs, named
  <2>4. /\ "path" \in named /\ "reversed" \in named /\ "copy" \in named /\ "parents" \in named /\ "name" \in named
        /\ "first" \in named /\ "sector" \in named /\ "entry" \in named /\ "parent" \in named
        /\ "listing" \in named /\ "contents" \in named /\ "words" \in named /\ "new" \in named
        /\ "list" \in named /\ "info" \in named
    BY <2>1, <2>2, <2>3, Zenon
  <2> QED
    BY <2>4 DEF Buffers, Strings
<1> QED
  BY <1>3, <1>4, FS_Subset

LEMMA HoldingFinite ==
    ASSUME NEW m, NEW where
    PROVE  IsFiniteSet(Holding(m, where)) /\ Cardinality(Holding(m, where)) \in Nat
BY BuffersFinite, FS_Subset, FS_CardinalityType DEF Holding

\* A part of a sequence has no more members than places.
LEMMA PartOfSequence ==
    ASSUME NEW T, NEW xs \in Seq(T), NEW a \in Nat \ {0}, NEW b \in Nat
    PROVE  LET part == {xs[i] : i \in DOMAIN xs \cap a..b}
           IN  IsFiniteSet(part) /\ Cardinality(part) <= IF a > b THEN 0 ELSE b - a + 1
<1> DEFINE is == DOMAIN xs \cap a..b
           f == [i \in is |-> xs[i]]
           part == {xs[i] : i \in is}
<1>1. IsFiniteSet(a..b) /\ Cardinality(a..b) = IF a > b THEN 0 ELSE b - a + 1
  BY FS_Interval
<1>2. IsFiniteSet(is) /\ Cardinality(is) <= Cardinality(a..b)
  BY <1>1, FS_Subset
<1>3. f \in Surjection(is, part)
  BY DEF Surjection
<1>4. IsFiniteSet(part) /\ Cardinality(part) <= Cardinality(is)
  BY <1>2, <1>3, FS_Surjection
<1>5. Cardinality(part) \in Nat /\ Cardinality(is) \in Nat /\ Cardinality(a..b) \in Nat
  BY <1>1, <1>2, <1>4, FS_CardinalityType
<1>6. Cardinality(part) <= Cardinality(a..b)
  BY <1>2, <1>4, <1>5
<1> QED
  BY <1>1, <1>4, <1>6

LEMMA AtMostTheSum ==
    ASSUME NEW S, NEW T, NEW R, IsFiniteSet(S), IsFiniteSet(T), R \subseteq S \cup T
    PROVE  Cardinality(R) <= Cardinality(S) + Cardinality(T)
<1>1. /\ IsFiniteSet(S \cup T)
      /\ Cardinality(S \cup T) = Cardinality(S) + Cardinality(T) - Cardinality(S \cap T)
  BY FS_Union
<1>2. IsFiniteSet(S \cap T)
  BY FS_Intersection
<1>3. IsFiniteSet(R) /\ Cardinality(R) <= Cardinality(S \cup T)
  BY <1>1, FS_Subset
<1>4. /\ Cardinality(S) \in Nat /\ Cardinality(T) \in Nat /\ Cardinality(S \cap T) \in Nat
      /\ Cardinality(R) \in Nat /\ Cardinality(S \cup T) \in Nat
  BY <1>1, <1>2, <1>3, FS_CardinalityType
<1> QED
  BY <1>1, <1>3, <1>4
-----------------------------------------------------------------------------
(* Taking buffers: either all that are asked for are there, or none is taken. *)

LEMMA TakesKeep ==
    ASSUME NEW m, MemoryOK(m), NEW xs \in Seq(Buffers)
    PROVE  LET n == Takes(m, xs)
           IN  /\ MemoryOK(n)
               /\ n.ok => /\ m.ok
                          /\ \A i \in DOMAIN xs : Held(n, xs[i])
                          /\ \A x \in Buffers : Held(m, x) => Held(n, x)
<1> DEFINE n == Takes(m, xs)
<1>1. CASE Lacks(m, xs)
  <2>1. n = [m EXCEPT !.ok = FALSE]
    BY <1>1 DEF Takes
  <2>2. n \in Memories /\ ~n.ok /\ ~n.clash /\ n.heap = m.heap /\ n.pages = m.pages /\ n.at = m.at
    BY <2>1 DEF MemoryOK, Memories
  <2> QED
    BY <2>2 DEF MemoryOK, Holding
<1>2. CASE ~Lacks(m, xs)
  <2> DEFINE fromHeap == Min({m.heap, Len(xs)})
             fromPages == Max({0, Len(xs) - m.heap})
             held == [x \in Buffers |-> IF x \in FromHeap(m, xs) THEN "heap"
                                      ELSE IF x \in Range(xs) THEN "page"
                                      ELSE IF m.at[x] = "freed" THEN "stale" ELSE m.at[x]]
  <2>0. m \in Memories /\ Len(xs) \in Nat /\ m.heap \in Nat /\ m.pages \in Nat /\ m.ok
    BY <1>2 DEF Lacks, MemoryOK, Memories
  <2>1. n = [m EXCEPT !.heap = @ - fromHeap, !.pages = @ - fromPages, !.at = held]
    BY <1>2 DEF Takes
  <2>2. /\ fromHeap = IF m.heap <= Len(xs) THEN m.heap ELSE Len(xs)
        /\ fromPages = IF Len(xs) <= m.heap THEN 0 ELSE Len(xs) - m.heap
    BY <2>0, MinOfTwo, MaxOfTwo
  <2>3. held \in [Buffers -> Where]
    BY <2>0 DEF Memories, Where
  <2> HIDE DEF held, fromHeap, fromPages
  <2>4. fromHeap \in Nat /\ fromPages \in Nat /\ m.heap - fromHeap \in Nat /\ m.pages - fromPages \in Nat
    BY <1>2, <2>0, <2>2 DEF Lacks
  <2>5. /\ n \in Memories /\ n.ok /\ ~n.clash /\ n.at = held
        /\ n.heap = m.heap - fromHeap /\ n.pages = m.pages - fromPages
    BY <2>0, <2>1, <2>3, <2>4 DEF MemoryOK, Memories
  <2> DEFINE onHeap == {xs[i] : i \in DOMAIN xs \cap 1..m.heap}
             onPages == {xs[i] : i \in DOMAIN xs \cap (m.heap + 1)..Len(xs)}
  <2>6. IsFiniteSet(onHeap) /\ Cardinality(onHeap) <= fromHeap
    <3>1. DOMAIN xs \cap 1..m.heap = DOMAIN xs \cap 1..fromHeap
      BY <2>0, <2>2
    <3>2. IsFiniteSet(onHeap) /\ Cardinality(onHeap) <= IF 1 > fromHeap THEN 0 ELSE fromHeap - 1 + 1
      <4> DEFINE part(a, b) == {xs[i] : i \in DOMAIN xs \cap a..b}
      <4>1. \A a \in Nat \ {0}, b \in Nat :
               IsFiniteSet(part(a, b)) /\ Cardinality(part(a, b)) <= IF a > b THEN 0 ELSE b - a + 1
        BY PartOfSequence
      <4>2. onHeap = part(1, fromHeap)
        BY <3>1
      <4> HIDE DEF part, onHeap
      <4> QED
        BY <2>4, <4>1, <4>2
    <3> HIDE DEF onHeap
    <3> QED
      BY <2>4, <3>2
  <2>7. IsFiniteSet(onPages) /\ Cardinality(onPages) <= fromPages
    <3>1. /\ IsFiniteSet(onPages)
          /\ Cardinality(onPages) <= IF m.heap + 1 > Len(xs) THEN 0 ELSE Len(xs) - (m.heap + 1) + 1
      <4> DEFINE part(a, b) == {xs[i] : i \in DOMAIN xs \cap a..b}
      <4>1. \A a \in Nat \ {0}, b \in Nat :
               IsFiniteSet(part(a, b)) /\ Cardinality(part(a, b)) <= IF a > b THEN 0 ELSE b - a + 1
        BY PartOfSequence
      <4>2. onPages = part(m.heap + 1, Len(xs))
        OBVIOUS
      <4>3. m.heap + 1 \in Nat \ {0}
        BY <2>0
      <4> HIDE DEF part, onPages
      <4> QED
        BY <2>0, <4>1, <4>2, <4>3
    <3> HIDE DEF onPages
    <3> QED
      BY <2>0, <2>2, <3>1
  <2>8. Range(xs) \subseteq onHeap \cup onPages /\ FromHeap(m, xs) = onHeap
    BY <2>0 DEF Range, FromHeap
  <2> HIDE DEF onHeap, onPages
  <2>9. /\ Holding(n, "heap") \subseteq Holding(m, "heap") \cup onHeap
        /\ Holding(n, "page") \subseteq Holding(m, "page") \cup onPages
    <3>1. \A x \in Buffers : /\ held[x] = "heap" => x \in onHeap \/ m.at[x] = "heap"
                             /\ held[x] = "page" => x \in onPages \/ m.at[x] = "page"
      BY <2>8 DEF held
    <3> QED
      BY <2>5, <3>1 DEF Holding
  <2>10. /\ Cardinality(Holding(n, "heap")) <= Cardinality(Holding(m, "heap")) + Cardinality(onHeap)
         /\ Cardinality(Holding(n, "page")) <= Cardinality(Holding(m, "page")) + Cardinality(onPages)
    BY <2>6, <2>7, <2>9, HoldingFinite, AtMostTheSum
  <2>11. /\ n.heap + Cardinality(Holding(n, "heap")) <= Heap
         /\ n.pages + Cardinality(Holding(n, "page")) <= Pages
    <3>1. Cardinality(onHeap) \in Nat /\ Cardinality(onPages) \in Nat
      BY <2>6, <2>7, FS_CardinalityType
    <3>2. /\ Cardinality(Holding(n, "heap")) \in Nat /\ Cardinality(Holding(m, "heap")) \in Nat
          /\ Cardinality(Holding(n, "page")) \in Nat /\ Cardinality(Holding(m, "page")) \in Nat
      BY HoldingFinite
    <3>3. Heap \in Nat /\ Pages \in Nat
      BY IsoAssumption
    <3>4. /\ m.heap + Cardinality(Holding(m, "heap")) <= Heap
          /\ m.pages + Cardinality(Holding(m, "page")) <= Pages
      BY DEF MemoryOK
    <3>5. \A a, b, c, d, e \in Nat, f \in Nat :
             a - e \in Nat /\ a + b <= f /\ c <= b + d /\ d <= e => (a - e) + c <= f
      OBVIOUS
    <3>6. n.heap = m.heap - fromHeap /\ n.pages = m.pages - fromPages
      BY <2>5
    <3> HIDE DEF n
    <3>7. (m.heap - fromHeap) + Cardinality(Holding(n, "heap")) <= Heap
      BY <2>0, <2>4, <2>6, <2>10, <3>1, <3>2, <3>3, <3>4, <3>5
    <3>8. (m.pages - fromPages) + Cardinality(Holding(n, "page")) <= Pages
      BY <2>0, <2>4, <2>7, <2>10, <3>1, <3>2, <3>3, <3>4, <3>5
    <3> QED
      BY <3>6, <3>7, <3>8
  <2>12. /\ \A i \in DOMAIN xs : Held(n, xs[i])
         /\ \A x \in Buffers : Held(m, x) => Held(n, x)
    <3>1. \A i \in DOMAIN xs : xs[i] \in Range(xs) /\ xs[i] \in Buffers
      BY DEF Range
    <3>2. \A x \in Buffers : x \in Range(xs) \/ Held(m, x) => held[x] \in {"heap", "page"}
      BY DEF held, Held
    <3> QED
      BY <2>5, <3>1, <3>2 DEF Held
  <2> QED
    BY <2>0, <2>5, <2>11, <2>12 DEF MemoryOK
<1> QED
  BY <1>1, <1>2
-----------------------------------------------------------------------------
(* Giving back buffers, of which the fromHeap or the page allocator gets those that *)
(* still belong to their variable.                                              *)

LEMMA GivesKeep ==
    ASSUME NEW m, MemoryOK(m), NEW xs \in Seq(Buffers),
           m.ok => \A i \in DOMAIN xs : m.at[xs[i]] # "stale"
    PROVE  LET n == Gives(m, xs)
           IN  /\ MemoryOK(n) /\ n.ok = m.ok
               /\ n.ok => /\ \A i \in DOMAIN xs : n.at[xs[i]] = "freed"
                          /\ \A x \in Buffers \ Range(xs) : n.at[x] = m.at[x]
<1> DEFINE n == Gives(m, xs)
<1>1. CASE ~m.ok
  <2>1. n = m
    BY <1>1 DEF Gives
  <2> QED
    BY <1>1, <2>1
<1>2. CASE m.ok
  <2> DEFINE held == [x \in Buffers |-> IF x \in Range(xs) THEN "freed" ELSE m.at[x]]
             back(where) == {x \in Range(xs) : m.at[x] = where}
  <2>0. Range(xs) \subseteq Buffers /\ m \in Memories /\ m.heap \in Nat /\ m.pages \in Nat /\ ~m.clash
    BY DEF Range, MemoryOK, Memories
  <2>1. n = [m EXCEPT !.heap = @ + Cardinality(back("heap")), !.pages = @ + Cardinality(back("page")),
                      !.at = held, !.clash = @ \/ Cardinality(back("stale")) > 0]
    BY <1>2 DEF Gives, From
  <2>2. Cardinality(back("stale")) = 0
    <3>1. back("stale") = {}
      BY <1>2 DEF Range
    <3> QED
      BY <3>1, FS_EmptySet
  <2>3. \A where \in Where : IsFiniteSet(back(where)) /\ Cardinality(back(where)) \in Nat
    BY <2>0, BuffersFinite, FS_Subset, FS_CardinalityType
  <2>4. "heap" \in Where /\ "page" \in Where /\ "freed" \in Where
    BY DEF Where
  <2>5. held \in [Buffers -> Where]
    BY <2>0, <2>4 DEF Memories
  <2>6. \A where \in {"heap", "page"} :
           Holding(m, where) = Holding([m EXCEPT !.at = held], where) \cup back(where)
           /\ Holding([m EXCEPT !.at = held], where) \cap back(where) = {}
    BY <2>0 DEF Holding, Memories
  <2>7. ASSUME NEW where \in {"heap", "page"}
        PROVE  Cardinality(Holding(n, where)) + Cardinality(back(where)) <= Cardinality(Holding(m, where))
    <3>1. n.at = held
      BY <2>0, <2>1 DEF Memories
    <3>2. /\ Holding(n, where) \cup back(where) \subseteq Holding(m, where)
          /\ Holding(n, where) \cap back(where) = {}
      BY <2>0, <3>1 DEF Holding
    <3>3. IsFiniteSet(back(where)) /\ Cardinality(back(where)) \in Nat
      BY <2>3 DEF Where
    <3> HIDE DEF n, back
    <3>4. /\ Cardinality(Holding(n, where) \cup back(where))
               = Cardinality(Holding(n, where)) + Cardinality(back(where))
                   - Cardinality(Holding(n, where) \cap back(where))
          /\ Cardinality(Holding(n, where) \cup back(where)) <= Cardinality(Holding(m, where))
      BY <3>2, <3>3, HoldingFinite, FS_Union, FS_Subset
    <3>5. Cardinality(Holding(n, where)) \in Nat /\ Cardinality(Holding(m, where)) \in Nat
      BY HoldingFinite
    <3>6. Cardinality(Holding(n, where) \cap back(where)) = 0
      BY <3>2, FS_EmptySet
    <3> QED
      BY <3>3, <3>4, <3>5, <3>6
  <2> DEFINE toHeap == Cardinality(back("heap"))
             toPages == Cardinality(back("page"))
  <2>8. toHeap \in Nat /\ toPages \in Nat
    BY <2>3, <2>4
  <2>9. n = [m EXCEPT !.heap = @ + toHeap, !.pages = @ + toPages, !.at = held, !.clash = FALSE]
    <3>1. (m.clash \/ Cardinality(back("stale")) > 0) = FALSE
      BY <2>0, <2>2
    <3>2. n = [m EXCEPT !.heap = @ + toHeap, !.pages = @ + toPages, !.at = held,
                        !.clash = (m.clash \/ Cardinality(back("stale")) > 0)]
      BY <2>1
    <3> QED
      BY <3>1, <3>2, Zenon
  <2>10. /\ Cardinality(Holding(n, "heap")) + toHeap <= Cardinality(Holding(m, "heap"))
         /\ Cardinality(Holding(n, "page")) + toPages <= Cardinality(Holding(m, "page"))
    BY <2>7
  <2> HIDE DEF toHeap, toPages, held
  <2>11. /\ n \in Memories /\ n.ok = m.ok /\ ~n.clash /\ n.at = held
         /\ n.heap = m.heap + toHeap /\ n.pages = m.pages + toPages
    <3> HIDE DEF n
    <3>1. /\ m.heap \in Nat /\ m.pages \in Nat /\ m.ok \in BOOLEAN
          /\ m = [heap |-> m.heap, pages |-> m.pages, ok |-> m.ok, clash |-> m.clash, at |-> m.at]
      BY <2>0, Zenon DEF Memories
    <3>2. n = [heap |-> m.heap + toHeap, pages |-> m.pages + toPages, ok |-> m.ok, clash |-> FALSE, at |-> held]
      BY <2>9, <3>1
    <3>3. m.heap + toHeap \in Nat /\ m.pages + toPages \in Nat
      BY <2>8, <3>1
    <3> QED
      BY <2>5, <3>1, <3>2, <3>3 DEF Memories
  <2>12. /\ n.heap + Cardinality(Holding(n, "heap")) <= Heap
         /\ n.pages + Cardinality(Holding(n, "page")) <= Pages
    <3>1. /\ m.heap + Cardinality(Holding(m, "heap")) <= Heap
          /\ m.pages + Cardinality(Holding(m, "page")) <= Pages
      BY DEF MemoryOK
    <3>2. Heap \in Nat /\ Pages \in Nat /\ m.pages \in Nat
      BY <2>0, IsoAssumption DEF Memories
    <3>3. /\ Cardinality(Holding(n, "heap")) \in Nat /\ Cardinality(Holding(m, "heap")) \in Nat
          /\ Cardinality(Holding(n, "page")) \in Nat /\ Cardinality(Holding(m, "page")) \in Nat
      BY HoldingFinite
    <3>4. \A a, b, c, d \in Nat, e \in Nat : a + b <= e /\ c + d <= b => (a + d) + c <= e
      OBVIOUS
    <3>5. n.heap = m.heap + toHeap /\ n.pages = m.pages + toPages
      BY <2>11
    <3> HIDE DEF n
    <3>6. (m.heap + toHeap) + Cardinality(Holding(n, "heap")) <= Heap
      BY <2>0, <2>8, <2>10, <3>1, <3>2, <3>3, <3>4
    <3>7. (m.pages + toPages) + Cardinality(Holding(n, "page")) <= Pages
      BY <2>0, <2>8, <2>10, <3>1, <3>2, <3>3, <3>4
    <3> QED
      BY <3>5, <3>6, <3>7
  <2>13. /\ \A i \in DOMAIN xs : n.at[xs[i]] = "freed"
         /\ \A x \in Buffers \ Range(xs) : n.at[x] = m.at[x]
    BY <2>11 DEF held, Range
  <2> QED
    BY <2>11, <2>12, <2>13 DEF MemoryOK
<1> QED
  BY <1>1, <1>2
-----------------------------------------------------------------------------
(* Where the driver is, whatever happens to the memory.                        *)

Typed == /\ pc \in Labels \cup Stops
         /\ vol \in [Cds -> Volumes]
         /\ known \subseteq Cds /\ info \in Cds \cup {NoDrive}
         /\ drive \in Cds \cup {NoDrive} /\ path \in Paths \cup {NoPath}
         /\ stale \in [tail : Stale, behind : Stale]
         /\ sect \in Nat /\ loc \in Nat \ {0} /\ dir \in Nat \ {0} /\ place \in Nat

\* Between two reads the directory is the root, and during one it is in the table of
\* the drive.
Somewhere == /\ pc = "idle" => dir = 1
             /\ pc \notin {"idle", "exhausted"} => drive \in Cds /\ path \in Paths /\ dir \in DOMAIN Table

LEMMA VolumeIs ==
    ASSUME Typed
    PROVE  \A d \in Cds : /\ vol[d] \in Volumes
                          /\ vol[d].table \in Seq([name : Name, parent : Nat])
                          /\ Len(vol[d].table) \in Nat \ {0}
                          /\ DOMAIN vol[d].table = 1..Len(vol[d].table)
                          /\ vol[d].files \in Seq(Seq(Name)) /\ Len(vol[d].files) = Len(vol[d].table)
                          /\ \A i \in 2..Len(vol[d].table) : vol[d].table[i].parent \in 1..i - 1
<1> SUFFICES ASSUME NEW d \in Cds
             PROVE  /\ vol[d] \in Volumes
                    /\ vol[d].table \in Seq([name : Name, parent : Nat])
                    /\ Len(vol[d].table) \in Nat \ {0}
                    /\ DOMAIN vol[d].table = 1..Len(vol[d].table)
                    /\ vol[d].files \in Seq(Seq(Name)) /\ Len(vol[d].files) = Len(vol[d].table)
                    /\ \A i \in 2..Len(vol[d].table) : vol[d].table[i].parent \in 1..i - 1
  OBVIOUS
<1>1. vol[d] \in Volumes
  BY DEF Typed
<1>2. PICK v \in Volumes : v = vol[d]
  BY <1>1
<1>3. /\ v.table \in Seq([name : Name, parent : Nat]) /\ v.table # <<>>
      /\ v.files \in Seq(Seq(Name)) /\ Len(v.files) = Len(v.table)
      /\ \A i \in 2..Len(v.table) : v.table[i].parent \in 1..i - 1
  BY IsoAssumption
<1>4. Len(v.table) \in Nat \ {0} /\ DOMAIN v.table = 1..Len(v.table)
  <2> DEFINE t == v.table
  <2>1. t \in Seq([name : Name, parent : Nat]) /\ t # <<>>
    BY <1>3
  <2> HIDE DEF t
  <2>2. Len(t) \in Nat \ {0} /\ DOMAIN t = 1..Len(t)
    BY <2>1, EmptySeq, LenProperties
  <2> QED
    BY <2>2 DEF t
<1> QED
  BY <1>2, <1>3, <1>4

LEMMA TypedInit == Init => Typed /\ Somewhere
<1> SUFFICES ASSUME Init PROVE Typed /\ Somewhere
  OBVIOUS
<1>1. stale \in [tail : Stale, behind : Stale]
  BY IsoAssumption DEF Init, Zeroes
<1> QED
  BY <1>1 DEF Init, Typed, Somewhere, Labels, Stops

LEMMA TypedStep == Typed /\ Somewhere /\ [Next]_vars => Typed' /\ Somewhere'
<1> SUFFICES ASSUME Typed, Somewhere, [Next]_vars PROVE Typed' /\ Somewhere'
  OBVIOUS
<1>0. 1 \in Nat \ {0} /\ 0 \in Nat /\ \A n \in Nat : n + 1 \in Nat
  OBVIOUS
<1> USE DEF Labels, Stops, Go, request, search
<1>1. ASSUME NEW d \in Cds, Mount(d) PROVE Typed' /\ Somewhere'
  <2>1. /\ pc = "idle" /\ pc' \in {"idle", "exhausted"} /\ known' = known \cup {d} /\ info' = d
        /\ UNCHANGED <<vol, drive, path, stale, sect, loc, dir, place>>
    BY <1>1 DEF Mount
  <2> QED
    BY <2>1 DEF Typed, Somewhere, Table
<1>2. ASSUME NEW d \in Cds, NEW p \in Paths, Read(d, p) PROVE Typed' /\ Somewhere'
  <2>1. stale' \in [tail : Stale, behind : Stale]
    <3>1. {<<>>} \subseteq Stale
      BY IsoAssumption
    <3> QED
      BY <1>2, <3>1 DEF Read
  <2>2. dir = 1 /\ dir' = dir /\ vol' = vol
    BY <1>2 DEF Read, Somewhere
  <2>3. 1 \in DOMAIN vol[d].table
    <3>1. DOMAIN vol[d].table = 1..Len(vol[d].table) /\ Len(vol[d].table) \in Nat \ {0}
      BY VolumeIs
    <3> QED
      BY <3>1
  <2> QED
    BY <1>2, <2>1, <2>2, <2>3 DEF Read, Typed, Somewhere, Table
<1>3. CASE WrongDrive
  BY <1>3 DEF WrongDrive, Typed, Somewhere, Table
<1>4. CASE InRoot
  <2>1. drive \in Cds /\ 1 \in DOMAIN Table
    BY <1>4, VolumeIs DEF InRoot, Somewhere, Table
  <2> QED
    BY <1>4, <2>1 DEF InRoot, Typed, Somewhere, Table
<1>5. CASE InDirectory
  <2>1. pc' \in {"scan", "exhausted"} /\ pc = "cleaned" /\ sect' = 0 /\ loc' = 1
        /\ UNCHANGED <<vol, known, info, drive, path, stale, dir, place>>
    BY <1>5 DEF InDirectory
  <2>2. Typed'
    <3>1a. sect \in Nat
      BY DEF Typed
    <3>1. sect' \in Nat /\ loc' \in Nat \ {0}
      BY <1>0, <2>1, <3>1a, Zenon
    <3>2. pc' \in Labels \cup Stops
      BY <2>1
    <3> QED
      BY <2>1, <3>1, <3>2 DEF Typed
  <2>3. Somewhere'
    BY <2>1 DEF Somewhere, Table
  <2> QED
    BY <2>2, <2>3
<1>6. CASE NextSector
  <2>1. pc' \in {"scan", "exhausted"} /\ pc = "scan" /\ sect' = sect + 1 /\ loc' = 1
        /\ UNCHANGED <<vol, known, info, drive, path, stale, dir, place>>
    BY <1>6 DEF NextSector, LbaAfter
  <2>2. Typed'
    <3>1a. sect \in Nat
      BY DEF Typed
    <3>1. sect' \in Nat /\ loc' \in Nat \ {0}
      BY <1>0, <2>1, <3>1a, Zenon
    <3>2. pc' \in Labels \cup Stops
      BY <2>1
    <3> QED
      BY <2>1, <3>1, <3>2 DEF Typed
  <2>3. Somewhere'
    BY <2>1 DEF Somewhere, Table
  <2> QED
    BY <2>2, <2>3
<1>7. CASE Hit
  <2>1. drive \in Cds /\ Len(Table) \in Nat /\ DOMAIN Table = 1..Len(Table)
    BY <1>7, VolumeIs DEF Hit, Somewhere, Table
  <2>2. Hits \in SUBSET Nat /\ Hits # {} /\ Hits \subseteq 2..Len(Table)
    <3>1. Hits \subseteq 2..Len(Table) /\ Hits # {}
      BY <1>7 DEF Hit, Hits
    <3>2. 2..Len(Table) \subseteq Nat
      BY <2>1
    <3> QED
      BY <3>1, <3>2
  <2>3. Min(Hits) \in Hits
    BY <2>2, SmallestIsMember
  <2>4. dir' \in 2..Len(Table) /\ loc' \in Nat \ {0}
    <3>1. loc' \in Resume(Min(Hits)) /\ dir' = Min(Hits)
      BY <1>7 DEF Hit
    <3> HIDE DEF Hits
    <3>2. PICK i \in 2..Len(Table) : i = Min(Hits)
      BY <2>2, <2>3
    <3>3. {i + 1} \subseteq Nat \ {0} /\ i + 1..Len(Table) + 1 \subseteq Nat \ {0}
      BY <2>1, <3>2
    <3>4. loc' \in {i + 1} \/ loc' \in i + 1..Len(Table) + 1
      BY <3>1, <3>2 DEF Resume
    <3> QED
      BY <3>1, <3>2, <3>3, <3>4
  <2> QED
    <3>1. pc' \in {"parents", "exhausted"} /\ pc = "scan" /\ dir' \in DOMAIN Table /\ dir' \in Nat \ {0}
          /\ UNCHANGED <<vol, known, info, drive, path, stale, sect, place>>
      <4>1. dir' \in DOMAIN Table /\ dir' \in Nat \ {0}
        BY <2>1, <2>4
      <4>2. pc' \in {"parents", "exhausted"} /\ pc = "scan"
            /\ UNCHANGED <<vol, known, info, drive, path, stale, sect, place>>
        BY <1>7 DEF Hit
      <4> QED
        BY <4>1, <4>2
    <3>2. Typed'
      BY <2>4, <3>1 DEF Typed
    <3>3. Somewhere'
      BY <2>4, <3>1 DEF Somewhere, Table
    <3> QED
      BY <3>2, <3>3
<1>8. CASE NoHit
  BY <1>8 DEF NoHit, Typed, Somewhere, Table
<1>9. CASE CheckEndless
  <2>1. /\ pc = "parents" /\ pc' \in {"endless", "astray", "exhausted"}
        /\ UNCHANGED <<vol, known, info, drive, path, stale, sect, loc, dir, place>>
    BY <1>9 DEF CheckEndless
  <2> QED
    BY <2>1 DEF Typed, Somewhere, Table
<1>15. CASE ReadAgain
  BY <1>15 DEF ReadAgain, Typed, Somewhere, Table
<1>16. CASE Spurious
  BY <1>16 DEF Spurious, Typed, Somewhere, Table
<1>17. CASE Torn
  BY <1>17 DEF Torn, Typed, Somewhere, Table
<1>18. CASE NotReached
  <2>1. /\ pc = "dir" /\ pc' \in {"halted", "astray", "exhausted"}
        /\ UNCHANGED <<vol, known, info, drive, path, stale, sect, loc, dir, place>>
    BY <1>18 DEF NotReached
  <2> QED
    BY <2>1 DEF Typed, Somewhere, Table
<1>10. CASE ParentsFit
  BY <1>10 DEF ParentsFit, Typed, Somewhere, Table
<1>11. CASE ParentsDiffer
  BY <1>11 DEF ParentsDiffer, Typed, Somewhere, Table
<1>12. CASE SearchDir
  <2>1. place' \in Nat
    <3>1. Named \subseteq Nat
      <4>1. drive \in Cds /\ dir \in DOMAIN vol[drive].table
        BY <1>12 DEF SearchDir, Somewhere, Table
      <4>2. vol[drive].files \in Seq(Seq(Name)) /\ dir \in 1..Len(vol[drive].files)
        BY <4>1, VolumeIs
      <4>3. vol[drive].files[dir] \in Seq(Name)
        BY <4>2, ElementOfSeq
      <4> QED
        BY <4>3 DEF Named
    <3>2. Reached \subseteq Nat /\ Reached # {}
      BY <1>12, <3>1 DEF SearchDir, Reached
    <3>3. Min(Reached) \in Reached
      BY <3>2, SmallestIsMember
    <3> QED
      BY <1>12, <3>2, <3>3 DEF SearchDir
  <2> QED
    BY <1>12, <2>1 DEF SearchDir, Typed, Somewhere, Table
<1>13. CASE Return
  <2>1. stale' \in [tail : Stale, behind : Stale]
    BY <1>13, IsoAssumption DEF Return, Zeroes
  <2>2. pc' \in {"idle", "exhausted"} /\ dir' = 1 /\ place' = 0 /\ path' = NoPath /\ drive' = NoDrive
        /\ UNCHANGED <<vol, known, info, sect, loc>>
    BY <1>13 DEF Return
  <2>3. Typed'
    <3>1. dir' \in Nat \ {0} /\ place' \in Nat /\ path' \in Paths \cup {NoPath} /\ drive' \in Cds \cup {NoDrive}
      BY <1>0, <2>2, Zenon
    <3>2. pc' \in Labels \cup Stops
      BY <2>2
    <3> QED
      BY <2>1, <2>2, <3>1, <3>2 DEF Typed
  <2>4. Somewhere'
    BY <2>1, <2>2 DEF Somewhere, Table
  <2> QED
    BY <2>3, <2>4
<1>14. CASE UNCHANGED vars
  BY <1>14 DEF vars, Typed, Somewhere, Table
<1> QED
  BY <1>1, <1>2, <1>3, <1>4, <1>5, <1>6, <1>7, <1>8, <1>9, <1>10, <1>11, <1>12, <1>13, <1>14,
     <1>15, <1>16, <1>17, <1>18 DEF Next, Driver

\* The words that are searched for: one for each directory of the path, but for what
\* lies behind the strings.
LEMMA LenIs ==
    ASSUME NEW T, NEW s \in Seq(T), NEW n \in Nat, DOMAIN s = 1..n
    PROVE  Len(s) = n
<1>1. DOMAIN s = 1..Len(s) /\ Len(s) \in Nat
  BY LenProperties
<1> QED
  BY <1>1

LEMMA ReverseIs ==
    ASSUME NEW T, NEW s \in Seq(T)
    PROVE  /\ Reverse(s) \in Seq(T) /\ Len(Reverse(s)) = Len(s)
           /\ \A i \in 1..Len(s) : Reverse(s)[i] = s[Len(s) - i + 1]
<1>1. Len(s) \in Nat
  BY LenProperties
<1>2. \A i \in 1..Len(s) : s[Len(s) - i + 1] \in T
  BY <1>1, ElementOfSeq
<1>3. Reverse(s) \in [1..Len(s) -> T] /\ \A i \in 1..Len(s) : Reverse(s)[i] = s[Len(s) - i + 1]
  BY <1>2 DEF Reverse
<1>4. Reverse(s) \in Seq(T)
  BY <1>1, <1>3, SeqDef
<1>5. Len(Reverse(s)) = Len(s)
  BY <1>1, <1>3, <1>4, LenIs
<1> QED
  BY <1>3, <1>4, <1>5

LEMMA WordsAre ==
    ASSUME Typed, path \in Paths
    PROVE  Words \in Seq(Name) /\ Reversed \in Seq(Name)
<1>1. path.dirs \in Seq(Name) /\ path.file \in Name /\ stale.tail \in Seq(Name) /\ stale.behind \in Seq(Name)
  BY IsoAssumption DEF Typed
<1>2. Reversed \in Seq(Name)
  <2>1. CASE path.dirs = <<>>
    BY <1>1, <2>1 DEF Reversed
  <2>2. CASE path.dirs # <<>>
    <3> DEFINE ws == Reverse(path.dirs)
               t == stale.tail
    <3>1. ws \in Seq(Name) /\ Len(ws) = Len(path.dirs) /\ Len(ws) \in Nat \ {0}
      BY <1>1, <2>2, ReverseIs, EmptySeq, LenProperties
    <3>2. Reversed = Tailed(ws, t)
      BY <2>2 DEF Reversed
    <3> HIDE DEF ws
    <3>3. CASE t = <<>>
      BY <3>1, <3>2, <3>3 DEF Tailed
    <3>4. CASE t # <<>>
      <4>1. t \in Seq(Name) /\ Head(t) \in Name /\ Tail(t) \in Seq(Name)
        BY <1>1, <3>4, HeadTailProperties
      <4>2. ws[Len(ws)] \in Name
        BY <3>1, ElementOfSeq
      <4>3. Last(ws) \o Head(t) \in Name
        BY <4>1, <4>2, ConcatProperties DEF Last, Name
      <4>4. Front(ws) \in Seq(Name)
        BY <3>1, SubSeqProperties, ElementOfSeq DEF Front
      <4>5. <<Last(ws) \o Head(t)>> \in Seq(Name)
        BY <4>3
      <4>6. Front(ws) \o <<Last(ws) \o Head(t)>> \in Seq(Name)
        BY <4>4, <4>5, ConcatProperties
      <4> QED
        BY <3>2, <3>4, <4>1, <4>6, ConcatProperties DEF Tailed
    <3> QED
      BY <3>3, <3>4
  <2> QED
    BY <2>1, <2>2
<1>3. Words \in Seq(Name)
  BY <1>1, <1>2, ConcatProperties DEF Words
<1> QED
  BY <1>2, <1>3
-----------------------------------------------------------------------------
(* The buffers that will still be read are held.                               *)

Safe == /\ MemoryOK(mem)
        /\ mem.ok <=> pc # "exhausted"
        /\ \A x \in InUse : Held(mem, x)

\* What is in use before an action of the driver, and may be after it.
ToParents == {"path", "name", "copy", "first", "entry", "parents"}
ToScan == {"path", "name", "copy", "first"}
ToDir == {"path", "name"}
UsedAt(label) == CASE label = "parents" -> ToParents
                   [] label = "scan" -> ToScan
                   [] label \in {"cleaned", "dir"} -> ToDir
                   [] OTHER -> {}

LEMMA InUseIs == /\ InUse = UsedAt(pc)
                 /\ UsedAt("parents") = ToParents /\ UsedAt("scan") = ToScan
                 /\ UsedAt("cleaned") = ToDir /\ UsedAt("dir") = ToDir
                 /\ UsedAt("found") = {} /\ UsedAt("idle") = {} /\ UsedAt("exhausted") = {}
                 /\ UsedAt("halted") = {} /\ UsedAt("astray") = {} /\ UsedAt("endless") = {}
BY DEF InUse, UsedAt, ToParents, ToScan, ToDir

LEMMA InUseThen == InUse' = UsedAt(pc')
BY DEF InUse, UsedAt, ToParents, ToScan, ToDir

\* A step to a label with memory in which what is used there is held.
LEMMA GoSafe ==
    ASSUME NEW label \in (Labels \cup Stops) \ {"exhausted"}, NEW m, MemoryOK(m), Go(label, m),
           m.ok => \A x \in UsedAt(label) : Held(m, x)
    PROVE  Safe'
<1>1. mem' = m /\ pc' = IF m.ok THEN label ELSE "exhausted"
  BY DEF Go
<1>2. label # "exhausted"
  OBVIOUS
<1>3. \A x \in UsedAt(pc') : Held(m, x)
  BY <1>1, InUseIs
<1>4. MemoryOK(mem')
  BY <1>1
<1>5. \A x \in InUse' : Held(mem', x)
  BY <1>1, <1>3, InUseThen
<1>6. mem'.ok <=> pc' # "exhausted"
  BY <1>1, <1>2
<1> QED
  BY <1>4, <1>5, <1>6 DEF Safe, MemoryOK, Memories, Holding, Held

\* A step that leaves the memory alone and does not use more of it.
LEMMA StaySafe ==
    ASSUME Safe, mem' = mem, pc # "exhausted", pc' # "exhausted", UsedAt(pc') \subseteq UsedAt(pc)
    PROVE  Safe'
BY InUseIs, InUseThen DEF Safe, MemoryOK, Memories, Holding, Held

LEMMA SafeInit == Init => Safe
<1> SUFFICES ASSUME Init PROVE Safe
  OBVIOUS
<1>1. mem = [heap |-> Heap, pages |-> Pages, at |-> [x \in Buffers |-> "none"], ok |-> TRUE, clash |-> FALSE]
  BY DEF Init
<1>2. mem \in Memories
  BY <1>1, IsoAssumption DEF Memories, Where
<1>3. Holding(mem, "heap") = {} /\ Holding(mem, "page") = {}
  BY <1>1 DEF Holding
<1>4. mem.heap + Cardinality(Holding(mem, "heap")) <= Heap /\ mem.pages + Cardinality(Holding(mem, "page")) <= Pages
  <2>1. mem.heap = Heap /\ mem.pages = Pages
    BY <1>1
  <2>2. Cardinality(Holding(mem, "heap")) = 0 /\ Cardinality(Holding(mem, "page")) = 0
    BY <1>3, FS_EmptySet
  <2>3. Heap + 0 <= Heap /\ Pages + 0 <= Pages
    BY IsoAssumption
  <2> QED
    BY <2>1, <2>2, <2>3
<1>5. InUse = {} /\ pc = "idle"
  BY InUseIs DEF Init
<1>6. mem.ok /\ ~mem.clash
  BY <1>1
<1>7. pc # "exhausted"
  BY <1>5
<1> QED
  BY <1>2, <1>4, <1>5, <1>6, <1>7, Zenon DEF Safe, MemoryOK

\* Taking only, and giving back only, on the way to a label.
LEMMA Taken ==
    ASSUME NEW m, MemoryOK(m), NEW xs \in Seq(Buffers), NEW used, m.ok => \A x \in used : Held(m, x),
           used \subseteq Buffers
    PROVE  /\ MemoryOK(Takes(m, xs))
           /\ Takes(m, xs).ok => /\ m.ok
                                 /\ \A x \in used \cup Range(xs) : Held(Takes(m, xs), x)
<1> DEFINE n == Takes(m, xs)
<1>1. MemoryOK(n) /\ (n.ok => /\ m.ok
                              /\ \A i \in DOMAIN xs : Held(n, xs[i])
                              /\ \A x \in Buffers : Held(m, x) => Held(n, x))
  BY TakesKeep
<1>2. \A x \in Range(xs) : \E i \in DOMAIN xs : x = xs[i]
  BY DEF Range
<1> HIDE DEF n
<1>3. ASSUME n.ok, NEW x \in used \cup Range(xs) PROVE Held(n, x)
  <2>1. CASE x \in used
    BY <1>1, <1>3, <2>1
  <2>2. CASE x \in Range(xs)
    BY <1>1, <1>2, <1>3, <2>2
  <2> QED
    BY <2>1, <2>2
<1>4. MemoryOK(n) /\ (n.ok => m.ok)
  BY <1>1
<1> QED
  BY <1>3, <1>4 DEF n

LEMMA Given ==
    ASSUME NEW m, MemoryOK(m), NEW xs \in Seq(Buffers), NEW used, m.ok => \A x \in used : Held(m, x),
           used \subseteq Buffers,
           m.ok => \A x \in Range(xs) : x \in used \/ m.at[x] = "freed"
    PROVE  /\ MemoryOK(Gives(m, xs))
           /\ Gives(m, xs).ok => /\ m.ok
                                 /\ \A x \in used \ Range(xs) : Held(Gives(m, xs), x)
                                 /\ \A x \in Range(xs) : Gives(m, xs).at[x] = "freed"
<1> DEFINE n == Gives(m, xs)
<1>1. m.ok => \A i \in DOMAIN xs : m.at[xs[i]] # "stale"
  <2>1. \A i \in DOMAIN xs : xs[i] \in Range(xs)
    BY DEF Range
  <2>2. m.ok => \A x \in Range(xs) : m.at[x] # "stale"
    BY DEF Held
  <2> QED
    BY <2>1, <2>2
<1>2. /\ MemoryOK(n) /\ n.ok = m.ok
      /\ n.ok => /\ \A i \in DOMAIN xs : n.at[xs[i]] = "freed"
                 /\ \A x \in Buffers \ Range(xs) : n.at[x] = m.at[x]
  BY <1>1, GivesKeep
<1> HIDE DEF n
<1>3. n.ok => /\ m.ok
              /\ \A x \in used \ Range(xs) : Held(n, x)
              /\ \A x \in Range(xs) : n.at[x] = "freed"
  BY <1>2 DEF Held, Range
<1> QED
  BY <1>2, <1>3 DEF n

LEMMA RangesAre ==
    /\ \A a : Range(<<a>>) = {a}
    /\ \A a, b : Range(<<a, b>>) = {a, b}
    /\ \A a, b, c : Range(<<a, b, c>>) = {a, b, c}
    /\ \A a, b, c, d : Range(<<a, b, c, d>>) = {a, b, c, d}
<1>1. \A a : Range(<<a>>) = {a}
  BY DEF Range
<1>2. \A a, b : Range(<<a, b>>) = {a, b}
  BY DEF Range
<1>3. \A a, b, c : Range(<<a, b, c>>) = {a, b, c}
  BY DEF Range
<1>4. \A a, b, c, d : Range(<<a, b, c, d>>) = {a, b, c, d}
  BY DEF Range
<1> QED
  BY <1>1, <1>2, <1>3, <1>4

LEMMA NamedBuffers ==
    /\ "path" \in Buffers /\ "reversed" \in Buffers /\ "copy" \in Buffers /\ "parents" \in Buffers
    /\ "list" \in Buffers /\ "name" \in Buffers /\ "first" \in Buffers /\ "sector" \in Buffers
    /\ "entry" \in Buffers
BY DEF Buffers, Strings

LEMMA SequencesAre ==
    /\ \A a \in Buffers : <<a>> \in Seq(Buffers)
    /\ \A a, b \in Buffers : <<a, b>> \in Seq(Buffers)
    /\ \A a, b, c \in Buffers : <<a, b, c>> \in Seq(Buffers)
    /\ \A a, b, c, d \in Buffers : <<a, b, c, d>> \in Seq(Buffers)
OBVIOUS

\* Buffers that are taken and given back leave as many as there were.
LEMMA UsesKeep ==
    ASSUME NEW m, MemoryOK(m), NEW xs \in Seq(Buffers), NEW used \in SUBSET Buffers, used \cap Range(xs) = {},
           m.ok => \A y \in used : Held(m, y)
    PROVE  /\ MemoryOK(Uses(m, xs))
           /\ Uses(m, xs).ok => m.ok /\ \A y \in used : Held(Uses(m, xs), y)
<1> DEFINE n == Uses(m, xs)
<1>0. m \in Memories /\ ~m.clash
  BY DEF MemoryOK
<1>1. CASE Lacks(m, xs)
  <2>1. n = [m EXCEPT !.ok = FALSE]
    BY <1>1 DEF Uses
  <2>2. n \in Memories /\ ~n.ok /\ ~n.clash /\ n.heap = m.heap /\ n.pages = m.pages /\ n.at = m.at
    BY <1>0, <2>1 DEF Memories
  <2> QED
    BY <2>2 DEF MemoryOK, Holding
<1>2. CASE ~Lacks(m, xs)
  <2> DEFINE held == [x \in Buffers |-> IF x \in Range(xs) THEN "freed"
                                       ELSE IF m.at[x] = "freed" THEN "stale" ELSE m.at[x]]
  <2>1. n = [m EXCEPT !.at = held] /\ m.ok
    BY <1>2 DEF Uses, Lacks
  <2>2. held \in [Buffers -> Where]
    BY <1>0 DEF Memories, Where
  <2>3. /\ \A x \in Buffers : held[x] \in {"heap", "page"} => held[x] = m.at[x]
        /\ \A x \in used : Held(m, x) => held[x] \in {"heap", "page"}
    BY DEF Held
  <2> HIDE DEF held
  <2>4. n \in Memories /\ n.ok /\ ~n.clash /\ n.heap = m.heap /\ n.pages = m.pages /\ n.at = held
    BY <1>0, <2>1, <2>2 DEF Memories
  <2> HIDE DEF n
  <2>5. ASSUME NEW where \in {"heap", "page"}
        PROVE  /\ Cardinality(Holding(n, where)) <= Cardinality(Holding(m, where))
               /\ Cardinality(Holding(n, where)) \in Nat /\ Cardinality(Holding(m, where)) \in Nat
    <3>1. Holding(n, where) \subseteq Holding(m, where)
      BY <2>3, <2>4 DEF Holding
    <3> QED
      BY <3>1, HoldingFinite, FS_Subset
  <2>6. MemoryOK(n)
    <3>1. /\ m.heap + Cardinality(Holding(m, "heap")) <= Heap
          /\ m.pages + Cardinality(Holding(m, "page")) <= Pages
      BY DEF MemoryOK
    <3>2. m.heap \in Nat /\ m.pages \in Nat /\ Heap \in Nat /\ Pages \in Nat
      BY <1>0, IsoAssumption DEF Memories
    <3>3. n.heap + Cardinality(Holding(n, "heap")) <= Heap
      BY <2>4, <2>5, <3>1, <3>2
    <3>4. n.pages + Cardinality(Holding(n, "page")) <= Pages
      BY <2>4, <2>5, <3>1, <3>2
    <3> QED
      BY <2>4, <3>3, <3>4 DEF MemoryOK
  <2>7. \A y \in used : Held(n, y)
    BY <2>1, <2>3, <2>4 DEF Held
  <2> QED
    BY <2>1, <2>6, <2>7 DEF n
<1> QED
  BY <1>1, <1>2

\* One of them, when the others are in use.
LEMMA UseKeeps ==
    ASSUME NEW m, MemoryOK(m), NEW used \in SUBSET Buffers, NEW x \in Buffers \ used,
           m.ok => \A y \in used : Held(m, y)
    PROVE  /\ MemoryOK(Use(m, x))
           /\ Use(m, x).ok => m.ok /\ \A y \in used : Held(Use(m, x), y)
<1> DEFINE xs == <<x>>
<1>1. xs \in Seq(Buffers) /\ used \cap Range(xs) = {} /\ Use(m, x) = Uses(m, xs)
  BY RangesAre, SequencesAre DEF Use
<1> HIDE DEF xs
<1> QED
  BY <1>1, UsesKeep

\* reverse_path, on the way to the test for a directory.
LEMMA ReversingKeeps ==
    ASSUME NEW m, MemoryOK(m), NEW used \in SUBSET {"list", "path", "reversed", "name"},
           m.ok => \A y \in used : Held(m, y)
    PROVE  /\ MemoryOK(Reversing(m))
           /\ Reversing(m).ok => m.ok /\ \A y \in used : Held(Reversing(m), y)
<1> DEFINE xs == <<"words", "new">>
<1>1. xs \in Seq(Buffers) /\ used \cap Range(xs) = {} /\ used \subseteq Buffers
  <2>1. {"words", "new"} \subseteq Buffers /\ {"list", "path", "reversed", "name"} \subseteq Buffers
    BY DEF Buffers, Strings
  <2>2. Range(xs) = {"words", "new"}
    BY RangesAre
  <2>3. xs \in Seq(Buffers)
    BY <2>1, SequencesAre
  <2>4. used \subseteq {"list", "path", "reversed", "name"}
    OBVIOUS
  <2> HIDE DEF xs
  <2> QED
    BY <2>1, <2>2, <2>3, <2>4
<1>2. Reversing(m) = Uses(m, xs)
  BY DEF Reversing
<1> HIDE DEF xs
<1> QED
  BY <1>1, <1>2, UsesKeep

\* check_parents reads one sector after the other, and then an entry.
LEMMA ParentsRead ==
    ASSUME NEW n \in Nat
    PROVE  /\ SectorsRead(n) \in Seq(Buffers)
           /\ Append(SectorsRead(n), "parent") \in Seq(Buffers)
           /\ "parent" \in Range(Append(SectorsRead(n), "parent"))
           /\ Range(Append(SectorsRead(n), "parent")) \subseteq {"sector", "parent"}
<1>1. "sector" \in Buffers /\ "parent" \in Buffers
  BY DEF Buffers
<1>2. SectorsRead(n) \in [1..n -> Buffers] /\ \A i \in 1..n : SectorsRead(n)[i] = "sector"
  BY <1>1 DEF SectorsRead
<1>3. SectorsRead(n) \in Seq(Buffers)
  BY <1>2, SeqDef
<1>4. Len(SectorsRead(n)) = n
  BY <1>2, <1>3, LenIs
<1> DEFINE s == SectorsRead(n)
           t == Append(s, "parent")
<1> HIDE DEF s
<1>5. s \in Seq(Buffers) /\ Len(s) = n /\ \A i \in 1..n : s[i] = "sector"
  BY <1>2, <1>3, <1>4 DEF s
<1>6. t \in Seq(Buffers) /\ Len(t) = n + 1 /\ t[n + 1] = "parent" /\ \A i \in 1..n : t[i] = s[i]
  BY <1>1, <1>5, AppendProperties
<1>7. DOMAIN t = 1..n + 1
  BY <1>6, LenProperties
<1> HIDE DEF t
<1>8. "parent" \in Range(t)
  BY <1>6, <1>7 DEF Range
<1>9. Range(t) \subseteq {"sector", "parent"}
  <2>1. \A i \in 1..n + 1 : i \in 1..n \/ i = n + 1
    OBVIOUS
  <2> QED
    BY <1>5, <1>6, <1>7, <2>1 DEF Range
<1> QED
  BY <1>3, <1>6, <1>8, <1>9 DEF t, s

LEMMA SafeStep == Typed /\ Somewhere /\ Safe /\ [Next]_vars => Safe'
<1> SUFFICES ASSUME Typed, Somewhere, Safe, [Next]_vars PROVE Safe'
  OBVIOUS
<1>0. /\ MemoryOK(mem) /\ \A x \in UsedAt(pc) : Held(mem, x)
      /\ ToParents \subseteq Buffers /\ ToScan \subseteq Buffers /\ ToDir \subseteq Buffers
  BY InUseIs DEF Safe, ToParents, ToScan, ToDir, Buffers, Strings
<1>1. ASSUME NEW d \in Cds, Mount(d) PROVE Safe'
  <2> DEFINE xs == <<"info">>
             m == IF info = NoDrive THEN Take(mem, "info") ELSE mem
             n == Use(m, "sector")
  <2>1. xs \in Seq(Buffers) /\ "sector" \in Buffers
    BY SequencesAre DEF Buffers
  <2>2. Take(mem, "info") = Takes(mem, xs)
    BY DEF Take
  <2> HIDE DEF xs
  <2>3. MemoryOK(m)
    BY <1>0, <2>1, <2>2, TakesKeep
  <2>4. Go("idle", n)
    BY <1>1 DEF Mount
  <2> HIDE DEF m
  <2>5. MemoryOK(n)
    <3> DEFINE none == {}
    <3>1. none \in SUBSET Buffers /\ "sector" \in Buffers \ none /\ \A y \in none : Held(m, y)
      BY <2>1
    <3> HIDE DEF none
    <3> QED
      BY <2>3, <3>1, UseKeeps
  <2>6. \A x \in UsedAt("idle") : FALSE
    BY InUseIs
  <2> HIDE DEF n
  <2> QED
    BY <2>4, <2>5, <2>6, GoSafe DEF Labels
<1>2. ASSUME NEW d \in Cds, NEW p \in Paths, Read(d, p) PROVE Safe'
  <2> DEFINE xs == <<"list", "path", "reversed">>
             ys == <<"name", "list">>
             first == {"list", "path", "reversed"}
             all == {"list", "path", "reversed", "name"}
             k == Reversing(Takes(mem, xs))
             m == Takes(k, ys)
             n == IF p.dirs = <<>> THEN m ELSE Reversing(m)
  <2>1. /\ xs \in Seq(Buffers) /\ Range(xs) = first /\ ys \in Seq(Buffers) /\ Range(ys) = {"name", "list"}
        /\ first \subseteq Buffers /\ first \subseteq all /\ all = first \cup {"name", "list"}
    <3>1. xs \in Seq(Buffers) /\ ys \in Seq(Buffers)
      <4>1. <<"list", "path", "reversed">> \in Seq(Buffers)
        BY NamedBuffers, SequencesAre, Zenon
      <4>2. <<"name", "list">> \in Seq(Buffers)
        BY NamedBuffers, SequencesAre, Zenon
      <4> QED
        BY <4>1, <4>2
    <3>2. Range(xs) = first /\ Range(ys) = {"name", "list"}
      <4>1. \A a, b, c : Range(<<a, b, c>>) = {a, b, c}
        BY RangesAre
      <4>2. \A a, b : Range(<<a, b>>) = {a, b}
        BY RangesAre
      <4> QED
        BY <4>1, <4>2
    <3>3. first \subseteq Buffers /\ first \subseteq all /\ all = first \cup {"name", "list"}
      BY NamedBuffers
    <3> QED
      BY <3>1, <3>2, <3>3
  <2>2. Go("cleaned", n)
    BY <1>2 DEF Read
  <2>3. ToDir \subseteq all
    BY DEF ToDir
  <2> HIDE DEF xs, ys, first, n, m, k
  <2>4. MemoryOK(Takes(mem, xs)) /\ (Takes(mem, xs).ok => \A x \in first : Held(Takes(mem, xs), x))
    <3> DEFINE none == {}
    <3>1. none \subseteq Buffers /\ \A x \in none : Held(mem, x)
      OBVIOUS
    <3> HIDE DEF none
    <3> QED
      BY <1>0, <2>1, <3>1, Taken
  <2>5. MemoryOK(k) /\ (k.ok => \A x \in first : Held(k, x))
    BY <2>1, <2>4, ReversingKeeps DEF k
  <2>6. MemoryOK(m) /\ (m.ok => \A x \in all : Held(m, x))
    BY <2>1, <2>5, Taken DEF m
  <2>7. MemoryOK(n) /\ (n.ok => \A x \in all : Held(n, x))
    <3> HIDE DEF all
    <3>1. all \in SUBSET {"list", "path", "reversed", "name"}
      BY DEF all
    <3> QED
      BY <2>6, <3>1, ReversingKeeps DEF n
  <2>8. n.ok => \A x \in UsedAt("cleaned") : Held(n, x)
    BY <2>3, <2>7, InUseIs
  <2> QED
    BY <2>2, <2>7, <2>8, GoSafe DEF Labels
<1>3. CASE WrongDrive
  BY <1>3, StaySafe, InUseIs DEF WrongDrive
<1>4. CASE InRoot
  BY <1>4, StaySafe, InUseIs DEF InRoot
<1>5. CASE InDirectory
  <2> DEFINE xs == <<"copy", "first">>
  <2>1. xs \in Seq(Buffers) /\ ToScan \subseteq ToDir \cup Range(xs)
    <3>1. xs \in Seq(Buffers)
      BY NamedBuffers, SequencesAre
    <3>2. Range(xs) = {"copy", "first"}
      BY RangesAre, Zenon
    <3> QED
      BY <3>1, <3>2 DEF ToDir, ToScan
  <2> HIDE DEF xs
  <2>2. pc = "cleaned" /\ Go("scan", Takes(mem, xs))
    BY <1>5 DEF InDirectory, xs
  <2>3. MemoryOK(Takes(mem, xs)) /\ (Takes(mem, xs).ok => \A x \in ToScan : Held(Takes(mem, xs), x))
    <3>1. mem.ok => \A x \in ToDir : Held(mem, x)
      BY <1>0, <2>2, InUseIs
    <3> QED
      BY <1>0, <2>1, <3>1, Taken
  <2> QED
    BY <2>2, <2>3, GoSafe, InUseIs DEF Labels
<1>6. CASE NextSector
  <2> DEFINE m == Use(mem, "sector")
  <2>1. pc = "scan" /\ Go("scan", m)
    BY <1>6 DEF NextSector
  <2>2. MemoryOK(m) /\ (m.ok => \A x \in ToScan : Held(m, x))
    <3>1. mem.ok => \A x \in ToScan : Held(mem, x)
      BY <1>0, <2>1, InUseIs
    <3>2. "sector" \in Buffers \ ToScan
      BY DEF Buffers, ToScan
    <3> QED
      BY <1>0, <3>1, <3>2, UseKeeps
  <2> HIDE DEF m
  <2> QED
    BY <2>1, <2>2, GoSafe, InUseIs DEF Labels
<1>7. CASE Hit
  <2> DEFINE xs == <<"sector", "entry", "parents">>
  <2>1. xs \in Seq(Buffers) /\ ToParents \subseteq ToScan \cup Range(xs)
    <3>1. xs \in Seq(Buffers)
      BY NamedBuffers, SequencesAre, Zenon
    <3>2. Range(xs) = {"sector", "entry", "parents"}
      <4>1. \A a, b, c : Range(<<a, b, c>>) = {a, b, c}
        BY RangesAre
      <4> QED
        BY <4>1
    <3> QED
      BY <3>1, <3>2 DEF ToParents, ToScan
  <2> HIDE DEF xs
  <2>2. pc = "scan" /\ Go("parents", Takes(mem, xs))
    BY <1>7 DEF Hit, Found, xs
  <2>3. MemoryOK(Takes(mem, xs)) /\ (Takes(mem, xs).ok => \A x \in ToParents : Held(Takes(mem, xs), x))
    <3>1. mem.ok => \A x \in ToScan : Held(mem, x)
      BY <1>0, <2>2, InUseIs
    <3> QED
      BY <1>0, <2>1, <3>1, Taken
  <2> QED
    BY <2>2, <2>3, GoSafe, InUseIs DEF Labels
<1>8. CASE NoHit
  BY <1>8, StaySafe, InUseIs DEF NoHit
<1>9. CASE CheckEndless
  <2>1. PICK n \in 1..ParentsSeen, label \in {"endless", "astray"} : Go(label, Takes(mem, SectorsRead(n)))
    BY <1>9 DEF CheckEndless
  <2>2. ParentsSeen \in Nat
    <3>1. Len(Words) \in Nat
      BY <1>9, WordsAre, LenProperties DEF CheckEndless, Somewhere
    <3> QED
      BY <3>1 DEF ParentsSeen, Parents
  <2>3. SectorsRead(n) \in Seq(Buffers)
    BY <2>2, ParentsRead
  <2>4. MemoryOK(Takes(mem, SectorsRead(n)))
    BY <1>0, <2>3, TakesKeep
  <2>5. \A x \in UsedAt(label) : FALSE
    BY InUseIs
  <2> QED
    BY <2>1, <2>4, <2>5, GoSafe DEF Stops
<1>15. CASE ReadAgain
  <2> DEFINE xs == <<"sector">>
  <2>1. xs \in Seq(Buffers) /\ Take(mem, "sector") = Takes(mem, xs)
    BY SequencesAre DEF Buffers, Take
  <2> HIDE DEF xs
  <2>2. Go("endless", Takes(mem, xs))
    BY <1>15, <2>1 DEF ReadAgain
  <2>3. MemoryOK(Takes(mem, xs))
    BY <1>0, <2>1, TakesKeep
  <2>4. \A x \in UsedAt("endless") : FALSE
    BY InUseIs
  <2> QED
    BY <2>2, <2>3, <2>4, GoSafe DEF Stops
<1>16. CASE Spurious
  BY <1>16, StaySafe, InUseIs DEF Spurious
<1>17. CASE Torn
  BY <1>17, StaySafe, InUseIs DEF Torn
<1>10. CASE ParentsFit
  <2> DEFINE xs == Append(SectorsRead(ParentsSeen), "parent")
             ys == <<"parent", "parents">>
             zs == <<"copy", "first", "parents", "entry">>
             m == IF ParentsSeen = 0 THEN mem ELSE Gives(Takes(mem, xs), ys)
  <2>0. ParentsSeen \in Nat
    <3>1. Len(Words) \in Nat
      BY <1>10, WordsAre, LenProperties DEF ParentsFit, Somewhere
    <3> QED
      BY <3>1 DEF ParentsSeen, Parents
  <2>1. xs \in Seq(Buffers) /\ "parent" \in Range(xs)
    BY <2>0, ParentsRead
  <2>2. /\ ys \in Seq(Buffers) /\ Range(ys) = {"parent", "parents"}
        /\ zs \in Seq(Buffers) /\ Range(zs) = {"copy", "first", "parents", "entry"}
    <3>1. {"copy", "first", "parent", "parents", "entry"} \subseteq Buffers
      BY DEF Buffers, Strings
    <3>2. ys \in Seq(Buffers) /\ zs \in Seq(Buffers)
      BY <3>1, SequencesAre
    <3>3. Range(ys) = {"parent", "parents"}
      BY RangesAre
    <3>4. Range(zs) = {"copy", "first", "parents", "entry"}
      BY RangesAre
    <3> QED
      BY <3>2, <3>3, <3>4
  <2>3. pc = "parents" /\ Go("dir", Gives(m, zs))
    BY <1>10 DEF ParentsFit
  <2>4. mem.ok => \A x \in ToParents : Held(mem, x)
    BY <1>0, <2>3, InUseIs
  <2> HIDE DEF xs, ys, zs
  <2> DEFINE left == ToParents \ Range(ys)
  <2>5. /\ MemoryOK(m)
        /\ m.ok => /\ \A x \in left : Held(m, x)
                   /\ \A x \in Range(zs) : x \in left \/ Held(m, x) \/ m.at[x] = "freed"
    <3>1. \A x \in Range(zs) : x \in left \/ x = "parents"
      BY <2>2 DEF ToParents
    <3>2. CASE ParentsSeen = 0
      <4>1. m = mem /\ "parents" \in ToParents /\ left \subseteq ToParents
        BY <3>2 DEF ToParents
      <4> QED
        BY <1>0, <2>4, <3>1, <4>1
    <3>3. CASE ParentsSeen # 0
      <4> DEFINE n == Takes(mem, xs)
                 used == ToParents \cup Range(xs)
      <4>1. MemoryOK(n) /\ (n.ok => \A x \in used : Held(n, x))
        BY <1>0, <2>1, <2>4, Taken
      <4>2. used \subseteq Buffers /\ Range(ys) \subseteq used /\ left \subseteq used \ Range(ys) /\ "parents" \in Range(ys)
        <5>1. Range(xs) \subseteq Buffers
          BY <2>1 DEF Range
        <5>2. "parents" \in ToParents
          BY DEF ToParents
        <5> QED
          BY <1>0, <2>1, <2>2, <5>1, <5>2
      <4> HIDE DEF n, used, left
      <4>3. MemoryOK(Gives(n, ys)) /\ (Gives(n, ys).ok => /\ \A x \in used \ Range(ys) : Held(Gives(n, ys), x)
                                                         /\ \A x \in Range(ys) : Gives(n, ys).at[x] = "freed")
        BY <2>2, <4>1, <4>2, Given
      <4>4. m = Gives(n, ys)
        BY <3>3 DEF n
      <4> HIDE DEF m
      <4> QED
        BY <3>1, <4>2, <4>3, <4>4
    <3> QED
      BY <3>2, <3>3
  <2> HIDE DEF m
  <2> DEFINE held == {x \in Buffers : Held(m, x)}
  <2>6. /\ m.ok => \A x \in Range(zs) : x \in held \/ m.at[x] = "freed"
        /\ m.ok => ToDir \subseteq held \ Range(zs)
    <3>1. \A x \in Range(zs) : x \in Buffers
      BY <2>2 DEF Range
    <3>2. ToDir \subseteq left /\ \A x \in ToDir : x \notin Range(zs) /\ x \in Buffers
      BY <1>0, <2>2 DEF ToParents, ToDir
    <3>3. left \subseteq Buffers
      BY <1>0
    <3> HIDE DEF left
    <3> QED
      BY <2>5, <3>1, <3>2, <3>3
  <2>7. /\ MemoryOK(Gives(m, zs))
        /\ Gives(m, zs).ok => m.ok /\ \A x \in held \ Range(zs) : Held(Gives(m, zs), x)
    <3>1. held \subseteq Buffers /\ \A x \in held : Held(m, x)
      OBVIOUS
    <3> HIDE DEF held
    <3> QED
      BY <2>2, <2>5, <2>6, <3>1, Given
  <2>8. Gives(m, zs).ok => \A x \in ToDir : Held(Gives(m, zs), x)
    <3> HIDE DEF held
    <3> QED
      BY <2>6, <2>7
  <2> QED
    BY <2>3, <2>7, <2>8, GoSafe, InUseIs DEF Labels
<1>11. CASE ParentsDiffer
  <2>1. PICK n \in 0..ParentsSeen - 1 :
           Go("scan", Gives(Takes(mem, Append(SectorsRead(n + 1), "parent")), <<"entry", "parents">>))
    BY <1>11 DEF ParentsDiffer
  <2> DEFINE xs == Append(SectorsRead(n + 1), "parent")
             ys == <<"entry", "parents">>
             m == Takes(mem, xs)
             used == ToParents \cup Range(xs)
  <2>2. xs \in Seq(Buffers) /\ Range(xs) \subseteq {"sector", "parent"}
    <3>1. n + 1 \in Nat
      OBVIOUS
    <3> QED
      BY <3>1, ParentsRead
  <2>3. ys \in Seq(Buffers) /\ Range(ys) = {"entry", "parents"}
    BY RangesAre, SequencesAre DEF Buffers, Strings
  <2>4. pc = "parents" /\ Go("scan", Gives(m, ys))
    BY <1>11, <2>1 DEF ParentsDiffer
  <2> HIDE DEF xs, ys
  <2>5. MemoryOK(m) /\ (m.ok => \A x \in used : Held(m, x))
    <3>1. mem.ok => \A x \in ToParents : Held(mem, x)
      BY <1>0, <2>4, InUseIs
    <3> QED
      BY <1>0, <2>2, <3>1, Taken
  <2>6. used \subseteq Buffers /\ Range(ys) \subseteq used /\ ToScan \subseteq used \ Range(ys)
    <3>1. Range(xs) \subseteq Buffers
      BY <2>2 DEF Range
    <3>2. ToScan \subseteq ToParents \ Range(ys) /\ Range(ys) \subseteq ToParents
      BY <2>3 DEF ToScan, ToParents
    <3> QED
      BY <1>0, <3>1, <3>2
  <2> HIDE DEF m, used
  <2>7. MemoryOK(Gives(m, ys)) /\ (Gives(m, ys).ok => \A x \in used \ Range(ys) : Held(Gives(m, ys), x))
    BY <2>3, <2>5, <2>6, Given
  <2>8. Gives(m, ys).ok => \A x \in ToScan : Held(Gives(m, ys), x)
    BY <2>6, <2>7
  <2> QED
    BY <2>4, <2>7, <2>8, GoSafe, InUseIs DEF Labels
<1>12. CASE SearchDir
  <2> DEFINE m == Use(mem, "sector")
             n == Use(m, "listing")
             ys == <<"path", "name">>
  <2>1. pc = "dir" /\ Go("found", Gives(n, ys))
    BY <1>12 DEF SearchDir
  <2>2. mem.ok => \A x \in ToDir : Held(mem, x)
    BY <1>0, <2>1, InUseIs
  <2>3. "sector" \in Buffers \ ToDir /\ "listing" \in Buffers \ ToDir
    BY DEF Buffers, ToDir
  <2>4. MemoryOK(m) /\ (m.ok => \A x \in ToDir : Held(m, x))
    BY <1>0, <2>2, <2>3, UseKeeps
  <2> HIDE DEF m
  <2>5. MemoryOK(n) /\ (n.ok => \A x \in ToDir : Held(n, x))
    BY <1>0, <2>3, <2>4, UseKeeps
  <2>6. ys \in Seq(Buffers) /\ Range(ys) \subseteq ToDir
    BY RangesAre, SequencesAre DEF Buffers, Strings, ToDir
  <2> HIDE DEF n, ys
  <2>7. MemoryOK(Gives(n, ys))
    BY <1>0, <2>5, <2>6, Given
  <2>8. \A x \in UsedAt("found") : FALSE
    BY InUseIs
  <2> QED
    BY <2>1, <2>7, <2>8, GoSafe DEF Labels
<1>18. CASE NotReached
  <2> DEFINE xs == <<"listing">>
             m == Use(mem, "sector")
             none == {}
  <2>1. PICK label \in {"halted", "astray"} : Go(label, Take(m, "listing"))
    BY <1>18 DEF NotReached
  <2>2. xs \in Seq(Buffers) /\ Take(m, "listing") = Takes(m, xs)
    BY SequencesAre DEF Buffers, Take
  <2>3. none \in SUBSET Buffers /\ "sector" \in Buffers \ none /\ \A y \in none : Held(mem, y)
    BY DEF Buffers
  <2> HIDE DEF xs, none
  <2>4. MemoryOK(m)
    BY <1>0, <2>3, UseKeeps
  <2> HIDE DEF m
  <2>5. MemoryOK(Takes(m, xs))
    BY <2>2, <2>4, TakesKeep
  <2>6. \A x \in UsedAt(label) : FALSE
    BY InUseIs
  <2> QED
    BY <2>1, <2>2, <2>5, <2>6, GoSafe DEF Stops
<1>13. CASE Return
  <2> DEFINE xs == <<"list", "contents">>
  <2>1. xs \in Seq(Buffers)
    BY SequencesAre DEF Buffers, Strings
  <2> HIDE DEF xs
  <2>2. Go("idle", Takes(mem, xs))
    BY <1>13 DEF Return, xs
  <2>3. MemoryOK(Takes(mem, xs))
    BY <1>0, <2>1, TakesKeep
  <2>4. \A x \in UsedAt("idle") : FALSE
    BY InUseIs
  <2> QED
    BY <2>2, <2>3, <2>4, GoSafe DEF Labels
<1>14. CASE UNCHANGED vars
  BY <1>14 DEF vars, Safe, InUse, MemoryOK, Memories, Holding, Held
<1> QED
  BY <1>1, <1>2, <1>3, <1>4, <1>5, <1>6, <1>7, <1>8, <1>9, <1>10, <1>11, <1>12, <1>13, <1>14,
     <1>15, <1>16, <1>17, <1>18 DEF Next, Driver
-----------------------------------------------------------------------------
(* Names, of which the driver compares prefixes.                               *)

LEMMA PrefixIs ==
    ASSUME NEW T, NEW s \in Seq(T), NEW t \in Seq(T)
    PROVE  IsPrefix(s, t) <=> Len(s) <= Len(t) /\ \A i \in 1..Len(s) : s[i] = t[i]
<1>1. Len(s) \in Nat /\ Len(t) \in Nat /\ SubSeq(s, 1, Len(s)) = s
  BY LenProperties, SubSeqFull
<1>2. ASSUME Len(s) <= Len(t)
      PROVE  SubSeq(t, 1, Len(s)) = s <=> \A i \in 1..Len(s) : s[i] = t[i]
  <2> DEFINE u == SubSeq(t, 1, Len(s))
  <2>1. \A i \in 1..Len(s) : t[i] \in T
    BY <1>1, <1>2, ElementOfSeq
  <2>2. u \in Seq(T) /\ Len(u) = (IF 1 <= Len(s) THEN Len(s) - 1 + 1 ELSE 0)
        /\ \A i \in 1..Len(s) - 1 + 1 : u[i] = t[1 + i - 1]
    BY <1>1, <2>1, SubSeqProperties
  <2>3. Len(u) = Len(s) /\ \A i \in 1..Len(s) : u[i] = t[i]
    BY <1>1, <2>2
  <2> HIDE DEF u
  <2>4. u = s <=> \A i \in 1..Len(s) : u[i] = s[i]
    BY <2>2, <2>3, SeqEqual
  <2> QED
    BY <2>3, <2>4 DEF u
<1> QED
  BY <1>1, <1>2 DEF IsPrefix

\* A name is like itself; and a name that is like one with something behind it is
\* like that one.
LEMMA AlikeIs ==
    ASSUME NEW T, NEW s \in Seq(T), NEW t \in Seq(T), NEW junk \in Seq(T)
    PROVE  /\ IsPrefix(s, s) /\ Alike(s, s \o junk)
           /\ Alike(s, t \o junk) => Alike(s, t)
<1> DEFINE u == t \o junk
           v == s \o junk
<1>1. u \in Seq(T) /\ Len(u) = Len(t) + Len(junk) /\ \A i \in 1..Len(t) + Len(junk) : i <= Len(t) => u[i] = t[i]
  BY ConcatProperties
<1>2. v \in Seq(T) /\ Len(v) = Len(s) + Len(junk) /\ \A i \in 1..Len(s) + Len(junk) : i <= Len(s) => v[i] = s[i]
  BY ConcatProperties
<1>3. Len(s) \in Nat /\ Len(t) \in Nat /\ Len(junk) \in Nat
  BY LenProperties
<1> HIDE DEF u, v
<1>4. IsPrefix(s, s)
  BY <1>3, PrefixIs
<1>5. IsPrefix(s, v)
  BY <1>2, <1>3, PrefixIs
<1>6. ASSUME IsPrefix(s, u) PROVE Alike(s, t)
  <2>1. Len(s) <= Len(u) /\ \A i \in 1..Len(s) : s[i] = u[i]
    BY <1>1, <1>6, PrefixIs
  <2>2. CASE Len(s) <= Len(t)
    <3>1. \A i \in 1..Len(s) : s[i] = t[i]
      BY <1>1, <1>3, <2>1, <2>2
    <3> QED
      BY <2>2, <3>1, PrefixIs DEF Alike
  <2>3. CASE Len(t) <= Len(s)
    <3>1. \A i \in 1..Len(t) : t[i] = s[i]
      BY <1>1, <1>3, <2>1, <2>3
    <3> QED
      BY <2>3, <3>1, PrefixIs DEF Alike
  <2> QED
    BY <1>3, <2>2, <2>3
<1>7. ASSUME IsPrefix(u, s) PROVE Alike(s, t)
  <2>1. Len(u) <= Len(s) /\ \A i \in 1..Len(u) : u[i] = s[i]
    BY <1>1, <1>7, PrefixIs
  <2>2. Len(t) <= Len(s) /\ Len(t) <= Len(u)
    BY <1>1, <1>3, <2>1
  <2>3. \A i \in 1..Len(t) : t[i] = s[i]
    BY <1>1, <1>3, <2>1, <2>2
  <2> QED
    BY <2>2, <2>3, PrefixIs DEF Alike
<1> QED
  BY <1>4, <1>5, <1>6, <1>7 DEF Alike, u, v
-----------------------------------------------------------------------------
(* The paths of directories, and the way up from one.                          *)

LEMMA NatInd ==
    ASSUME NEW S, 0 \in S, \A n \in Nat : n \in S => n + 1 \in S
    PROVE  Nat \subseteq S
<1> SUFFICES ASSUME Nat \ S # {} PROVE FALSE
  OBVIOUS
<1>1. PICK n \in Nat \ S : \A m \in Nat \ S : n <= m
  <2>1. Nat \ S \in SUBSET Nat
    OBVIOUS
  <2> QED
    BY <2>1, SmallestIsMember
<1>2. n - 1 \in Nat /\ n - 1 \in S
  BY <1>1
<1> QED
  BY <1>1, <1>2

LEMMA PathUnfolds ==
    ASSUME Typed, drive \in Cds
    PROVE  \A i \in DOMAIN Table :
              PathOf[i] = IF i = 1 THEN <<>> ELSE Append(PathOf[Table[i].parent], Table[i].name)
<1> DEFINE Body(f, i) == IF i = 1 THEN <<>> ELSE Append(f[Table[i].parent], Table[i].name)
           N == Len(Table)
           S == {n \in Nat : n <= N => \E f : f = [i \in 1..n |-> Body(f, i)]}
<1>0. N \in Nat \ {0} /\ DOMAIN Table = 1..N /\ \A i \in 2..N : Table[i].parent \in 1..i - 1
  BY VolumeIs DEF Table
<1>a. PathOf = CHOOSE h : h = [i \in DOMAIN Table |-> Body(h, i)]
  BY DEF PathOf
<1>b. \A f, g, i : (i = 1 \/ f[Table[i].parent] = g[Table[i].parent]) => Body(f, i) = Body(g, i)
  OBVIOUS
<1>c. \A i \in DOMAIN Table : Body(PathOf, i) = IF i = 1 THEN <<>> ELSE Append(PathOf[Table[i].parent], Table[i].name)
  OBVIOUS
<1> HIDE DEF N, Body
<1>1. 0 \in S
  <2> DEFINE g == [i \in 1..0 |-> Body(<<>>, i)]
  <2>1. g = [i \in 1..0 |-> Body(g, i)]
    OBVIOUS
  <2> HIDE DEF g
  <2> QED
    BY <2>1
<1>2. ASSUME NEW n \in Nat, n \in S PROVE n + 1 \in S
  <2> SUFFICES ASSUME n + 1 <= N PROVE \E f : f = [i \in 1..n + 1 |-> Body(f, i)]
    OBVIOUS
  <2>1. PICK f : f = [i \in 1..n |-> Body(f, i)]
    BY <1>0, <1>2
  <2> DEFINE g == [i \in 1..n + 1 |-> Body(f, i)]
  <2>2. \A i \in 1..n : g[i] = f[i]
    BY <2>1
  <2>3. g = [i \in 1..n + 1 |-> Body(f, i)]
    OBVIOUS
  <2> HIDE DEF g
  <2>4. \A i \in 1..n + 1 : Body(f, i) = Body(g, i)
    <3> SUFFICES ASSUME NEW i \in 1..n + 1 PROVE i = 1 \/ f[Table[i].parent] = g[Table[i].parent]
      BY <1>b
    <3>1. i # 1 => Table[i].parent \in 1..n
      BY <1>0
    <3> QED
      BY <2>2, <3>1
  <2>5. g = [i \in 1..n + 1 |-> Body(g, i)]
    BY <2>3, <2>4
  <2> QED
    BY <2>5
<1>3. \E h : h = [i \in DOMAIN Table |-> Body(h, i)]
  <2>1. N \in S
    <3> HIDE DEF S
    <3> QED
      BY <1>0, <1>1, <1>2, NatInd
  <2> QED
    BY <1>0, <2>1
<1>4. PathOf = [i \in DOMAIN Table |-> Body(PathOf, i)]
  BY <1>3, <1>a
<1> QED
  BY <1>4, <1>c

LEMMA UpUnfolds ==
    ASSUME Len(Words) \in Nat
    PROVE  /\ Up[0] = dir
           /\ \A k \in 1..Len(Words) : Up[k] = IF Up[k - 1] <= 1 THEN 1 ELSE Table[Up[k - 1]].parent
<1> DEFINE Body(f, k) == IF k = 0 THEN dir ELSE IF f[k - 1] <= 1 THEN 1 ELSE Table[f[k - 1]].parent
           N == Len(Words)
           S == {n \in Nat : \E f : f = [k \in 0..n |-> Body(f, k)]}
<1>0. N \in Nat
  OBVIOUS
<1>a. Up = CHOOSE h : h = [k \in 0..N |-> Body(h, k)]
  BY DEF Up
<1>b. \A f, g, k : (k = 0 \/ f[k - 1] = g[k - 1]) => Body(f, k) = Body(g, k)
  OBVIOUS
<1>c. /\ Body(Up, 0) = dir
      /\ \A k \in 1..N : Body(Up, k) = IF Up[k - 1] <= 1 THEN 1 ELSE Table[Up[k - 1]].parent
  OBVIOUS
<1> HIDE DEF N, Body
<1>1. 0 \in S
  <2> DEFINE g == [k \in 0..0 |-> Body(<<>>, k)]
  <2>1. g = [k \in 0..0 |-> Body(g, k)]
    BY <1>b
  <2> HIDE DEF g
  <2> QED
    BY <2>1
<1>2. ASSUME NEW n \in Nat, n \in S PROVE n + 1 \in S
  <2>1. PICK f : f = [k \in 0..n |-> Body(f, k)]
    BY <1>2
  <2> DEFINE g == [k \in 0..n + 1 |-> Body(f, k)]
  <2>2. \A k \in 0..n : g[k] = f[k]
    BY <2>1
  <2>3. g = [k \in 0..n + 1 |-> Body(f, k)]
    OBVIOUS
  <2> HIDE DEF g
  <2>4. \A k \in 0..n + 1 : Body(f, k) = Body(g, k)
    <3> SUFFICES ASSUME NEW k \in 0..n + 1 PROVE k = 0 \/ f[k - 1] = g[k - 1]
      BY <1>b
    <3>1. k # 0 => k - 1 \in 0..n
      OBVIOUS
    <3> QED
      BY <2>2, <3>1
  <2>5. g = [k \in 0..n + 1 |-> Body(g, k)]
    BY <2>3, <2>4
  <2> QED
    BY <2>5
<1>3. \E h : h = [k \in 0..N |-> Body(h, k)]
  <2>1. N \in S
    <3> HIDE DEF S
    <3> QED
      BY <1>0, <1>1, <1>2, NatInd
  <2> QED
    BY <2>1
<1>4. Up = [k \in 0..N |-> Body(Up, k)]
  BY <1>3, <1>a
<1>5. \A k \in 0..N : Up[k] = Body(Up, k)
  BY <1>4
<1>6. 0 \in 0..N /\ 1..N \subseteq 0..N
  BY <1>0
<1> QED
  BY <1>5, <1>6, <1>c DEF N

\* The path of a directory is that of the one above it and its name, and all its words
\* are names of directories.
PathIs(i) ==
    LET p == Table[i].parent
    IN  /\ PathOf[i] \in Seq(Name) /\ Len(PathOf[i]) \in Nat
        /\ i = 1 => Len(PathOf[i]) = 0
        /\ i # 1 => /\ p \in 1..i - 1
                    /\ Len(PathOf[i]) = Len(PathOf[p]) + 1
                    /\ PathOf[i][Len(PathOf[i])] = Table[i].name
                    /\ \A k \in 1..Len(PathOf[p]) : PathOf[i][k] = PathOf[p][k]
        /\ \A k \in 1..Len(PathOf[i]) : \E j \in 2..Len(Table) : Table[j].name = PathOf[i][k]

LEMMA PathsAre ==
    ASSUME Typed, drive \in Cds
    PROVE  \A i \in DOMAIN Table : PathIs(i)
<1> DEFINE N == Len(Table)
           S == {n \in Nat : \A i \in 1..N : i <= n => PathIs(i)}
<1>0. /\ N \in Nat \ {0} /\ DOMAIN Table = 1..N /\ Table \in Seq([name : Name, parent : Nat])
      /\ \A i \in 2..N : Table[i].parent \in 1..i - 1
  BY VolumeIs DEF Table
<1>1. 0 \in S
  BY <1>0
<1>2. ASSUME NEW n \in Nat, n \in S PROVE n + 1 \in S
  <2> SUFFICES ASSUME NEW i \in 1..N, i = n + 1 PROVE PathIs(i)
    <3>1. \A i \in 1..N : i <= n + 1 => i <= n \/ i = n + 1
      BY <1>0
    <3> QED
      BY <1>2, <3>1
  <2>1. CASE i = 1
    <3>1. PathOf[i] = <<>>
      BY <1>0, <2>1, PathUnfolds
    <3>2. <<>> \in Seq(Name) /\ Len(<<>>) = 0
      BY EmptySeq
    <3>3. PathOf[i] \in Seq(Name) /\ Len(PathOf[i]) = 0
      BY <3>1, <3>2, Zenon
    <3>4. Len(PathOf[i]) \in Nat /\ \A k \in 1..Len(PathOf[i]) : FALSE
      BY <3>3
    <3> QED
      BY <2>1, <3>3, <3>4 DEF PathIs
  <2>2. CASE i # 1
    <3> DEFINE p == Table[i].parent
               s == PathOf[p]
               x == Table[i].name
               t == Append(s, x)
    <3>1. p \in 1..i - 1 /\ p <= n /\ p \in 1..N /\ i \in 2..N
      BY <1>0, <2>2
    <3>2. s \in Seq(Name) /\ Len(s) \in Nat /\ \A k \in 1..Len(s) : \E j \in 2..N : Table[j].name = s[k]
      BY <1>2, <3>1 DEF PathIs
    <3>3. x \in Name
      <4>1. Table[i] \in [name : Name, parent : Nat]
        BY <1>0, ElementOfSeq
      <4> QED
        BY <4>1
    <3>4. PathOf[i] = t
      BY <1>0, <2>2, PathUnfolds
    <3> HIDE DEF s, x, p, N
    <3>5. /\ t \in Seq(Name) /\ Len(t) = Len(s) + 1 /\ t[Len(s) + 1] = x
          /\ \A k \in 1..Len(s) : t[k] = s[k]
      BY <3>2, <3>3, AppendProperties
    <3> HIDE DEF t
    <3>6. \A k \in 1..Len(t) : \E j \in 2..N : Table[j].name = t[k]
      <4>1. \A k \in 1..Len(t) : k \in 1..Len(s) \/ k = Len(s) + 1
        BY <3>2, <3>5
      <4>2. Table[i].name = t[Len(s) + 1] /\ i \in 2..N
        BY <3>1, <3>5 DEF x
      <4> QED
        BY <3>2, <3>5, <4>1, <4>2
    <3>7. Len(t) \in Nat
      BY <3>2, <3>5
    <3> QED
      BY <2>2, <3>1, <3>4, <3>5, <3>6, <3>7 DEF PathIs, s, p, x, N
  <2> QED
    BY <2>1, <2>2
<1>3. N \in S
  <2> HIDE DEF S
  <2> QED
    BY <1>0, <1>1, <1>2, NatInd
<1> QED
  BY <1>0, <1>3

LEMMA PathsDiffer ==
    ASSUME Typed, drive \in Cds, NamesClear
    PROVE  \A i, j \in DOMAIN Table : PathOf[i] = PathOf[j] => i = j
<1> DEFINE N == Len(Table)
           S == {n \in Nat : \A i, j \in 1..N : i <= n /\ PathOf[i] = PathOf[j] => i = j}
<1>0. /\ N \in Nat \ {0} /\ DOMAIN Table = 1..N /\ Table \in Seq([name : Name, parent : Nat])
      /\ \A i \in 1..N : PathIs(i)
  BY VolumeIs, PathsAre DEF Table
<1>1. 0 \in S
  BY <1>0
<1>2. ASSUME NEW n \in Nat, n \in S PROVE n + 1 \in S
  <2> SUFFICES ASSUME NEW i \in 1..N, NEW j \in 1..N, i = n + 1, PathOf[i] = PathOf[j] PROVE i = j
    <3>1. \A i \in 1..N : i <= n + 1 => i <= n \/ i = n + 1
      BY <1>0
    <3> QED
      BY <1>2, <3>1
  <2>1. PathIs(i) /\ PathIs(j)
    BY <1>0
  <2>2. CASE i = 1
    BY <2>1, <2>2 DEF PathIs
  <2>3. CASE j = 1
    BY <2>1, <2>3 DEF PathIs
  <2>4. CASE i # 1 /\ j # 1
    <3> DEFINE p == Table[i].parent
               q == Table[j].parent
    <3>1. /\ p \in 1..N /\ q \in 1..N /\ p <= n
          /\ Len(PathOf[p]) = Len(PathOf[q])
          /\ \A k \in 1..Len(PathOf[p]) : PathOf[p][k] = PathOf[q][k]
      <4>a. p \in 1..i - 1 /\ q \in 1..j - 1
        BY <2>1, <2>4 DEF PathIs
      <4>b. p \in 1..N /\ q \in 1..N /\ p <= n
        <5> HIDE DEF p, q
        <5> QED
          BY <1>0, <4>a
      <4>1. PathIs(p) /\ PathIs(q) /\ p \in 1..N /\ q \in 1..N /\ p <= n
        BY <1>0, <4>b
      <4>2. /\ Len(PathOf[p]) \in Nat /\ Len(PathOf[q]) \in Nat
            /\ Len(PathOf[i]) = Len(PathOf[p]) + 1 /\ Len(PathOf[j]) = Len(PathOf[q]) + 1
            /\ \A k \in 1..Len(PathOf[p]) : PathOf[i][k] = PathOf[p][k]
            /\ \A k \in 1..Len(PathOf[q]) : PathOf[j][k] = PathOf[q][k]
        BY <2>1, <2>4, <4>1 DEF PathIs
      <4> HIDE DEF p, q
      <4>3. Len(PathOf[p]) = Len(PathOf[q])
        BY <4>2
      <4> QED
        BY <4>1, <4>2, <4>3
    <3>2. PathOf[p] = PathOf[q]
      <4>1. PathOf[p] \in Seq(Name) /\ PathOf[q] \in Seq(Name)
        BY <1>0, <3>1 DEF PathIs
      <4> HIDE DEF p, q
      <4> QED
        BY <3>1, <4>1, SeqEqual
    <3>3. p = q
      BY <1>2, <3>1, <3>2
    <3>4. Table[i].name = Table[j].name
      BY <2>1, <2>4 DEF PathIs
    <3>5. Table[i] \in [name : Name, parent : Nat] /\ Table[j] \in [name : Name, parent : Nat]
      BY <1>0, ElementOfSeq
    <3>6. Table[i] = Table[j]
      BY <3>3, <3>4, <3>5
    <3>7. i \in 2..N /\ j \in 2..N
      BY <1>0, <2>4
    <3> QED
      BY <3>6, <3>7 DEF NamesClear
  <2> QED
    BY <2>2, <2>3, <2>4
<1>3. N \in S
  <2> HIDE DEF S
  <2> QED
    BY <1>0, <1>1, <1>2, NatInd
<1> QED
  BY <1>0, <1>3

\* Going up from a directory reads its path from the end, and then stays in the root.
LEMMA Climb ==
    ASSUME Typed, drive \in Cds, dir \in DOMAIN Table, Len(Words) \in Nat
    PROVE  \A k \in 0..Len(Words) :
              /\ Up[k] \in DOMAIN Table
              /\ k < Len(PathOf[dir]) => Up[k] # 1 /\ Table[Up[k]].name = PathOf[dir][Len(PathOf[dir]) - k]
              /\ k >= Len(PathOf[dir]) => Up[k] = 1
<1> DEFINE N == Len(Table)
           P == PathOf[dir]
           OnWay(k) == /\ Up[k] \in 1..N
                       /\ k <= Len(P) => /\ Len(PathOf[Up[k]]) = Len(P) - k
                                         /\ \A j \in 1..Len(P) - k : PathOf[Up[k]][j] = P[j]
                       /\ k >= Len(P) => Up[k] = 1
           S == {k \in Nat : k <= Len(Words) => OnWay(k)}
<1>0. /\ N \in Nat \ {0} /\ DOMAIN Table = 1..N /\ dir \in 1..N /\ \A i \in 1..N : PathIs(i)
  BY VolumeIs, PathsAre DEF Table
<1>1. \A i \in 1..N : /\ Len(PathOf[i]) \in Nat /\ (i = 1 <=> Len(PathOf[i]) = 0)
                      /\ i # 1 => LET p == Table[i].parent
                                  IN  /\ p \in 1..N /\ p # i
                                      /\ Len(PathOf[p]) = Len(PathOf[i]) - 1
                                      /\ PathOf[i][Len(PathOf[i])] = Table[i].name
                                      /\ \A k \in 1..Len(PathOf[i]) - 1 : PathOf[i][k] = PathOf[p][k]
  <2> SUFFICES ASSUME NEW i \in 1..N
               PROVE  /\ Len(PathOf[i]) \in Nat /\ (i = 1 <=> Len(PathOf[i]) = 0)
                      /\ i # 1 => LET p == Table[i].parent
                                  IN  /\ p \in 1..N /\ p # i
                                      /\ Len(PathOf[p]) = Len(PathOf[i]) - 1
                                      /\ PathOf[i][Len(PathOf[i])] = Table[i].name
                                      /\ \A k \in 1..Len(PathOf[i]) - 1 : PathOf[i][k] = PathOf[p][k]
    OBVIOUS
  <2>1. PathIs(i)
    BY <1>0
  <2>2. CASE i = 1
    BY <2>1, <2>2 DEF PathIs
  <2>3. CASE i # 1
    <3> DEFINE p == Table[i].parent
    <3>1. p \in 1..i - 1 /\ Len(PathOf[i]) = Len(PathOf[p]) + 1 /\ PathOf[i][Len(PathOf[i])] = Table[i].name
          /\ \A k \in 1..Len(PathOf[p]) : PathOf[i][k] = PathOf[p][k]
      BY <2>1, <2>3 DEF PathIs
    <3> HIDE DEF p
    <3>2. p \in 1..N /\ p # i
      BY <1>0, <3>1
    <3>3. Len(PathOf[p]) \in Nat
      BY <1>0, <3>2 DEF PathIs
    <3>4. Len(PathOf[p]) = Len(PathOf[i]) - 1 /\ Len(PathOf[i]) # 0 /\ Len(PathOf[i]) \in Nat
      BY <3>1, <3>3
    <3> QED
      BY <2>3, <3>1, <3>2, <3>3, <3>4 DEF p
  <2> QED
    BY <2>2, <2>3
<1>2. Len(P) \in Nat
  BY <1>0, <1>1
<1> HIDE DEF N
<1>3. 0 \in S
  <2>1. Up[0] = dir
    BY UpUnfolds
  <2>2. Len(P) - 0 = Len(P)
    BY <1>2
  <2>3. OnWay(0)
    BY <1>0, <1>1, <1>2, <2>1, <2>2
  <2> QED
    BY <2>3
<1>4. ASSUME NEW k \in Nat, k \in S PROVE k + 1 \in S
  <2> HIDE DEF OnWay
  <2> SUFFICES ASSUME k + 1 <= Len(Words) PROVE OnWay(k + 1)
    OBVIOUS
  <2>0. k <= Len(Words)
    OBVIOUS
  <2> DEFINE u == Up[k]
             v == Up[k + 1]
  <2>1. OnWay(k)
    BY <2>0, <1>4
  <2> USE DEF OnWay
  <2>2. v = IF u <= 1 THEN 1 ELSE Table[u].parent
    <3>1. k + 1 \in 1..Len(Words) /\ (k + 1) - 1 = k
      OBVIOUS
    <3> QED
      BY <3>1, UpUnfolds
  <2> HIDE DEF P
  <2>3. CASE k < Len(P)
    <3>1. u \in 1..N /\ Len(PathOf[u]) = Len(P) - k /\ \A j \in 1..Len(P) - k : PathOf[u][j] = P[j]
      <4>1. k <= Len(P)
        BY <2>3, <1>2
      <4> QED
        BY ONLY <2>1, <4>1 DEF u, OnWay
    <3> HIDE DEF u, v
    <3>2. u # 1 /\ ~(u <= 1)
      <4>1. Len(PathOf[u]) # 0
        BY <1>2, <2>3, <3>1
      <4>2. u # 1
        BY <1>1, <3>1, <4>1
      <4> QED
        BY <1>0, <3>1, <4>2
    <3>3. /\ v \in 1..N /\ Len(PathOf[v]) = Len(PathOf[u]) - 1
          /\ \A j \in 1..Len(PathOf[u]) - 1 : PathOf[u][j] = PathOf[v][j]
      BY <1>1, <2>2, <3>1, <3>2
    <3>4. Len(PathOf[v]) = Len(P) - (k + 1)
      BY <1>2, <3>1, <3>3
    <3>5. \A j \in 1..Len(P) - (k + 1) : PathOf[v][j] = P[j]
      BY <1>2, <3>1, <3>3
    <3>6. k + 1 >= Len(P) => v = 1
      BY <1>1, <1>2, <2>3, <3>3, <3>4
    <3> QED
      BY <3>3, <3>4, <3>5, <3>6 DEF v
  <2>4. CASE ~(k < Len(P))
    <3>1. u = 1 /\ u \in 1..N
      BY <1>2, <2>1, <2>4
    <3>2. v = 1 /\ v \in 1..N
      BY <2>2, <3>1
    <3> QED
      BY <1>2, <2>4, <3>2
  <2> QED
    BY <2>3, <2>4
<1>5. \A k \in 0..Len(Words) : OnWay(k)
  <2>1. \A k \in Nat : k \in S
    <3> HIDE DEF S
    <3> QED
      BY <1>3, <1>4, NatInd
  <2> HIDE DEF OnWay
  <2> QED
    BY <2>1
<1>6. ASSUME NEW k \in 0..Len(Words), k < Len(P) PROVE Up[k] # 1 /\ Table[Up[k]].name = P[Len(P) - k]
  <2> DEFINE u == Up[k]
  <2>1. u \in 1..N /\ Len(PathOf[u]) = Len(P) - k /\ \A j \in 1..Len(P) - k : PathOf[u][j] = P[j]
    BY <1>2, <1>5, <1>6
  <2> HIDE DEF u, P
  <2>2. u # 1
    BY <1>1, <1>2, <1>6, <2>1
  <2>3. Table[u].name = PathOf[u][Len(PathOf[u])]
    BY <1>1, <2>1, <2>2
  <2>4. Len(P) - k \in 1..Len(P) - k
    BY <1>2, <1>6
  <2> QED
    BY <2>1, <2>2, <2>3, <2>4 DEF u
<1> QED
  BY <1>0, <1>5, <1>6
-----------------------------------------------------------------------------
(* The words that are searched for, when the heap leaves little behind them.   *)

\* The reversed path is made of the directories, the innermost first; only its last
\* word may have something behind it, and that has no dot.
LEMMA ReversedIs ==
    ASSUME Typed, path \in Paths, HeapClear, path.dirs # <<>>
    PROVE  LET L == Len(path.dirs)
           IN  /\ L \in Nat \ {0} /\ path.dirs \in Seq(Name)
               /\ Reversed \in Seq(Name) /\ Len(Reversed) = L
               /\ \A i \in 1..L : \E junk \in Name : /\ Reversed[i] = path.dirs[L - i + 1] \o junk
                                                    /\ "." \notin Range(junk)
               /\ L > 2 => Reversed = Reverse(path.dirs)
<1> DEFINE d == path.dirs
           L == Len(d)
           t == stale.tail
           ws == Reverse(d)
<1>1. d \in Seq(Name) /\ t \in Seq(Name) /\ d # <<>>
  BY IsoAssumption DEF Typed
<1>2. Reversed = Tailed(ws, t) /\ Reversed \in Seq(Name)
  BY WordsAre DEF Reversed
<1>3. t = <<>> \/ (L <= 2 /\ Len(t) = 1 /\ "." \notin Range(t[1]))
  BY DEF HeapClear
<1> HIDE DEF d, t
<1>4. L \in Nat \ {0} /\ ws \in Seq(Name) /\ Len(ws) = L /\ \A i \in 1..L : ws[i] = d[L - i + 1]
  BY <1>1, EmptySeq, ReverseIs
<1> HIDE DEF ws, L
<1>5. <<>> \in Name /\ "." \notin Range(<<>>)
  BY EmptySeq DEF Name, Range
<1>6. \A i \in 1..L : d[L - i + 1] \in Name /\ d[L - i + 1] \o <<>> = d[L - i + 1]
  <2>1. \A i \in 1..L : L - i + 1 \in 1..Len(d)
    BY <1>4 DEF L
  <2>2. \A i \in 1..L : d[L - i + 1] \in Name
    BY <1>1, <2>1, ElementOfSeq
  <2> QED
    BY <2>2, ConcatEmptySeq DEF Name
<1>7. CASE t = <<>>
  <2>1. Reversed = ws
    BY <1>2, <1>7 DEF Tailed
  <2>2. \A i \in 1..L : Reversed[i] = d[L - i + 1] \o <<>>
    BY <1>4, <1>6, <2>1
  <2>3. \A i \in 1..L : \E junk \in Name : Reversed[i] = d[L - i + 1] \o junk /\ "." \notin Range(junk)
    BY <1>5, <2>2, Zenon
  <2> QED
    BY <1>1, <1>2, <1>4, <2>1, <2>3 DEF L, d, ws
<1>8. CASE t # <<>>
  <2> DEFINE front == Front(ws)
             word == ws[L] \o t[1]
             one == <<word>>
             both == front \o one
  <2>1. L <= 2 /\ Len(t) = 1 /\ "." \notin Range(t[1]) /\ t[1] \in Name
    <3>1. 1 \in 1..Len(t)
      BY <1>3, <1>8
    <3> QED
      BY <1>1, <1>3, <1>8, <3>1, ElementOfSeq
  <2>2. Tail(t) = <<>>
    <3>1. Tail(t) \in Seq(Name) /\ Len(Tail(t)) = 0
      BY <1>1, <1>8, <2>1, HeadTailProperties
    <3> QED
      BY <3>1, EmptySeq
  <2>3. Reversed = both \o <<>>
    <3>1. Last(ws) = ws[L] /\ Head(t) = t[1]
      BY <1>4 DEF Last
    <3> QED
      BY <1>2, <1>8, <2>2, <3>1 DEF Tailed
  <2>4. ws[L] \in Name /\ ws[L] = d[L - L + 1] /\ L \in 1..L
    BY <1>4, <1>6
  <2>5. word \in Name
    BY <2>1, <2>4, ConcatProperties DEF Name
  <2>6. one \in Seq(Name) /\ Len(one) = 1 /\ one[1] = word
    <3> HIDE DEF word
    <3> QED
      BY <2>5
  <2>7. front \in Seq(Name) /\ Len(front) = L - 1 /\ \A i \in 1..L - 1 : front[i] = ws[i]
    <3>1. \A i \in 1..L - 1 : ws[i] \in Name
      BY <1>4, ElementOfSeq
    <3> DEFINE f == SubSeq(ws, 1, L - 1)
    <3>2. f \in Seq(Name) /\ Len(f) = (IF 1 <= L - 1 THEN L - 1 - 1 + 1 ELSE 0)
          /\ \A i \in 1..L - 1 - 1 + 1 : f[i] = ws[1 + i - 1]
      BY <1>4, <3>1, SubSeqProperties
    <3>3. front = f
      BY <1>4 DEF Front
    <3> HIDE DEF f, front
    <3> QED
      BY <1>4, <3>2, <3>3
  <2> HIDE DEF front, one, word
  <2>8. /\ both \in Seq(Name) /\ Len(both) = Len(front) + Len(one)
        /\ \A i \in 1..Len(front) + Len(one) :
              both[i] = IF i <= Len(front) THEN front[i] ELSE one[i - Len(front)]
    BY <2>6, <2>7, ConcatProperties
  <2>9. Reversed = both
    BY <2>3, <2>8, ConcatEmptySeq
  <2> HIDE DEF both
  <2>10. Len(Reversed) = L /\ \A i \in 1..L : Reversed[i] = IF i < L THEN ws[i] ELSE word
    <3>1. Len(front) + Len(one) = L
      BY <1>4, <2>6, <2>7
    <3>2. Len(Reversed) = L
      BY <2>8, <2>9, <3>1
    <3>3. ASSUME NEW i \in 1..L, i < L PROVE Reversed[i] = ws[i]
      <4>1. i \in 1..L - 1 /\ i <= Len(front) /\ i \in 1..Len(front) + Len(one)
        BY <1>4, <2>7, <3>1, <3>3
      <4> QED
        BY <2>7, <2>8, <2>9, <4>1
    <3>4. Reversed[L] = word
      <4>1. ~(L <= Len(front)) /\ L - Len(front) = 1 /\ L \in 1..Len(front) + Len(one)
        BY <1>4, <2>7, <3>1
      <4> QED
        BY <2>6, <2>8, <2>9, <4>1
    <3>5. \A i \in 1..L : i < L \/ (~(i < L) /\ i = L)
      BY <1>4
    <3> QED
      BY <3>2, <3>3, <3>4, <3>5
  <2>11. \A i \in 1..L : \E junk \in Name : Reversed[i] = d[L - i + 1] \o junk /\ "." \notin Range(junk)
    <3> SUFFICES ASSUME NEW i \in 1..L
                 PROVE  \E junk \in Name : Reversed[i] = d[L - i + 1] \o junk /\ "." \notin Range(junk)
      OBVIOUS
    <3>1. CASE i < L
      <4>1. Reversed[i] = d[L - i + 1] \o <<>>
        BY <1>4, <1>6, <2>10, <3>1
      <4> QED
        BY <1>5, <4>1, Zenon
    <3>2. CASE ~(i < L)
      <4>1. i = L
        BY <1>4, <3>2
      <4>2. Reversed[i] = d[L - i + 1] \o t[1]
        BY <2>4, <2>10, <3>2, <4>1 DEF word
      <4> QED
        BY <2>1, <4>2
    <3> QED
      BY <3>1, <3>2
  <2> QED
    <3>1. ~(L > 2)
      BY <1>4, <2>1
    <3> QED
      BY <1>1, <1>2, <1>4, <2>10, <2>11, <3>1 DEF L, d
<1> QED
  BY <1>7, <1>8

LEMMA RangeOfConcat ==
    ASSUME NEW T, NEW s \in Seq(T), NEW t \in Seq(T)
    PROVE  Range(s \o t) = Range(s) \cup Range(t)
<1> DEFINE u == s \o t
<1>1. u \in Seq(T) /\ Len(u) = Len(s) + Len(t)
      /\ \A i \in 1..Len(s) + Len(t) : u[i] = IF i <= Len(s) THEN s[i] ELSE t[i - Len(s)]
  BY ConcatProperties
<1>2. /\ DOMAIN s = 1..Len(s) /\ DOMAIN t = 1..Len(t) /\ DOMAIN u = 1..Len(s) + Len(t)
      /\ Len(s) \in Nat /\ Len(t) \in Nat
  BY <1>1, LenProperties
<1> HIDE DEF u
<1>3. Range(u) \subseteq Range(s) \cup Range(t)
  <2> SUFFICES ASSUME NEW i \in 1..Len(s) + Len(t) PROVE u[i] \in Range(s) \cup Range(t)
    BY <1>2 DEF Range
  <2>1. CASE i \in 1..Len(s)
    <3>1. u[i] = s[i]
      BY <1>1, <1>2, <2>1
    <3> QED
      BY <1>2, <2>1, <3>1 DEF Range
  <2>2. CASE i \notin 1..Len(s)
    <3>1. ~(i <= Len(s)) /\ i - Len(s) \in 1..Len(t)
      BY <1>2, <2>2
    <3>2. u[i] = t[i - Len(s)]
      BY <1>1, <3>1
    <3> QED
      BY <1>2, <3>1, <3>2 DEF Range
  <2> QED
    BY <2>1, <2>2
<1>4. Range(s) \subseteq Range(u)
  <2>1. \A i \in 1..Len(s) : i \in 1..Len(s) + Len(t) /\ i <= Len(s)
    BY <1>2
  <2> QED
    BY <1>1, <1>2, <2>1 DEF Range
<1>5. Range(t) \subseteq Range(u)
  <2>1. \A i \in 1..Len(t) : i + Len(s) \in 1..Len(s) + Len(t) /\ ~(i + Len(s) <= Len(s)) /\ i + Len(s) - Len(s) = i
    BY <1>2
  <2>2. \A i \in 1..Len(t) : u[i + Len(s)] = t[i]
    BY <1>1, <2>1
  <2> QED
    BY <1>2, <2>1, <2>2 DEF Range
<1> QED
  BY <1>3, <1>4, <1>5 DEF u

\* Whether a path has directories is seen from the dot.
LEMMA DotTells ==
    ASSUME Typed, path \in Paths, HeapClear, DotsClear
    PROVE  HasDot <=> path.dirs = <<>>
<1>1. CASE path.dirs = <<>>
  <2>1. Reversed = <<path.file>> /\ "." \in Range(path.file)
    BY <1>1 DEF Reversed, DotsClear
  <2>2. 1 \in DOMAIN Reversed /\ "." \in Range(Reversed[1])
    BY <2>1
  <2> QED
    BY <1>1, <2>2 DEF HasDot
<1>2. CASE path.dirs # <<>>
  <2> DEFINE L == Len(path.dirs)
  <2>1. /\ L \in Nat \ {0} /\ path.dirs \in Seq(Name) /\ Reversed \in Seq(Name) /\ Len(Reversed) = L
        /\ \A i \in 1..L : \E junk \in Name : /\ Reversed[i] = path.dirs[L - i + 1] \o junk
                                            /\ "." \notin Range(junk)
    BY <1>2, ReversedIs
  <2>2. DOMAIN Reversed = 1..L /\ DOMAIN path.dirs = 1..L
    BY <2>1, LenProperties
  <2>3. ASSUME NEW i \in 1..L PROVE "." \notin Range(Reversed[i])
    <3>1. PICK junk \in Name : Reversed[i] = path.dirs[L - i + 1] \o junk /\ "." \notin Range(junk)
      BY <2>1
    <3>2. L - i + 1 \in 1..L
      BY <2>1
    <3>3. path.dirs[L - i + 1] \in Name /\ "." \notin Range(path.dirs[L - i + 1])
      BY <1>2, <2>1, <2>2, <3>2, ElementOfSeq DEF DotsClear
    <3> QED
      BY <3>1, <3>3, RangeOfConcat DEF Name
  <2> QED
    BY <1>2, <2>2, <2>3 DEF HasDot
<1> QED
  BY <1>1, <1>2

\* The first word is the innermost directory, perhaps with something behind it; the
\* parents are looked at only when there are more than two directories, and then the
\* words are the directories.
LEMMA WordsClear ==
    ASSUME Typed, path \in Paths, HeapClear, path.dirs # <<>>
    PROVE  LET L == Len(path.dirs)
           IN  /\ L \in Nat \ {0} /\ path.dirs \in Seq(Name) /\ Len(Words) \in Nat
               /\ \E junk \in Name : Words[1] = path.dirs[L] \o junk
               /\ ParentsSeen = IF L > 2 THEN L - 1 ELSE 0
               /\ L > 2 => Len(Words) = L /\ \A k \in 0..L - 1 : Words[k + 1] = path.dirs[L - k]
<1> DEFINE L == Len(path.dirs)
<1>1. /\ L \in Nat \ {0} /\ path.dirs \in Seq(Name) /\ Reversed \in Seq(Name) /\ Len(Reversed) = L
      /\ \E junk \in Name : Reversed[1] = path.dirs[L - 1 + 1] \o junk
      /\ L > 2 => Reversed = Reverse(path.dirs)
  <2>1. /\ L \in Nat \ {0} /\ path.dirs \in Seq(Name) /\ Reversed \in Seq(Name) /\ Len(Reversed) = L
        /\ \A i \in 1..L : \E junk \in Name : Reversed[i] = path.dirs[L - i + 1] \o junk
        /\ L > 2 => Reversed = Reverse(path.dirs)
    BY ReversedIs
  <2>2. 1 \in 1..L
    BY <2>1
  <2> QED
    BY <2>1, <2>2
<1>2. L - 1 + 1 = L
  BY <1>1
<1>3. CASE L = 1
  <2>1. stale.behind \in Seq(Name) /\ Len(stale.behind) \in Nat /\ Len(stale.behind) <= 1
    <3>1. stale.behind \in Seq(Name)
      BY IsoAssumption DEF Typed
    <3> QED
      BY <1>3, <3>1, LenProperties DEF HeapClear
  <2> DEFINE w == Reversed \o stale.behind
  <2>2. /\ w \in Seq(Name) /\ Len(w) = Len(Reversed) + Len(stale.behind)
        /\ \A i \in 1..Len(Reversed) + Len(stale.behind) :
              w[i] = IF i <= Len(Reversed) THEN Reversed[i] ELSE stale.behind[i - Len(Reversed)]
    <3> DEFINE b == stale.behind
    <3>1. Reversed \in Seq(Name) /\ b \in Seq(Name)
      BY <1>1, <2>1
    <3> HIDE DEF b
    <3> QED
      BY <3>1, ConcatProperties DEF b
  <2>3. Words = w
    BY <1>1, <1>3 DEF Words
  <2> HIDE DEF w
  <2>4. Len(w) \in Nat /\ Len(w) <= 2 /\ w[1] = Reversed[1]
    <3>1. Len(Reversed) = 1 /\ 1 \in 1..Len(Reversed) + Len(stale.behind)
      BY <1>1, <1>3, <2>1
    <3> QED
      BY <2>1, <2>2, <3>1
  <2>5. ParentsSeen = 0
    BY <2>3, <2>4 DEF ParentsSeen, Parents
  <2>6. ~(L > 2) /\ Words[1] = Reversed[1] /\ Len(Words) \in Nat
    BY <1>3, <2>3, <2>4
  <2> QED
    BY <1>1, <1>2, <2>5, <2>6
<1>4. CASE L # 1
  <2>1. Words = Reversed
    BY <1>1, <1>4 DEF Words
  <2>2. ParentsSeen = IF L > 2 THEN L - 1 ELSE 0
    BY <1>1, <1>4, <2>1 DEF ParentsSeen, Parents
  <2>3. ASSUME L > 2, NEW k \in 0..L - 1 PROVE Words[k + 1] = path.dirs[L - k]
    <3>1. Words = Reverse(path.dirs) /\ k + 1 \in 1..L /\ L - (k + 1) + 1 = L - k
      BY <1>1, <2>1, <2>3
    <3> QED
      BY <1>1, <3>1, ReverseIs
  <2> QED
    BY <1>1, <1>2, <2>1, <2>2, <2>3
<1> QED
  BY <1>3, <1>4
-----------------------------------------------------------------------------
(* The right file.                                                              *)

Ready == drive = info /\ There /\ Clear

LEMMA SamePaths ==
    ASSUME UNCHANGED <<vol, info, drive, path, stale>>
    PROVE  PathOf' = PathOf /\ Table' = Table
<1>1. Table' = Table
  BY DEF Table
<1>2. PathOf' = PathOf
  BY <1>1 DEF PathOf
<1> QED
  BY <1>1, <1>2

LEMMA SameRequest ==
    ASSUME UNCHANGED <<vol, info, drive, path, stale>>
    PROVE  Ready' = Ready /\ Target' = Target /\ Table' = Table
<1>1. PathOf' = PathOf /\ Table' = Table
  BY SamePaths
<1>2. Target' = Target
  BY <1>1 DEF Target
<1>3. There' = There
  BY <1>2 DEF There
<1>4. OtherNames' = OtherNames
  BY <1>1, <1>2 DEF OtherNames
<1>5. Clear' = Clear
  BY <1>1, <1>2, <1>4 DEF Clear, NamesClear, TableClear, SectorOf, DirectoryClear, ParentsNear, DotsClear, FilesClear,
                      HeapClear, FirstSector
<1> QED
  BY <1>1, <1>2, <1>3, <1>5 DEF Ready

LEMMA SectorsAre ==
    /\ \A i \in Nat \ {0} : SectorOf(i) \in Nat
    /\ \A i, j \in Nat \ {0} : i <= j => SectorOf(i) <= SectorOf(j)
<1>1. PerSector \in Nat \ {0}
  BY IsoAssumption
<1>2. ASSUME NEW a \in Nat PROVE /\ a \div PerSector \in Nat
                               /\ PerSector * (a \div PerSector) <= a
                               /\ a < PerSector * (a \div PerSector) + PerSector
  BY <1>1
<1>3. ASSUME NEW a \in Nat, NEW b \in Nat, a <= b PROVE a \div PerSector <= b \div PerSector
  <2>1. PICK q \in Nat : q = a \div PerSector /\ PerSector * q <= a
    BY <1>2
  <2>2. PICK r \in Nat : r = b \div PerSector /\ b < PerSector * r + PerSector
    BY <1>2
  <2>3. SUFFICES ASSUME r + 1 <= q PROVE FALSE
    BY <2>1, <2>2
  <2>4. PICK e \in Nat : q = r + 1 + e
    <3>1. q - (r + 1) \in Nat /\ q = r + 1 + (q - (r + 1))
      BY <2>3
    <3> QED
      BY <3>1
  <2>5. PerSector * q = PerSector * r + PerSector + PerSector * e /\ PerSector * e \in Nat
        /\ PerSector * r \in Nat
    BY <1>1, <2>4
  <2> QED
    BY <1>1, <1>3, <2>1, <2>2, <2>5
<1>4. \A i \in Nat \ {0} : i - 1 \in Nat
  OBVIOUS
<1>5. \A i, j \in Nat \ {0} : i <= j => i - 1 <= j - 1
  OBVIOUS
<1> QED
  BY <1>2, <1>3, <1>4, <1>5 DEF SectorOf

LEMMA TargetIs ==
    ASSUME Typed, drive \in Cds, path \in Paths, path.dirs # <<>>, NEW t \in Target
    PROVE  t \in 2..Len(Table) /\ Table[t].name = Last(path.dirs)
<1>1. t \in DOMAIN Table /\ PathOf[t] = path.dirs
  BY DEF Target
<1>2. DOMAIN Table = 1..Len(Table) /\ Len(Table) \in Nat
  BY VolumeIs DEF Table
<1>3. path.dirs \in Seq(Name) /\ Len(path.dirs) \in Nat \ {0}
  BY IsoAssumption, EmptySeq
<1>4. t # 1 /\ Table[t].name = PathOf[t][Len(PathOf[t])]
  BY <1>1, <1>3, PathsAre DEF PathIs
<1> QED
  BY <1>1, <1>2, <1>4 DEF Last

LEMMA NamesAre ==
    ASSUME Typed, drive \in Cds
    PROVE  \A i \in DOMAIN Table : Table[i].name \in Name
<1> SUFFICES ASSUME NEW i \in DOMAIN Table PROVE Table[i].name \in Name
  OBVIOUS
<1>1. Table \in Seq([name : Name, parent : Nat]) /\ i \in 1..Len(Table)
  BY VolumeIs DEF Table
<1>2. Table[i] \in [name : Name, parent : Nat]
  BY <1>1, ElementOfSeq
<1> QED
  BY <1>2

\* The search stops at the directories of the name that is looked for, and at no others.
LEMMA LikeWord ==
    ASSUME Typed, drive \in Cds, path \in Paths, path.dirs # <<>>, Target # {}, NamesClear, HeapClear
    PROVE  \A i \in 2..Len(Table) : Alike(Table[i].name, Words[1]) <=> Table[i].name = Last(path.dirs)
<1> DEFINE n == Last(path.dirs)
<1>1. PICK t \in Target : t \in 2..Len(Table) /\ Table[t].name = n
  BY TargetIs
<1>2. DOMAIN Table = 1..Len(Table) /\ Len(Table) \in Nat
  BY VolumeIs DEF Table
<1>3. \A i \in 2..Len(Table) : Table[i].name \in Name
  BY <1>2, NamesAre
<1>4. PICK junk \in Name : Words[1] = n \o junk
  BY WordsClear DEF Last
<1> HIDE DEF n
<1> SUFFICES ASSUME NEW i \in 2..Len(Table) PROVE Alike(Table[i].name, n \o junk) <=> Table[i].name = n
  BY <1>4 DEF n
<1>5. Table[i].name \in Name /\ n \in Name
  BY <1>1, <1>3
<1>6. ASSUME Alike(Table[i].name, n \o junk) PROVE Table[i].name = n
  <2>1. Alike(Table[i].name, n)
    BY <1>5, <1>6, AlikeIs DEF Name
  <2> QED
    BY <1>1, <2>1 DEF NamesClear
<1>7. Alike(n, n \o junk)
  BY <1>5, AlikeIs DEF Name
<1> QED
  BY <1>6, <1>7

\* When the parents are looked at there are more than two directories, each of which
\* is compared with one on the way up.
LEMMA UpIs ==
    ASSUME Typed, drive \in Cds, path \in Paths, dir \in DOMAIN Table, path.dirs # <<>>, HeapClear,
           NEW k \in 1..ParentsSeen
    PROVE  LET L == Len(path.dirs)
               P == PathOf[dir]
           IN  /\ L \in Nat /\ L > 2 /\ k \in 1..L - 1 /\ ParentsSeen = L - 1 /\ Words[k + 1] = path.dirs[L - k]
               /\ Up[k] \in DOMAIN Table /\ Len(P) \in Nat
               /\ k < Len(P) => Up[k] # 1 /\ Table[Up[k]].name = P[Len(P) - k]
               /\ k >= Len(P) => Up[k] = 1
<1> DEFINE L == Len(path.dirs)
<1>1. /\ L \in Nat /\ ParentsSeen = (IF L > 2 THEN L - 1 ELSE 0) /\ Len(Words) \in Nat
      /\ L > 2 => Len(Words) = L /\ \A j \in 0..L - 1 : Words[j + 1] = path.dirs[L - j]
  BY WordsClear
<1> HIDE DEF L
<1>2. L > 2 /\ k \in 1..L - 1 /\ k \in 0..L - 1 /\ ParentsSeen = L - 1
  BY <1>1
<1>3. k \in 0..Len(Words)
  BY <1>1, <1>2
<1>4. Len(PathOf[dir]) \in Nat
  BY PathsAre DEF PathIs
<1> QED
  BY <1>1, <1>2, <1>3, <1>4, Climb DEF L

\* check_parents does not read on for ever when the parents lie in the first sector.
LEMMA ParentsInFirst ==
    ASSUME Typed, drive \in Cds, path \in Paths, path.dirs # <<>>, HeapClear, ParentsNear,
           dir \in 2..Len(Table), Table[dir].name = Last(path.dirs), NEW n \in 1..ParentsSeen
    PROVE  SectorOf(Up[n]) = 0
<1> DEFINE S == {k \in Nat : k \in 1..Len(Words) => Up[k] \in 1..Up[1]}
<1>1. /\ Len(Words) \in Nat /\ n \in 1..Len(Words) /\ 1 \in 1..Len(Words)
      /\ Len(path.dirs) > 2
  <2>1. Len(Words) \in Nat
    BY WordsClear
  <2>2. ParentsSeen = IF Len(Words) - 1 >= 2 THEN Len(Words) - 1 ELSE 0
    BY DEF ParentsSeen, Parents
  <2>3. n \in 1..Len(Words) /\ 1 \in 1..Len(Words)
    BY <2>1, <2>2
  <2>4. ParentsSeen = IF Len(path.dirs) > 2 THEN Len(path.dirs) - 1 ELSE 0
    BY WordsClear
  <2>5. Len(path.dirs) > 2
    BY <2>4
  <2> QED
    BY <2>1, <2>3, <2>5
<1>2. /\ Len(Table) \in Nat /\ DOMAIN Table = 1..Len(Table)
      /\ \A i \in 2..Len(Table) : Table[i].parent \in 1..i - 1
  BY VolumeIs DEF Table
<1>3. dir \in DOMAIN Table
  BY <1>2
<1>4. \A k \in 1..Len(Words) : Up[k] \in DOMAIN Table
  <2>1. \A k \in 0..Len(Words) : Up[k] \in DOMAIN Table
    BY <1>1, <1>3, Climb
  <2> QED
    BY <1>1, <2>1
<1>5. Up[1] = Table[dir].parent /\ SectorOf(Up[1]) = 0
  <2>1. Up[0] = dir /\ 1 - 1 = 0 /\ ~(dir <= 1)
    BY <1>1, <1>2, UpUnfolds
  <2>2. Up[1] = IF Up[1 - 1] <= 1 THEN 1 ELSE Table[Up[1 - 1]].parent
    BY <1>1, UpUnfolds
  <2>3. Up[1] = Table[dir].parent
    BY <2>1, <2>2
  <2> QED
    BY <1>1, <2>3 DEF ParentsNear
<1>6. 0 \in S
  BY <1>1
<1>7. ASSUME NEW k \in Nat, k \in S PROVE k + 1 \in S
  <2> SUFFICES ASSUME k + 1 \in 1..Len(Words) PROVE Up[k + 1] \in 1..Up[1]
    OBVIOUS
  <2>1. CASE k = 0
    BY <1>1, <1>2, <1>4, <2>1
  <2>2. CASE k # 0
    <3> DEFINE u == Up[k]
               v == Up[k + 1]
               top == Up[1]
    <3>1. k \in 1..Len(Words) /\ (k + 1) - 1 = k
      BY <1>1, <2>2
    <3>2. u \in 1..top /\ u \in 1..Len(Table) /\ top \in 1..Len(Table)
      BY <1>1, <1>2, <1>4, <1>7, <3>1
    <3>3. v = IF u <= 1 THEN 1 ELSE Table[u].parent
      BY <1>1, <3>1, UpUnfolds
    <3> HIDE DEF u, v, top
    <3>4. v \in 1..top
      BY <1>2, <3>2, <3>3
    <3> QED
      BY <3>4 DEF v, top
  <2> QED
    BY <2>1, <2>2
<1>8. Up[n] \in 1..Up[1]
  <2>a. n \in Nat
    BY <1>1
  <2>1. n \in Nat /\ n \in S
    <3> HIDE DEF S
    <3> QED
      BY <1>6, <1>7, <2>a, NatInd
  <2> QED
    BY <1>1, <2>1
<1> DEFINE u == Up[n]
           v == Up[1]
<1>9. u \in Nat \ {0} /\ v \in Nat \ {0} /\ u <= v
  <2>1. u \in 1..Len(Table) /\ v \in 1..Len(Table) /\ u \in 1..v
    BY <1>1, <1>2, <1>4, <1>8
  <2> HIDE DEF u, v
  <2> QED
    BY <1>2, <2>1
<1> HIDE DEF u, v
<1>10. SectorOf(u) \in Nat /\ SectorOf(u) <= SectorOf(v)
  BY <1>9, SectorsAre
<1>11. SectorOf(v) = 0
  BY <1>5 DEF v
<1> QED
  BY <1>10, <1>11 DEF u

\* The parents of a directory that is looked for fit.
LEMMA TargetFits ==
    ASSUME Typed, drive \in Cds, path \in Paths, path.dirs # <<>>, HeapClear, dir \in Target,
           NEW k \in 1..ParentsSeen
    PROVE  ~MayDiffer(k)
<1>1. dir \in DOMAIN Table /\ PathOf[dir] = path.dirs
  BY DEF Target
<1> DEFINE L == Len(path.dirs)
<1>2. /\ L \in Nat /\ k \in 1..L - 1 /\ Words[k + 1] = path.dirs[L - k] /\ Up[k] \in DOMAIN Table
      /\ k < L => Up[k] # 1 /\ Table[Up[k]].name = path.dirs[L - k]
  BY <1>1, UpIs
<1>3. Up[k] # 1 /\ Table[Up[k]].name = Words[k + 1]
  BY <1>2
<1>4. Table[Up[k]].name \in Name
  BY <1>2, NamesAre
<1>5. IsPrefix(Table[Up[k]].name, Table[Up[k]].name)
  BY <1>4, AlikeIs, EmptySeq DEF Name
<1> QED
  BY <1>3, <1>5 DEF MayDiffer

\* And those of another one do not all fit.
LEMMA OthersDiffer ==
    ASSUME Typed, drive \in Cds, path \in Paths, path.dirs # <<>>, HeapClear, NamesClear, DirectoryClear,
           Target # {}, dir \in 2..Len(Table), Table[dir].name = Last(path.dirs), AgreeUpTo(ParentsSeen)
    PROVE  dir \in Target
<1> SUFFICES ASSUME dir \notin Target PROVE FALSE
  OBVIOUS
<1> DEFINE d == path.dirs
           L == Len(d)
           P == PathOf[dir]
           M == Len(P)
<1>1. dir \in OtherNames /\ L > 2 /\ ~IsSuffix(d, P)
  <2>1. dir \in OtherNames
    BY DEF OtherNames
  <2> QED
    BY <2>1 DEF DirectoryClear
<1>2. DOMAIN Table = 1..Len(Table) /\ Len(Table) \in Nat /\ dir \in DOMAIN Table
  BY VolumeIs DEF Table
<1>3. d \in Seq(Name) /\ L \in Nat /\ ParentsSeen = L - 1
  BY <1>1, WordsClear
<1>4. P \in Seq(Name) /\ M \in Nat /\ P[M] = Table[dir].name
  <2>1. PathIs(dir) /\ dir # 1
    BY <1>2, PathsAre
  <2> QED
    BY <2>1 DEF PathIs
<1>5. PICK t \in Target : PathOf[t] = d /\ t \in DOMAIN Table
  BY DEF Target
<1>6. \A i \in 1..L : \E j \in 2..Len(Table) : Table[j].name = d[i]
  <2>1. PathIs(t)
    BY <1>5, PathsAre
  <2>2. \A i \in 1..Len(PathOf[t]) : \E j \in 2..Len(Table) : Table[j].name = PathOf[t][i]
    BY <2>1 DEF PathIs
  <2> QED
    BY <1>5, <2>2
<1>7. ASSUME NEW k \in 1..L - 1 PROVE k < M /\ P[M - k] = d[L - k]
  <2> DEFINE u == Up[k]
  <2>1. k \in 1..ParentsSeen
    BY <1>3
  <2>2. MayFit(k)
    BY <2>1 DEF AgreeUpTo
  <2>3. /\ Words[k + 1] = d[L - k] /\ u \in DOMAIN Table
        /\ k < M => u # 1 /\ Table[u].name = P[M - k]
        /\ k >= M => u = 1
    BY <1>2, <2>1, UpIs
  <2>4. u # 1 /\ Alike(Table[u].name, d[L - k])
    BY <2>2, <2>3 DEF MayFit
  <2>5. k < M /\ Table[u].name = P[M - k] /\ u \in 2..Len(Table)
    <3> HIDE DEF u, M, P, L, d
    <3> QED
      BY <1>2, <1>4, <2>3, <2>4
  <2>6. L - k \in 1..L
    BY <1>3
  <2>7. PICK j \in 2..Len(Table) : Table[j].name = d[L - k]
    BY <1>6, <2>6
  <2> HIDE DEF u, M, P, L, d
  <2>8. Table[u].name = Table[j].name
    BY <2>4, <2>5, <2>7 DEF NamesClear
  <2> QED
    BY <2>5, <2>7, <2>8
<1>8. P[M] = d[L]
  BY <1>4 DEF Last
<1> HIDE DEF d, P
<1>9. L <= M
  <2>1. L - 1 \in 1..L - 1
    BY <1>1, <1>3
  <2>2. L - 1 < M
    BY <1>7, <2>1
  <2> QED
    BY <1>3, <1>4, <2>2
<1>10. IsSuffix(d, P)
  <2>1. Reverse(d) \in Seq(Name) /\ Len(Reverse(d)) = L /\ \A i \in 1..L : Reverse(d)[i] = d[L - i + 1]
    BY <1>3, ReverseIs
  <2>2. Reverse(P) \in Seq(Name) /\ Len(Reverse(P)) = M /\ \A i \in 1..M : Reverse(P)[i] = P[M - i + 1]
    BY <1>4, ReverseIs
  <2>3. ASSUME NEW i \in 1..L PROVE Reverse(d)[i] = Reverse(P)[i]
    <3>1. i \in 1..M
      BY <1>3, <1>4, <1>9
    <3>2. d[L - i + 1] = P[M - i + 1]
      <4>1. CASE i = 1
        BY <1>3, <1>4, <1>8, <4>1
      <4>2. CASE i # 1
        <5>1. i - 1 \in 1..L - 1 /\ M - (i - 1) = M - i + 1 /\ L - (i - 1) = L - i + 1
          BY <1>3, <1>4, <4>2
        <5>2. P[M - (i - 1)] = d[L - (i - 1)]
          BY <1>7, <5>1
        <5> QED
          BY <5>1, <5>2
      <4> QED
        BY <4>1, <4>2
    <3> QED
      BY <2>1, <2>2, <3>1, <3>2
  <2> HIDE DEF L, M
  <2>4. IsPrefix(Reverse(d), Reverse(P))
    BY <1>9, <2>1, <2>2, <2>3, PrefixIs
  <2> QED
    BY <2>4 DEF IsSuffix
<1> QED
  BY <1>1, <1>10 DEF d, P

\* While it is looked for, the directory lies ahead of the position of the search, which
\* is kept from one search to the next; and what was found is what is looked for, or
\* has the same name and is passed over.
Ahead == \E t \in Target : t \in 2..Len(Table) /\ (SectorOf(t) > sect \/ (SectorOf(t) = sect /\ t >= loc))

\* And the search goes on where an entry begins.
InStep == loc > 1 => Len(Table[dir].name) % 2 = 0

Right ==
    pc \notin {"idle", "exhausted"} /\ Ready =>
        /\ pc \notin {"halted", "astray", "endless"}
        /\ pc \in {"scan", "parents"} => path.dirs # <<>>
        /\ pc = "scan" => Ahead /\ InStep
        /\ pc = "parents" => /\ dir \in 2..Len(Table) /\ Table[dir].name = Last(path.dirs)
                             /\ dir \in Target \/ (Ahead /\ InStep)
        /\ pc \in {"dir", "found"} => dir \in Target
        /\ pc = "found" => vol[drive].files[dir][place] = path.file

LEMMA HitStep ==
    ASSUME Typed, Somewhere, Right, Hit PROVE Right'
<1> SUFFICES ASSUME pc' \notin {"idle", "exhausted"}, Ready' PROVE Right'
  BY DEF Right
<1>1. /\ pc = "scan" /\ Hits # {} /\ dir' = Min(Hits) /\ loc' \in Resume(Min(Hits))
      /\ UNCHANGED <<vol, info, drive, path, stale, sect>> /\ pc' = "parents"
  BY DEF Hit, Go, request
<1>2. Ready /\ Target' = Target /\ Table' = Table
  BY <1>1, SameRequest
<1>3. path.dirs # <<>> /\ Ahead
  BY <1>1, <1>2 DEF Right
<1>4. drive \in Cds /\ path \in Paths /\ NamesClear /\ HeapClear /\ DirectoryClear
  BY <1>1, <1>2 DEF Somewhere, Ready, Clear
<1>5. PICK t \in Target : t \in 2..Len(Table) /\ (SectorOf(t) > sect \/ (SectorOf(t) = sect /\ t >= loc))
  BY <1>3 DEF Ahead
<1>6. \A i \in 2..Len(Table) : Alike(Table[i].name, Words[1]) <=> Table[i].name = Last(path.dirs)
  BY <1>3, <1>4, <1>5, LikeWord
<1>7. Len(Table) \in Nat /\ 2..Len(Table) \subseteq Nat
  <2>1. Len(Table) \in Nat
    BY <1>4, VolumeIs DEF Table
  <2>2. \A n \in Nat : 2..n \subseteq Nat
    OBVIOUS
  <2> QED
    BY <2>1, <2>2, Zenon
<1>8. Min(Hits) \in Hits /\ \A j \in Hits : Min(Hits) <= j
  <2>1. Hits \in SUBSET Nat
    BY <1>7 DEF Hits
  <2> QED
    BY <1>1, <2>1, SmallestIsMember
<1>9. PICK i \in Hits : i = Min(Hits) /\ dir' = i /\ loc' \in Resume(i) /\ \A j \in Hits : i <= j
  BY <1>1, <1>8
<1>10. i \in 2..Len(Table) /\ Table[i].name = Last(path.dirs)
  BY <1>6 DEF Hits
<1>11. dir' \in 2..Len(Table') /\ Table'[dir'].name = Last(path'.dirs) /\ path'.dirs # <<>>
  BY <1>1, <1>2, <1>3, <1>9, <1>10
<1>12. dir' \in Target' \/ (Ahead' /\ InStep')
  <2> SUFFICES ASSUME i \notin Target PROVE Ahead' /\ InStep'
    BY <1>2, <1>9
  <2>1. i \in OtherNames
    BY <1>3, <1>10 DEF OtherNames
  <2>2. Len(Table[i].name) % 2 = 0
    BY <1>4, <1>10, <2>1 DEF DirectoryClear
  <2>3. loc' = i + 1
    BY <1>9, <2>2 DEF Resume
  <2>4. t # i
    OBVIOUS
  <2>5. SectorOf(t) > sect \/ (SectorOf(t) = sect /\ t >= i + 1)
    <3> SUFFICES ASSUME SectorOf(t) = sect, t >= loc PROVE t >= i + 1
      BY <1>5
    <3>1. t \in Hits
      BY <1>3, <1>4, <1>5, <1>6, TargetIs DEF Hits
    <3>2. i <= t
      BY <1>9, <3>1
    <3>3. i \in Nat /\ t \in Nat
      BY <1>5, <1>7, <1>10
    <3>4. \A a, b \in Nat : a <= b /\ b # a => b >= a + 1
      OBVIOUS
    <3> QED
      BY <2>4, <3>2, <3>3, <3>4, Zenon
  <2>6. InStep'
    BY <1>2, <1>9, <2>2 DEF InStep
  <2> QED
    BY <1>1, <1>2, <1>5, <2>3, <2>5, <2>6 DEF Ahead, SectorOf
<1> QED
  BY <1>1, <1>11, <1>12 DEF Right

LEMMA SearchStep ==
    ASSUME Typed, Somewhere, Right, InDirectory \/ NextSector PROVE Right'
<1> SUFFICES ASSUME pc' \notin {"idle", "exhausted"}, Ready' PROVE Right'
  BY DEF Right
<1>1. UNCHANGED <<vol, info, drive, path, stale>> /\ pc' = "scan" /\ pc \in {"cleaned", "scan"}
  BY DEF InDirectory, NextSector, Go, request
<1>2. Ready /\ Target' = Target /\ Table' = Table
  BY <1>1, SameRequest
<1>3. drive \in Cds /\ path \in Paths /\ NamesClear /\ HeapClear /\ DotsClear /\ There
  BY <1>1, <1>2 DEF Somewhere, Ready, Clear
<1>4. path.dirs # <<>>
  <2>1. CASE InDirectory
    BY <1>3, <2>1, DotTells DEF InDirectory
  <2>2. CASE NextSector
    BY <1>2, <2>2 DEF NextSector, Right
  <2> QED
    BY <2>1, <2>2
<1>5. Len(Table) \in Nat
  BY <1>3, VolumeIs DEF Table
<1>6. \E t \in Target : /\ t \in 2..Len(Table)
                        /\ SectorOf(t) > sect' \/ (SectorOf(t) = sect' /\ t >= loc')
  <2>1. CASE InDirectory
    <3>1. PICK t \in Target : TRUE
      BY <1>3 DEF There
    <3>2. t \in 2..Len(Table)
      BY <1>3, <1>4, TargetIs
    <3>3. t \in Nat \ {0} /\ sect' = 0 /\ loc' = 1
      BY <1>5, <2>1, <3>2 DEF InDirectory
    <3>4. SectorOf(t) \in Nat
      BY <3>3, SectorsAre
    <3>5. SectorOf(t) > sect' \/ (SectorOf(t) = sect' /\ t >= loc')
      BY <3>3, <3>4
    <3> QED
      BY <3>1, <3>2, <3>5
  <2>2. CASE NextSector
    <3>1. PICK t \in Target : t \in 2..Len(Table) /\ (SectorOf(t) > sect \/ (SectorOf(t) = sect /\ t >= loc))
      BY <1>2, <2>2 DEF NextSector, Right, Ahead
    <3>2. ~(SectorOf(t) = sect /\ t >= loc)
      <4> SUFFICES ASSUME SectorOf(t) = sect, t >= loc PROVE FALSE
        OBVIOUS
      <4>1. Alike(Table[t].name, Words[1])
        BY <1>3, <1>4, <3>1, LikeWord, TargetIs
      <4>2. t \in Hits
        BY <3>1, <4>1 DEF Hits
      <4> QED
        BY <2>2, <4>2 DEF NextSector
    <3>3. t \in Nat \ {0} /\ sect \in Nat /\ sect' = sect + 1 /\ loc' = 1
      <4>1. sect \in Nat
        BY DEF Typed
      <4> QED
        BY <1>5, <2>2, <3>1, <4>1 DEF NextSector, LbaAfter
    <3>4. SectorOf(t) \in Nat /\ SectorOf(t) > sect
      BY <3>1, <3>2, <3>3, SectorsAre
    <3>5. SectorOf(t) > sect' \/ (SectorOf(t) = sect' /\ t >= loc')
      BY <3>3, <3>4
    <3> QED
      BY <3>1, <3>5
  <2> QED
    BY <2>1, <2>2
<1>7. Ahead' /\ InStep'
  <2>1. loc' = 1
    BY DEF InDirectory, NextSector
  <2> QED
    BY <1>2, <1>6, <2>1 DEF Ahead, SectorOf, InStep
<1> QED
  BY <1>1, <1>4, <1>7 DEF Right

LEMMA ParentsStep ==
    ASSUME Typed, Somewhere, Right, CheckEndless \/ ParentsFit \/ ParentsDiffer PROVE Right'
<1> SUFFICES ASSUME pc' \notin {"idle", "exhausted"}, Ready' PROVE Right'
  BY DEF Right
<1>1. UNCHANGED <<vol, info, drive, path, stale, sect, loc, dir>> /\ pc = "parents"
  BY DEF CheckEndless, ParentsFit, ParentsDiffer, request, search
<1>2. Ready /\ Target' = Target /\ Table' = Table
  BY <1>1, SameRequest
<1>3. /\ drive \in Cds /\ path \in Paths /\ NamesClear /\ HeapClear /\ DirectoryClear /\ ParentsNear
      /\ There /\ dir \in DOMAIN Table
  BY <1>1, <1>2 DEF Somewhere, Ready, Clear
<1>4. /\ path.dirs # <<>> /\ dir \in 2..Len(Table) /\ Table[dir].name = Last(path.dirs)
      /\ dir \in Target \/ (Ahead /\ InStep)
  BY <1>1, <1>2 DEF Right
<1>5. ~CheckEndless
  <2> SUFFICES ASSUME CheckEndless PROVE FALSE
    OBVIOUS
  <2>1. PICK n \in 1..ParentsSeen : SectorOf(Up[n]) > 0
    BY DEF CheckEndless
  <2>2. SectorOf(Up[n]) = 0
    BY <1>3, <1>4, ParentsInFirst
  <2> QED
    BY <2>1, <2>2
<1>6. CASE ParentsFit
  <2>1. AgreeUpTo(ParentsSeen) /\ pc' = "dir"
    BY <1>6 DEF ParentsFit, Go
  <2>2. Target # {}
    BY <1>3 DEF There
  <2>3. dir \in Target
    BY <1>3, <1>4, <2>1, <2>2, OthersDiffer
  <2> QED
    BY <1>1, <1>2, <2>1, <2>3 DEF Right
<1>7. CASE ParentsDiffer
  <2>1. PICK n \in 0..ParentsSeen - 1 : AgreeUpTo(n) /\ pc' = "scan"
    BY <1>7 DEF ParentsDiffer, Go
  <2>2. ParentsSeen \in Nat
    BY <1>3, <1>4, WordsClear
  <2>3. n + 1 \in 1..ParentsSeen /\ n < ParentsSeen
    BY <2>2
  <2>4. MayDiffer(n + 1)
    BY <2>1, <2>3 DEF AgreeUpTo
  <2>5. dir \notin Target
    BY <1>3, <1>4, <2>3, <2>4, TargetFits
  <2>6. Ahead' /\ InStep'
    BY <1>1, <1>2, <1>4, <2>5 DEF Ahead, SectorOf, InStep
  <2> QED
    BY <1>1, <1>4, <2>1, <2>6 DEF Right
<1> QED
  BY <1>5, <1>6, <1>7

LEMMA DirectoryStep ==
    ASSUME Typed, Somewhere, Right, InRoot \/ SearchDir \/ NotReached PROVE Right'
<1> SUFFICES ASSUME pc' \notin {"idle", "exhausted"}, Ready' PROVE Right'
  BY DEF Right
<1>1. UNCHANGED <<vol, info, drive, path, stale>> /\ pc \in {"cleaned", "dir"}
  BY DEF InRoot, SearchDir, NotReached, request
<1>2. Ready /\ Target' = Target /\ Table' = Table
  BY <1>1, SameRequest
<1>3. /\ drive \in Cds /\ path \in Paths /\ NamesClear /\ HeapClear /\ DotsClear /\ FilesClear /\ There
      /\ dir \in DOMAIN Table
  BY <1>1, <1>2 DEF Somewhere, Ready, Clear
<1>4. CASE InRoot
  <2>1. path.dirs = <<>> /\ dir' = 1 /\ pc' = "dir"
    BY <1>3, <1>4, DotTells DEF InRoot
  <2>2. 1 \in DOMAIN Table
    <3>1. Len(Table) \in Nat \ {0} /\ DOMAIN Table = 1..Len(Table)
      BY <1>3, VolumeIs DEF Table
    <3> QED
      BY <3>1
  <2>3. PathOf[1] = <<>>
    BY <1>3, <2>2, PathUnfolds
  <2>4. 1 \in Target
    BY <2>1, <2>2, <2>3 DEF Target
  <2> QED
    BY <1>1, <1>2, <2>1, <2>4 DEF Right
<1>5. CASE SearchDir \/ NotReached
  <2> DEFINE files == vol[drive].files[dir]
  <2>1. dir \in Target /\ dir' = dir
    BY <1>2, <1>5 DEF SearchDir, NotReached, search, Right
  <2>2. files \in Seq(Name) /\ DOMAIN files \subseteq Nat
    <3>1. vol[drive].files \in Seq(Seq(Name)) /\ dir \in 1..Len(vol[drive].files)
      BY <1>3, VolumeIs DEF Table
    <3>2. files \in Seq(Name)
      BY <3>1, ElementOfSeq
    <3> HIDE DEF files
    <3> QED
      BY <3>2
  <2>3. path.file \in Name
    BY <1>3, IsoAssumption
  <2>4. PICK j \in DOMAIN files : files[j] = path.file
    <3>1. PICK i \in Target : \E j \in DOMAIN vol[drive].files[i] : vol[drive].files[i][j] = path.file
      BY <1>3 DEF There
    <3>2. i = dir
      BY <1>3, <2>1, <3>1, PathsDiffer DEF Target
    <3> QED
      BY <3>1, <3>2
  <2>5. j \in Named \cap FirstSector
    <3>1. IsPrefix(path.file, path.file)
      BY <2>3, AlikeIs, EmptySeq DEF Name
    <3> QED
      BY <1>3, <2>1, <2>4, <3>1 DEF Named, FilesClear
  <2>6. SearchDir
    BY <1>5, <2>5 DEF NotReached
  <2>7. Min(Reached) \in Named
    <3>1. Reached \in SUBSET Nat /\ Reached # {} /\ Reached \subseteq Named
      BY <2>2, <2>5 DEF Named, Reached
    <3> QED
      BY <3>1, SmallestIsMember
  <2>8. place' = Min(Reached) /\ pc' = "found"
    BY <2>6 DEF SearchDir, Go
  <2>9. files[Min(Reached)] = path.file
    <3>1. Min(Reached) \in DOMAIN files /\ IsPrefix(path.file, files[Min(Reached)])
      BY <2>7 DEF Named
    <3> QED
      BY <1>3, <2>1, <3>1 DEF FilesClear
  <2> QED
    BY <1>1, <1>2, <2>1, <2>8, <2>9 DEF Right
<1> QED
  BY <1>4, <1>5

LEMMA RightStep == Typed /\ Somewhere /\ Right /\ [Next]_vars => Right'
<1> SUFFICES ASSUME Typed, Somewhere, Right, [Next]_vars PROVE Right'
  OBVIOUS
<1>1. ASSUME NEW d \in Cds, Mount(d) PROVE Right'
  BY <1>1 DEF Mount, Go, Right
<1>2. ASSUME NEW d \in Cds, NEW p \in Paths, Read(d, p) PROVE Right'
  BY <1>2 DEF Read, Go, Right
<1>3. CASE WrongDrive
  BY <1>3 DEF WrongDrive, request, Right, Ready
<1>4. CASE InRoot
  BY <1>4, DirectoryStep
<1>5. CASE InDirectory
  BY <1>5, SearchStep
<1>6. CASE NextSector
  BY <1>6, SearchStep
<1>7. CASE Hit
  BY <1>7, HitStep
<1>8. CASE NoHit
  <2> SUFFICES ASSUME Ready' PROVE FALSE
    BY DEF Right
  <2>1. UNCHANGED <<vol, info, drive, path, stale>> /\ pc = "scan" /\ sect > SectorOf(Len(Table))
    BY <1>8 DEF NoHit, request
  <2>2. Ready
    BY <2>1, SameRequest
  <2>3. PICK t \in Target : t \in 2..Len(Table) /\ (SectorOf(t) > sect \/ (SectorOf(t) = sect /\ t >= loc))
    BY <2>1, <2>2 DEF Right, Ahead
  <2>4. Len(Table) \in Nat \ {0} /\ sect \in Nat
    BY <2>1, VolumeIs DEF Table, Somewhere, Typed
  <2>5. t \in Nat \ {0} /\ t <= Len(Table)
    BY <2>3, <2>4
  <2>6. SectorOf(t) \in Nat /\ SectorOf(Len(Table)) \in Nat /\ SectorOf(t) <= SectorOf(Len(Table))
    BY <2>4, <2>5, SectorsAre
  <2>7. sect <= SectorOf(t)
    BY <2>3, <2>4, <2>6
  <2> QED
    BY <2>1, <2>4, <2>6, <2>7
<1>9. CASE CheckEndless
  BY <1>9, ParentsStep
<1>10. CASE ParentsFit
  BY <1>10, ParentsStep
<1>11. CASE ParentsDiffer
  BY <1>11, ParentsStep
<1>12. CASE SearchDir
  BY <1>12, DirectoryStep
<1>13. CASE Return
  BY <1>13 DEF Return, Go, Right
<1>15. CASE ReadAgain
  <2>1. UNCHANGED <<vol, info, drive, path, stale>> /\ pc = "endless"
    BY <1>15 DEF ReadAgain, request
  <2>2. Ready' => Ready
    BY <2>1, SameRequest
  <2>3. ~Ready'
    BY <2>1, <2>2 DEF Right
  <2> QED
    BY <2>3 DEF Right
<1>16. CASE Spurious
  <2>1. UNCHANGED <<vol, info, drive, path, stale>> /\ pc = "scan" /\ loc > 1 /\ Len(Table[dir].name) % 2 = 1
    BY <1>16 DEF Spurious, request
  <2>2. Ready' => Ready
    BY <2>1, SameRequest
  <2>3. Ready => InStep
    BY <2>1 DEF Right
  <2>4. ~InStep
    <3>1. \A n : n = 1 => n # 0
      OBVIOUS
    <3>2. Len(Table[dir].name) % 2 # 0
      BY <2>1, <3>1, Zenon
    <3> QED
      BY <2>1, <3>2, Zenon DEF InStep
  <2>5. ~Ready'
    BY <2>2, <2>3, <2>4
  <2> QED
    BY <2>5 DEF Right
<1>17. CASE Torn
  <2>1. /\ UNCHANGED <<vol, info, drive, path, stale>> /\ drive \in Cds
        /\ ~vol[drive].whole /\ SectorOf(Len(Table)) > 0
    BY <1>17 DEF Torn, request, Somewhere
  <2>2. Ready' => Ready
    BY <2>1, SameRequest
  <2>3. Ready => SectorOf(Len(Table)) = 0
    BY <2>1 DEF Ready, Clear, TableClear
  <2>4. ~Ready'
    BY <2>1, <2>2, <2>3
  <2> QED
    BY <2>4 DEF Right
<1>18. CASE NotReached
  BY <1>18, DirectoryStep
<1>14. CASE UNCHANGED vars
  <2>1. UNCHANGED <<vol, info, drive, path, stale, pc, sect, loc, dir, place>>
    BY <1>14 DEF vars
  <2>2. Ready' = Ready /\ Target' = Target /\ Table' = Table
    BY <2>1, SameRequest
  <2>3. Ahead' = Ahead
    BY <2>1, <2>2 DEF Ahead, SectorOf
  <2>4. InStep' = InStep
    BY <2>1, <2>2 DEF InStep
  <2> QED
    BY <2>1, <2>2, <2>3, <2>4 DEF Right
<1> QED
  BY <1>1, <1>2, <1>3, <1>4, <1>5, <1>6, <1>7, <1>8, <1>9, <1>10, <1>11, <1>12, <1>13, <1>14,
     <1>15, <1>16, <1>17, <1>18 DEF Next, Driver
-----------------------------------------------------------------------------
LEMMA TypeOKIs == Typed /\ Somewhere /\ Safe => TypeOK
<1> SUFFICES ASSUME Typed, Somewhere, Safe PROVE TypeOK
  OBVIOUS
<1>1. mem \in [heap : 0..Heap, pages : 0..Pages, ok : BOOLEAN, clash : BOOLEAN,
                at : [Buffers -> {"none", "heap", "page", "freed", "stale"}]]
  <2>1. mem \in Memories
    BY DEF Safe, MemoryOK
  <2>2. mem.heap \in 0..Heap /\ mem.pages \in 0..Pages
    <3>1. mem.heap + Cardinality(Holding(mem, "heap")) <= Heap /\ mem.pages + Cardinality(Holding(mem, "page")) <= Pages
      BY DEF Safe, MemoryOK
    <3>2. mem.heap \in Nat /\ mem.pages \in Nat /\ Heap \in Nat /\ Pages \in Nat
      BY <2>1, IsoAssumption DEF Memories
    <3>3. Cardinality(Holding(mem, "heap")) \in Nat /\ Cardinality(Holding(mem, "page")) \in Nat
      BY HoldingFinite
    <3> QED
      BY <3>1, <3>2, <3>3
  <2> QED
    BY <2>1, <2>2 DEF Memories, Where
<1> QED
  BY <1>1 DEF Typed, Somewhere, TypeOK

\* Every variable has its type; the directory that was found is one of the path table.
THEOREM TypeCorrect == Spec => []TypeOK
<1>1. Init => Typed /\ Somewhere /\ Safe
  BY TypedInit, SafeInit
<1>2. Typed /\ Somewhere /\ Safe /\ [Next]_vars => (Typed /\ Somewhere /\ Safe)'
  BY TypedStep, SafeStep
<1> QED
  BY <1>1, <1>2, TypeOKIs, PTL DEF Spec

\* A buffer the driver will still read has not been given back, and none is given back
\* that went to another variable, however much memory there is and wherever the buffers
\* come from: iso_free_bfr may be called twice for the parents, since nothing is
\* allocated in between.
THEOREM LiveAlways == Spec => []Live
<1>1. Init => Typed /\ Somewhere /\ Safe
  BY TypedInit, SafeInit
<1>2. Typed /\ Somewhere /\ Safe /\ [Next]_vars => (Typed /\ Somewhere /\ Safe)'
  BY TypedStep, SafeStep
<1>3. Safe => Live
  BY DEF Safe, MemoryOK, Live, Held
<1> QED
  BY <1>1, <1>2, <1>3, PTL DEF Spec

\* A file that is there is found, and no other one in its place, on every volume and
\* path on which the driver can tell the names apart: iso_search_in_path_table passes
\* over directories of the same name without passing over the one that is looked for.
THEOREM RightFileAlways == Spec => []RightFile
<1>1. Init => Typed /\ Somewhere /\ Right
  BY TypedInit DEF Init, Right
<1>2. Typed /\ Somewhere /\ Right /\ [Next]_vars => (Typed /\ Somewhere /\ Right)'
  BY TypedStep, RightStep
<1>3. Right => RightFile
  BY DEF Right, RightFile, Ready, Labels, Stops
<1> QED
  BY <1>1, <1>2, <1>3, PTL DEF Spec
=============================================================================
