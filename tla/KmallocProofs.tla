--------------------------- MODULE KmallocProofs ----------------------------
(***************************************************************************)
(* What holds of the kernel heap for every table length, every base        *)
(* address and every set of callers.                                       *)
(***************************************************************************)
EXTENDS Kmalloc, WellFoundedInduction, TLAPS

USE KmallocAssumption DEF NULL, None, Index

\* A number of blocks after the cast is one a uint8_t holds.
LEMMA BlocksType == ASSUME NEW n \in Requests
                    PROVE  Blocks(n) \in Nat /\ Blocks(n) < ByteMod
  BY DEF Blocks

\* The length kfree computes is not cut by the cast when the run is whole.
LEMMA LenExact == ASSUME NEW i \in Index, size[i] \in Nat, i + size[i] <= TableLen
                  PROVE  Len(i) = i + size[i]
<1>1. i + size[i] \in 0..(ByteMod - 1)
  OBVIOUS
<1>2. QED
  BY <1>1 DEF Len

LEMMA InitTable == Init => TypeOK /\ TableWellFormed
  BY DEF Init, TypeOK, TableWellFormed

\* The run of an entry in use, in terms of addresses.
Covers(i, j) == loc[i] <= Base + j /\ Base + j < loc[i] + size[i]

LEMMA RunOf ==
  ASSUME TypeOK, TableWellFormed, NEW i \in Index, loc[i] # 0
  PROVE  /\ loc[i] - Base \in Index
         /\ loc[i] <= Base + i
         /\ Base + i < loc[i] + size[i]
         /\ loc[i] + size[i] <= Base + TableLen
         /\ \A j \in Index : Covers(i, j) => loc[j] = loc[i] /\ size[j] = size[i]
<1>1. loc[i] \in Nat /\ size[i] \in Nat
  BY DEF TypeOK
<1>2. /\ RunStart(i) \in 0..i
      /\ RunEnd(i) \in (i + 1)..TableLen
      /\ \A j \in Index : j >= RunStart(i) /\ j < RunEnd(i) =>
            loc[j] = loc[i] /\ size[j] = size[i]
  BY DEF TableWellFormed
<1>3. QED
  BY <1>1, <1>2 DEF RunStart, RunEnd, Covers

\* In a well-formed table the address kmalloc computes from the neighbour is
\* the address of the entry the run starts at.
LEMMA LocationIsHere ==
  ASSUME TypeOK, TableWellFormed,
         NEW b \in Nat, b > 0,
         NEW s \in FirstFit(b)
  PROVE  Location(s) = Base + s
<1>1. /\ s \in Index /\ s + b <= TableLen
      /\ \A i \in s..(s + b - 1) : loc[i] = 0
      /\ \A t \in Fits(b) : s <= t
  BY DEF FirstFit, Fits
<1>2. CASE s = 0
  BY <1>2 DEF Location
<1>3. CASE s > 0
  <2> DEFINE p == s - 1
  <2>1. p \in Index /\ s = p + 1
    BY <1>1, <1>3
  <2>2. loc[p] # 0
    <3>1. SUFFICES ASSUME loc[p] = 0 PROVE FALSE
      OBVIOUS
    <3>2. \A i \in p..(p + b - 1) : loc[i] = 0
      BY <1>1, <2>1, <3>1
    <3>3. p \in Fits(b)
      BY <1>1, <2>1, <3>2 DEF Fits
    <3>4. QED
      BY <1>1, <2>1, <3>3
  <2> HIDE DEF p
  <2>3. loc[p] \in Nat /\ size[p] \in Nat
    BY <2>1 DEF TypeOK
  <2>4. Base + s <= loc[p] + size[p]
    BY <2>1, <2>2, <2>3, RunOf
  <2>5. ~Covers(p, s)
    BY <1>1, <2>1, <2>2, RunOf
  <2>6. loc[p] + size[p] = Base + s
    BY <1>1, <2>1, <2>2, <2>3, <2>4, <2>5, RunOf DEF Covers
  <2>7. Location(s) = loc[p] + size[p]
    BY <1>1, <1>3 DEF Location, p
  <2>8. QED
    BY <2>6, <2>7
<1>4. QED
  BY <1>1, <1>2, <1>3

\* kmalloc writes a whole run.
LEMMA MallocTable ==
  ASSUME TypeOK, TableWellFormed,
         NEW o \in Owners, NEW n \in Requests,
         Malloc(o, n)
  PROVE  TypeOK' /\ TableWellFormed'
<1> DEFINE b == Blocks(n)
<1>1. b \in Nat /\ b > 0
  BY BlocksType DEF Malloc
<1> HIDE DEF b
<1>2. PICK s \in FirstFit(b) : UpdateTable(s, Location(s), b) /\ Returns(o, n, Location(s))
  BY DEF Malloc, b
<1>3. /\ s \in Index /\ s + b <= TableLen
      /\ \A i \in s..(s + b - 1) : loc[i] = 0
  BY DEF FirstFit, Fits
<1> DEFINE p == Base + s
<1>4. Location(s) = p
  BY <1>1, <1>2, LocationIsHere
<1>5. p \in Nat /\ p # 0 /\ p - Base = s
  BY <1>3
<1> HIDE DEF p
<1>6. /\ loc' = [i \in Index |-> IF i \in s..(s + b - 1) THEN p ELSE loc[i]]
      /\ size' = [i \in Index |-> IF i \in s..(s + b - 1) THEN b ELSE size[i]]
  BY <1>2, <1>4 DEF UpdateTable
<1>7. TypeOK'
  BY <1>1, <1>2, <1>4, <1>5, <1>6 DEF TypeOK, Returns
<1>8. TableWellFormed'
  <2>1. SUFFICES ASSUME NEW i \in Index
                 PROVE  IF loc'[i] = 0
                        THEN size'[i] = 0
                        ELSE /\ loc'[i] - Base \in 0..i
                             /\ loc'[i] - Base + size'[i] \in (i + 1)..TableLen
                             /\ \A j \in Index :
                                   j >= loc'[i] - Base /\ j < loc'[i] - Base + size'[i] =>
                                      loc'[j] = loc'[i] /\ size'[j] = size'[i]
    BY DEF TableWellFormed, RunStart, RunEnd
  <2>2. CASE i \in s..(s + b - 1)
    <3>1. loc'[i] = p /\ size'[i] = b
      BY <1>6, <2>2
    <3>2. p - Base \in 0..i /\ p - Base + b \in (i + 1)..TableLen
      BY <1>1, <1>3, <1>5, <2>2
    <3>3. \A j \in Index : j >= p - Base /\ j < p - Base + b => j \in s..(s + b - 1)
      BY <1>1, <1>3, <1>5
    <3>4. \A j \in s..(s + b - 1) : j \in Index /\ loc'[j] = p /\ size'[j] = b
      BY <1>1, <1>3, <1>6
    <3>5. QED
      BY <1>5, <3>1, <3>2, <3>3, <3>4
  <2>3. CASE i \notin s..(s + b - 1)
    <3>1. loc'[i] = loc[i] /\ size'[i] = size[i]
      BY <1>6, <2>3
    <3>2. CASE loc[i] = 0
      BY <3>1, <3>2 DEF TableWellFormed
    <3>3. CASE loc[i] # 0
      <4>1. /\ loc[i] - Base \in 0..i
            /\ loc[i] - Base + size[i] \in (i + 1)..TableLen
            /\ \A j \in Index : j >= loc[i] - Base /\ j < loc[i] - Base + size[i] =>
                  loc[j] = loc[i] /\ size[j] = size[i]
        BY <3>3 DEF TableWellFormed, RunStart, RunEnd
      <4>2. \A j \in Index : loc[j] = loc[i] => loc'[j] = loc[j] /\ size'[j] = size[j]
        BY <1>3, <1>6, <3>3
      <4>3. QED
        BY <3>1, <3>3, <4>1, <4>2
    <3>4. QED
      BY <3>2, <3>3
  <2>4. QED
    BY <2>2, <2>3
<1>9. QED
  BY <1>7, <1>8

\* kfree clears the entries that carry the pointer, all of them and no other.
LEMMA FreeClears ==
  ASSUME TypeOK, TableWellFormed,
         NEW o \in Owners,
         Free(o)
  PROVE  /\ \E i \in Index : loc[i] = ptr[o]
         /\ loc' = [j \in Index |-> IF loc[j] = ptr[o] THEN 0 ELSE loc[j]]
         /\ size' = [j \in Index |-> IF loc[j] = ptr[o] THEN 0 ELSE size[j]]
<1>1. PICK i \in Index :
         /\ Finds(i, ptr[o])
         /\ loc' = [j \in Index |-> IF j \in i..(Len(i) - 1) THEN 0 ELSE loc[j]]
         /\ size' = [j \in Index |-> IF j \in i..(Len(i) - 1) THEN 0 ELSE size[j]]
  BY DEF Free
<1>2. /\ loc[i] = ptr[o] /\ loc[i] # 0
      /\ \A j \in Index : j < i => loc[j] # ptr[o]
  BY <1>1 DEF Finds, Free
<1>3. loc[i] \in Nat /\ size[i] \in Nat
  BY DEF TypeOK
<1>4. loc[i] = Base + i
  <2> DEFINE s == loc[i] - Base
  <2>1. s \in Index /\ s <= i /\ Covers(i, s)
    BY <1>2, <1>3, RunOf DEF Covers
  <2>2. loc[s] = ptr[o]
    BY <1>2, <2>1, RunOf
  <2>3. QED
    BY <1>2, <1>3, <2>1, <2>2
<1>5. i + size[i] <= TableLen /\ Len(i) = i + size[i]
  BY <1>2, <1>3, <1>4, RunOf, LenExact
<1>6. \A j \in Index : j \in i..(Len(i) - 1) => loc[j] = ptr[o]
  BY <1>2, <1>3, <1>4, <1>5, RunOf DEF Covers
<1>7. \A j \in Index : loc[j] = ptr[o] => j \in i..(Len(i) - 1)
  <2>1. SUFFICES ASSUME NEW j \in Index, loc[j] = ptr[o]
                 PROVE  j \in i..(Len(i) - 1)
    OBVIOUS
  <2>2. size[j] \in Nat
    BY DEF TypeOK
  <2>3. Covers(j, i)
    <3>1. loc[j] = Base + i /\ loc[j] # 0
      BY <1>2, <1>4, <2>1
    <3>2. loc[j] <= Base + j /\ Base + j < loc[j] + size[j]
      BY <3>1, RunOf
    <3>3. QED
      BY <2>2, <3>1, <3>2 DEF Covers
  <2>4. size[j] = size[i]
    BY <1>2, <2>1, <2>3, RunOf
  <2>5. QED
    BY <1>2, <1>3, <1>4, <1>5, <2>1, <2>4, RunOf
<1>8. QED
  BY <1>1, <1>2, <1>6, <1>7

LEMMA FreeTable ==
  ASSUME TypeOK, TableWellFormed,
         NEW o \in Owners,
         Free(o)
  PROVE  TypeOK' /\ TableWellFormed'
<1>1. TypeOK'
  BY FreeClears DEF TypeOK, Free, Forgets
<1>2. TableWellFormed'
  <2>1. SUFFICES ASSUME NEW i \in Index
                 PROVE  IF loc'[i] = 0
                        THEN size'[i] = 0
                        ELSE /\ loc'[i] - Base \in 0..i
                             /\ loc'[i] - Base + size'[i] \in (i + 1)..TableLen
                             /\ \A j \in Index :
                                   j >= loc'[i] - Base /\ j < loc'[i] - Base + size'[i] =>
                                      loc'[j] = loc'[i] /\ size'[j] = size'[i]
    BY DEF TableWellFormed, RunStart, RunEnd
  <2>2. CASE loc[i] = ptr[o]
    BY <2>2, FreeClears
  <2>3. CASE loc[i] # ptr[o]
    <3>1. loc'[i] = loc[i] /\ size'[i] = size[i]
      BY <2>3, FreeClears
    <3>2. \A j \in Index : loc[j] = loc[i] => loc'[j] = loc[j] /\ size'[j] = size[j]
      BY <2>3, FreeClears
    <3>3. QED
      BY <3>1, <3>2 DEF TableWellFormed, RunStart, RunEnd
  <2>4. QED
    BY <2>2, <2>3
<1>3. QED
  BY <1>1, <1>2

LEMMA NextTable == TypeOK /\ TableWellFormed /\ [Next]_vars => TypeOK' /\ TableWellFormed'
<1> SUFFICES ASSUME TypeOK, TableWellFormed, [Next]_vars
             PROVE  TypeOK' /\ TableWellFormed'
  OBVIOUS
\* Every action but Malloc and Free leaves the table alone.
<1>1. UNCHANGED <<loc, size>> => TableWellFormed'
  <2> SUFFICES ASSUME loc' = loc, size' = size PROVE TableWellFormed'
    OBVIOUS
  <2>1. \A i : RunStart(i)' = RunStart(i) /\ RunEnd(i)' = RunEnd(i)
    BY DEF RunStart, RunEnd
  <2> QED
    BY <2>1 DEF TableWellFormed
<1>2. ASSUME NEW o \in Owners, NEW n \in Requests, Malloc(o, n)
      PROVE  TypeOK' /\ TableWellFormed'
  BY <1>2, MallocTable
<1>3. ASSUME NEW o \in Owners, NEW n \in Requests, MallocNull(o, n)
      PROVE  TypeOK' /\ TableWellFormed'
  BY <1>1, <1>3 DEF MallocNull, Returns, TypeOK
<1>4. ASSUME NEW o \in Owners, NEW n \in Requests, MallocZero(o, n)
      PROVE  TypeOK' /\ TableWellFormed'
  <2>1. PICK k \in Index : k + 1 \in Index /\ Returns(o, n, loc[k + 1])
    BY <1>4 DEF MallocZero
  <2>2. loc[k + 1] \in Nat
    BY <2>1 DEF TypeOK
  <2>3. UNCHANGED <<loc, size>>
    BY <1>4 DEF MallocZero
  <2> QED
    BY <1>1, <2>1, <2>2, <2>3 DEF Returns, TypeOK
<1>5. ASSUME NEW o \in Owners, NEW n \in Requests, MallocZeroPastEnd(o, n)
      PROVE  TypeOK' /\ TableWellFormed'
  BY <1>1, <1>5 DEF MallocZeroPastEnd, Returns, TypeOK
<1>6. ASSUME NEW o \in Owners, FreeNull(o)
      PROVE  TypeOK' /\ TableWellFormed'
  BY <1>1, <1>6 DEF FreeNull, Forgets, TypeOK
<1>7. ASSUME NEW o \in Owners, Free(o)
      PROVE  TypeOK' /\ TableWellFormed'
  BY <1>7, FreeTable
<1>8. ASSUME NEW o \in Owners, FreeUnknown(o)
      PROVE  TypeOK' /\ TableWellFormed'
  BY <1>1, <1>8 DEF FreeUnknown, Forgets, TypeOK
<1>9. CASE UNCHANGED vars
  BY <1>1, <1>9 DEF vars, TypeOK
<1>10. QED
  BY <1>2, <1>3, <1>4, <1>5, <1>6, <1>7, <1>8, <1>9 DEF Next

\* Every state of the kernel heap has the declared types, whatever the callers
\* ask for and however they free it.
THEOREM TypeCorrect == Spec => []TypeOK
<1>1. TypeOK /\ TableWellFormed /\ [Next]_vars => (TypeOK /\ TableWellFormed)'
  BY NextTable
<1>2. QED
  BY InitTable, <1>1, PTL DEF Spec

\* The table stays a row of whole runs whatever the callers ask for and however
\* they free it: no sequence of kmalloc and kfree calls, in any order and with
\* any sizes, corrupts it.
THEOREM TableCorrect == Spec => []TableWellFormed
<1>1. TypeOK /\ TableWellFormed /\ [Next]_vars => (TypeOK /\ TableWellFormed)'
  BY NextTable
<1>2. QED
  BY InitTable, <1>1, PTL DEF Spec
-----------------------------------------------------------------------------
\* What ties the callers' pointers to the table.  The table alone cannot show
\* that no two callers share a block: it keeps no owner.
Ownership ==
    /\ \A o \in Owners : asked[o] = None => ptr[o] = 0
    /\ \A o \in Owners : ptr[o] # 0 =>
          /\ ptr[o] - Base \in Index
          /\ loc[ptr[o] - Base] = ptr[o]
          /\ size[ptr[o] - Base] = asked[o]
    /\ \A o, q \in Owners : o # q /\ ptr[o] # 0 => ptr[o] # ptr[q]
    /\ \A i \in Index : loc[i] # 0 => \E o \in Owners : ptr[o] = loc[i]

IInv == TypeOK /\ TableWellFormed /\ Ownership

LEMMA InitOwnership == Init => IInv
  BY InitTable DEF IInv, Ownership, Init

\* The blocks of a caller are exactly those whose entries carry its pointer.
LEMMA SpanIsRun ==
  ASSUME IInv, NEW o \in Owners
  PROVE  /\ \A i \in Index : Base + i \in Span(o) <=> (loc[i] = ptr[o] /\ ptr[o] # 0)
         /\ \A a \in Span(o) : a \in Nat /\ a - Base \in Index
<1> USE DEF IInv
<1>1. ptr[o] \in Nat /\ asked[o] \in Int
  <2>1. ptr[o] \in Nat /\ asked[o] \in Requests \cup {-1}
    BY DEF TypeOK
  <2>2. \A n \in Requests : n \in Int
    OBVIOUS
  <2>3. CASE asked[o] \in Requests
    BY <2>1, <2>2, <2>3
  <2>4. CASE asked[o] = -1
    BY <2>1, <2>4
  <2>5. QED
    BY <2>1, <2>3, <2>4
<1>2. CASE ptr[o] = 0
  BY <1>2 DEF Span
<1>3. CASE ptr[o] # 0
  <2> DEFINE s == ptr[o] - Base
  <2>1. s \in Index /\ loc[s] = ptr[o] /\ size[s] = asked[o] /\ ptr[o] = Base + s
    BY <1>1, <1>3 DEF Ownership
  <2> HIDE DEF s
  <2>2. /\ loc[s] <= Base + s /\ Base + s < loc[s] + size[s]
        /\ loc[s] + size[s] <= Base + TableLen
        /\ \A j \in Index : Covers(s, j) => loc[j] = loc[s] /\ size[j] = size[s]
    BY <1>3, <2>1, RunOf
  <2>3. Span(o) = ptr[o]..(ptr[o] + asked[o] - 1)
    BY <1>3 DEF Span
  <2> DEFINE n == asked[o]
  <2>a. /\ s \in Nat /\ n \in Int /\ ptr[o] = Base + s /\ s + n <= TableLen
        /\ loc[s] = Base + s /\ size[s] = n
    BY <1>1, <2>1, <2>2
  <2>b. Span(o) = (Base + s)..(Base + s + n - 1)
    BY <2>3, <2>a
  <2> HIDE DEF n
  <2>4. \A a \in Span(o) : a \in Nat /\ a - Base \in Index
    BY <2>a, <2>b
  <2>5. ASSUME NEW i \in Index PROVE Base + i \in Span(o) <=> Covers(s, i)
    <3>1. Base + i \in Span(o) <=> (Base + s <= Base + i /\ Base + i < Base + s + n)
      BY <2>a, <2>b
    <3>2. QED
      BY <2>a, <3>1 DEF Covers
  <2>6. ASSUME NEW i \in Index, loc[i] = ptr[o] PROVE Covers(s, i)
    <3>1. loc[i] <= Base + i /\ Base + i < loc[i] + size[i] /\ size[i] \in Nat
      BY <1>3, <2>6, RunOf DEF TypeOK
    <3>2. Covers(i, s)
      BY <1>1, <2>1, <2>6, <3>1 DEF Covers
    <3>3. size[s] = size[i]
      BY <1>3, <2>1, <2>6, <3>2, RunOf
    <3>4. QED
      BY <2>1, <2>6, <3>1, <3>3 DEF Covers
  <2>7. ASSUME NEW i \in Index, Covers(s, i) PROVE loc[i] = ptr[o]
    BY <2>1, <2>2, <2>7
  <2>8. QED
    BY <1>3, <2>4, <2>5, <2>6, <2>7
<1>4. QED
  BY <1>2, <1>3

\* For a sound request the run kmalloc writes is the caller's span.
LEMMA MallocEffect ==
  ASSUME IInv, SoundRequests,
         NEW o \in Owners, NEW n \in Requests,
         Malloc(o, n)
  PROVE  /\ n \in Nat /\ n > 0
         /\ asked[o] = -1
         /\ \E s \in FirstFit(n) :
               /\ s \in Index /\ s + n <= TableLen
               /\ \A i \in s..(s + n - 1) : loc[i] = 0
               /\ loc' = [i \in Index |-> IF i \in s..(s + n - 1) THEN Base + s ELSE loc[i]]
               /\ size' = [i \in Index |-> IF i \in s..(s + n - 1) THEN n ELSE size[i]]
               /\ ptr' = [ptr EXCEPT ![o] = Base + s]
               /\ asked' = [asked EXCEPT ![o] = n]
<1>1. n \in Nat /\ n > 0 /\ n \in 0..(ByteMod - 1)
  BY DEF SoundRequests
<1>2. Blocks(n) = n
  BY <1>1 DEF Blocks
<1>3. PICK s \in FirstFit(n) : UpdateTable(s, Location(s), n) /\ Returns(o, n, Location(s))
  BY <1>2 DEF Malloc
<1>4. Location(s) = Base + s
  BY <1>1, LocationIsHere DEF IInv
<1>5. s \in Index /\ s + n <= TableLen /\ \A i \in s..(s + n - 1) : loc[i] = 0
  BY DEF FirstFit, Fits
<1>6. asked[o] = -1
  BY DEF Malloc
<1>7. QED
  BY <1>1, <1>3, <1>4, <1>5, <1>6 DEF UpdateTable, Returns

LEMMA MallocOwnership ==
  ASSUME IInv, SoundRequests,
         NEW o \in Owners, NEW n \in Requests,
         Malloc(o, n)
  PROVE  Ownership'
<1>1. n \in Nat /\ n > 0
  BY MallocEffect
<1>2. PICK s \in Index :
         /\ s + n <= TableLen
         /\ \A i \in s..(s + n - 1) : loc[i] = 0
         /\ loc' = [i \in Index |-> IF i \in s..(s + n - 1) THEN Base + s ELSE loc[i]]
         /\ size' = [i \in Index |-> IF i \in s..(s + n - 1) THEN n ELSE size[i]]
         /\ ptr' = [ptr EXCEPT ![o] = Base + s]
         /\ asked' = [asked EXCEPT ![o] = n]
  BY MallocEffect
<1> DEFINE p == Base + s
<1>3. p \in Nat /\ p # 0 /\ p - Base = s /\ s \in s..(s + n - 1)
  BY <1>1
<1> HIDE DEF p
<1>4. /\ ptr' = [ptr EXCEPT ![o] = p]
      /\ loc' = [i \in Index |-> IF i \in s..(s + n - 1) THEN p ELSE loc[i]]
  BY <1>2 DEF p
<1>5. ptr \in [Owners -> Nat] /\ asked \in [Owners -> Requests \cup {-1}] /\ ptr[o] = 0
  BY MallocEffect DEF IInv, TypeOK, Ownership
<1>6. \A q \in Owners : q # o => ptr'[q] = ptr[q] /\ asked'[q] = asked[q]
  BY <1>2, <1>4, <1>5
<1>7. ptr'[o] = p /\ asked'[o] = n
  BY <1>2, <1>4, <1>5
\* No caller had the address of a free entry.
<1>8. ASSUME NEW q \in Owners, ptr[q] # 0
      PROVE  /\ ptr[q] # p
             /\ ptr[q] - Base \in Index
             /\ loc'[ptr[q] - Base] = ptr[q]
             /\ size'[ptr[q] - Base] = asked[q]
  <2> DEFINE t == ptr[q] - Base
  <2>1. t \in Index /\ loc[t] = ptr[q] /\ size[t] = asked[q]
    BY <1>8 DEF IInv, Ownership
  <2> HIDE DEF t
  <2>2. t \notin s..(s + n - 1)
    BY <1>2, <1>8, <2>1
  <2>3. loc'[t] = loc[t] /\ size'[t] = size[t]
    BY <1>2, <2>1, <2>2
  <2>4. t # s
    BY <1>3, <2>2
  <2>5. QED
    BY <1>3, <2>1, <2>3, <2>4 DEF t
<1>9. \A q \in Owners : asked'[q] = None => ptr'[q] = 0
  BY <1>1, <1>6, <1>7 DEF IInv, Ownership
<1>10. \A q \in Owners : ptr'[q] # 0 =>
          /\ ptr'[q] - Base \in Index
          /\ loc'[ptr'[q] - Base] = ptr'[q]
          /\ size'[ptr'[q] - Base] = asked'[q]
  <2>1. loc'[s] = p /\ size'[s] = n
    BY <1>2, <1>3, <1>4
  <2> SUFFICES ASSUME NEW q \in Owners, ptr'[q] # 0
               PROVE  /\ ptr'[q] - Base \in Index
                      /\ loc'[ptr'[q] - Base] = ptr'[q]
                      /\ size'[ptr'[q] - Base] = asked'[q]
    OBVIOUS
  <2>3. CASE q = o
    BY <1>3, <1>7, <2>1, <2>3
  <2>4. CASE q # o
    BY <1>6, <1>8, <2>4
  <2> QED
    BY <2>3, <2>4
<1>11. \A q, r \in Owners : q # r /\ ptr'[q] # 0 => ptr'[q] # ptr'[r]
  BY <1>3, <1>6, <1>7, <1>8 DEF IInv, Ownership
<1>12. \A i \in Index : loc'[i] # 0 => \E q \in Owners : ptr'[q] = loc'[i]
  <2>1. SUFFICES ASSUME NEW i \in Index, loc'[i] # 0
                 PROVE  \E q \in Owners : ptr'[q] = loc'[i]
    OBVIOUS
  <2>2. CASE i \in s..(s + n - 1)
    BY <1>4, <1>7, <2>2
  <2>3. CASE i \notin s..(s + n - 1)
    <3>1. loc'[i] = loc[i]
      BY <1>4, <2>3
    <3>2. PICK q \in Owners : ptr[q] = loc[i]
      BY <2>1, <3>1 DEF IInv, Ownership
    <3>3. q # o
      BY <1>5, <2>1, <3>1, <3>2
    <3>4. QED
      BY <1>6, <3>1, <3>2, <3>3
  <2>4. QED
    BY <2>2, <2>3
<1>13. QED
  BY <1>9, <1>10, <1>11, <1>12 DEF Ownership

LEMMA FreeOwnership ==
  ASSUME IInv, NEW o \in Owners, Free(o)
  PROVE  Ownership'
<1>1. /\ loc' = [j \in Index |-> IF loc[j] = ptr[o] THEN 0 ELSE loc[j]]
      /\ size' = [j \in Index |-> IF loc[j] = ptr[o] THEN 0 ELSE size[j]]
  BY FreeClears DEF IInv
<1>2. ptr \in [Owners -> Nat] /\ asked \in [Owners -> Requests \cup {-1}] /\ ptr[o] # 0
  BY DEF IInv, TypeOK, Free
<1>3. /\ ptr'[o] = 0 /\ asked'[o] = None
      /\ \A q \in Owners : q # o => ptr'[q] = ptr[q] /\ asked'[q] = asked[q]
  BY <1>2 DEF Free, Forgets
<1>4. \A q \in Owners : q # o /\ ptr[q] # 0 => ptr[q] # ptr[o]
  BY DEF IInv, Ownership
<1>5. \A q \in Owners : ptr'[q] # 0 =>
          /\ ptr'[q] - Base \in Index
          /\ loc'[ptr'[q] - Base] = ptr'[q]
          /\ size'[ptr'[q] - Base] = asked'[q]
  BY <1>1, <1>3, <1>4 DEF IInv, Ownership
<1>6. \A i \in Index : loc'[i] # 0 => \E q \in Owners : ptr'[q] = loc'[i]
  BY <1>1, <1>3 DEF IInv, Ownership
<1>7. /\ \A q \in Owners : asked'[q] = None => ptr'[q] = 0
      /\ \A q, r \in Owners : q # r /\ ptr'[q] # 0 => ptr'[q] # ptr'[r]
  BY <1>3, <1>4 DEF IInv, Ownership
<1>8. QED
  BY <1>5, <1>6, <1>7 DEF Ownership

\* Sound requests are never 0 blocks, and a caller's pointer is in the table.
LEMMA NoStrayCalls ==
  ASSUME IInv, SoundRequests, NEW o \in Owners
  PROVE  /\ ~FreeUnknown(o)
         /\ \A n \in Requests : ~MallocZero(o, n) /\ ~MallocZeroPastEnd(o, n)
<1>1. ~FreeUnknown(o)
  BY DEF IInv, Ownership, FreeUnknown
<1>2. ASSUME NEW n \in Requests PROVE Blocks(n) # 0
  <2>1. n > 0 /\ n \in 0..(ByteMod - 1)
    BY DEF SoundRequests
  <2>2. QED
    BY <2>1 DEF Blocks
<1>3. QED
  BY <1>1, <1>2 DEF MallocZero, MallocZeroPastEnd

\* Calls that leave the table alone, and the callers' pointers too.
LEMMA SamePointers ==
  ASSUME IInv, NEW o \in Owners, NEW n \in Requests \cup {-1},
         ptr[o] = 0, UNCHANGED <<loc, size, ptr>>, asked' = [asked EXCEPT ![o] = n]
  PROVE  Ownership'
<1>1. \A q \in Owners : q # o => asked'[q] = asked[q]
  BY DEF IInv, TypeOK
<1>2. QED
  BY <1>1 DEF IInv, Ownership

LEMMA NextIInv == SoundRequests /\ IInv /\ [Next]_vars => IInv'
<1> SUFFICES ASSUME SoundRequests, IInv, [Next]_vars PROVE IInv'
  OBVIOUS
<1>1. TypeOK' /\ TableWellFormed'
  BY NextTable DEF IInv
<1>2. ASSUME NEW o \in Owners, NEW n \in Requests, Malloc(o, n)
      PROVE  Ownership'
  BY <1>2, MallocOwnership
<1>3. ASSUME NEW o \in Owners, NEW n \in Requests, MallocNull(o, n)
      PROVE  Ownership'
  <2>1. ptr[o] = 0 /\ asked' = [asked EXCEPT ![o] = n] /\ UNCHANGED <<loc, size>>
    BY <1>3 DEF MallocNull, Returns, IInv, Ownership
  <2>2. ptr' = ptr
    BY <1>3, <2>1 DEF MallocNull, Returns, IInv, TypeOK
  <2>3. QED
    BY <2>1, <2>2, SamePointers
<1>4. ASSUME NEW o \in Owners, FreeNull(o)
      PROVE  Ownership'
  <2>1. ptr[o] = 0 /\ asked' = [asked EXCEPT ![o] = -1] /\ UNCHANGED <<loc, size>>
    BY <1>4 DEF FreeNull, Forgets
  <2>2. ptr' = ptr
    BY <1>4, <2>1 DEF FreeNull, Forgets, IInv, TypeOK
  <2>3. QED
    BY <2>1, <2>2, SamePointers
<1>5. ASSUME NEW o \in Owners, Free(o)
      PROVE  Ownership'
  BY <1>5, FreeOwnership
<1>6. CASE UNCHANGED vars
  <2>1. loc' = loc /\ size' = size /\ ptr' = ptr /\ asked' = asked
    BY <1>6 DEF vars
  <2>2. Ownership
    BY DEF IInv
  <2>3. QED
    BY <1>1, <2>1, <2>2 DEF Ownership, IInv
<1>7. CASE Next
  <2>1. PICK o \in Owners :
           \/ \E n \in Requests : \/ Malloc(o, n)
                                  \/ MallocNull(o, n)
                                  \/ MallocZero(o, n)
                                  \/ MallocZeroPastEnd(o, n)
           \/ FreeNull(o)
           \/ Free(o)
           \/ FreeUnknown(o)
    BY <1>7 DEF Next
  <2>2. \/ \E n \in Requests : Malloc(o, n) \/ MallocNull(o, n)
        \/ FreeNull(o)
        \/ Free(o)
    BY <2>1, NoStrayCalls
  <2>3. QED
    BY <1>1, <1>2, <1>3, <1>4, <1>5, <2>2 DEF IInv
<1>8. QED
  BY <1>1, <1>6, <1>7 DEF IInv

LEMMA IInvSafe == IInv => Disjoint /\ EnoughBlocks /\ NoBlockLost
<1> SUFFICES ASSUME IInv PROVE Disjoint /\ EnoughBlocks /\ NoBlockLost
  OBVIOUS
<1>1. Disjoint
  <2>1. SUFFICES ASSUME NEW o \in Owners, NEW q \in Owners, o # q, NEW a \in Span(o), a \in Span(q)
                 PROVE  FALSE
    BY DEF Disjoint
  <2>2. a \in Nat /\ a - Base \in Index /\ Base + (a - Base) = a
    BY SpanIsRun
  <2>3. ptr[o] = loc[a - Base] /\ ptr[o] # 0 /\ ptr[q] = loc[a - Base]
    BY <2>1, <2>2, SpanIsRun
  <2>4. QED
    BY <2>1, <2>3 DEF IInv, Ownership
<1>2. EnoughBlocks
  <2>1. SUFFICES ASSUME NEW o \in Owners, NEW a \in Span(o)
                 PROVE  a - Base \in Index /\ loc[a - Base] = ptr[o]
    BY DEF EnoughBlocks
  <2>2. a - Base \in Index /\ Base + (a - Base) = a
    BY SpanIsRun
  <2>3. QED
    BY <2>2, SpanIsRun
<1>3. NoBlockLost
  BY SpanIsRun DEF NoBlockLost, IInv, Ownership
<1>4. QED
  BY <1>1, <1>2, <1>3

LEMMA InvariantHolds == SoundRequests => (Spec => []IInv)
<1> SUFFICES ASSUME SoundRequests PROVE Spec => []IInv
  OBVIOUS
<1>1. IInv /\ [Next]_vars => IInv'
  BY NextIInv
<1>2. QED
  BY InitOwnership, <1>1, PTL DEF Spec

\* No two callers of kmalloc ever share a block, for callers that ask for at
\* least one block and no more than a uint8_t counts.
THEOREM DisjointAlways == SoundRequests => (Spec => []Disjoint)
<1> SUFFICES ASSUME SoundRequests PROVE Spec => []Disjoint
  OBVIOUS
<1>1. QED
  BY InvariantHolds, IInvSafe, PTL

\* Such a caller always gets the blocks it asked for, inside the heap.
THEOREM EnoughAlways == SoundRequests => (Spec => []EnoughBlocks)
<1> SUFFICES ASSUME SoundRequests PROVE Spec => []EnoughBlocks
  OBVIOUS
<1>1. QED
  BY InvariantHolds, IInvSafe, PTL

\* And a block marked in use is always some caller's.
THEOREM NothingLost == SoundRequests => (Spec => []NoBlockLost)
<1> SUFFICES ASSUME SoundRequests PROVE Spec => []NoBlockLost
  OBVIOUS
<1>1. QED
  BY InvariantHolds, IInvSafe, PTL
-----------------------------------------------------------------------------
(* Kmalloc implements Heap: own[o] is read as Span(o). *)

LEMMA RefinesInit == Init => Abstract!Init
  BY DEF Init, Abstract!Init, Span

\* The run kmalloc writes was free, and is what the caller then has.
LEMMA RefinesMalloc ==
  ASSUME IInv, SoundRequests,
         NEW o \in Owners, NEW n \in Requests,
         Malloc(o, n)
  PROVE  Abstract!Grant(o, n)
<1>1. n \in Nat /\ n > 0 /\ asked[o] = -1
  BY MallocEffect
<1>2. PICK s \in Index :
         /\ s + n <= TableLen
         /\ \A i \in s..(s + n - 1) : loc[i] = 0
         /\ ptr' = [ptr EXCEPT ![o] = Base + s]
         /\ asked' = [asked EXCEPT ![o] = n]
  BY MallocEffect
<1> DEFINE run == (Base + s)..(Base + s + n - 1)
<1>3. run \in Abstract!Runs(n)
  BY <1>1, <1>2 DEF Abstract!Runs
<1>4. run \cap Abstract!Used = {}
  <2>1. SUFFICES ASSUME NEW a \in run, NEW q \in Owners, a \in Span(q)
                 PROVE  FALSE
    BY DEF Abstract!Used
  <2>2. a - Base \in s..(s + n - 1) /\ Base + (a - Base) = a /\ a - Base \in Index
    BY <1>1, <1>2, <2>1
  <2>3. loc[a - Base] = 0
    BY <1>2, <2>2
  <2>4. QED
    BY <2>1, <2>2, <2>3, SpanIsRun
<1>5. [q \in Owners |-> Span(q)]' = [[q \in Owners |-> Span(q)] EXCEPT ![o] = run]
  <2>1. ptr \in [Owners -> Nat] /\ asked \in [Owners -> Requests \cup {-1}]
    BY DEF IInv, TypeOK
  <2>2. Span(o)' = run
    BY <1>1, <1>2, <2>1 DEF Span
  <2>3. \A q \in Owners : q # o => Span(q)' = Span(q)
    BY <1>2, <2>1 DEF Span
  <2>4. QED
    BY <2>2, <2>3
<1>6. QED
  BY <1>1, <1>2, <1>3, <1>4, <1>5 DEF Abstract!Grant

\* kmalloc returns NULL only when every run of n blocks meets a caller's.
LEMMA RefinesNull ==
  ASSUME IInv, SoundRequests,
         NEW o \in Owners, NEW n \in Requests,
         MallocNull(o, n)
  PROVE  Abstract!Refuse(o, n)
<1>1. n \in Nat /\ n > 0 /\ n \in 0..(ByteMod - 1)
  BY DEF SoundRequests
<1>2. Fits(n) = {}
  BY <1>1 DEF MallocNull, Blocks
<1>3. ASSUME NEW run \in Abstract!Runs(n) PROVE run \cap Abstract!Used # {}
  <2>1. PICK a \in Base..(Base + TableLen - n) : run = a..(a + n - 1)
    BY DEF Abstract!Runs
  <2> DEFINE s == a - Base
  <2>2. s \in Index /\ s + n <= TableLen
    BY <1>1, <2>1
  <2>3. PICK i \in s..(s + n - 1) : loc[i] # 0
    BY <1>2, <2>2 DEF Fits
  <2>4. i \in Index /\ Base + i \in run
    BY <1>1, <2>1, <2>2
  <2>5. PICK q \in Owners : ptr[q] = loc[i]
    BY <2>3, <2>4 DEF IInv, Ownership
  <2>6. Base + i \in Span(q)
    BY <2>3, <2>4, <2>5, SpanIsRun
  <2>7. QED
    BY <2>4, <2>6 DEF Abstract!Used
<1>4. ptr \in [Owners -> Nat] /\ asked \in [Owners -> Requests \cup {-1}] /\ ptr[o] = 0
  BY DEF IInv, TypeOK, Ownership, MallocNull
<1>5. ptr' = ptr /\ asked[o] = -1 /\ asked' = [asked EXCEPT ![o] = n]
  BY <1>4 DEF MallocNull, Returns
<1>6. [q \in Owners |-> Span(q)]' = [q \in Owners |-> Span(q)]
  BY <1>4, <1>5 DEF Span
<1>7. QED
  BY <1>3, <1>5, <1>6 DEF Abstract!Refuse

LEMMA RefinesFree ==
  ASSUME IInv, NEW o \in Owners, Free(o) \/ FreeNull(o)
  PROVE  Abstract!Release(o)
<1>1. ptr \in [Owners -> Nat] /\ asked \in [Owners -> Requests \cup {-1}]
  BY DEF IInv, TypeOK
<1>2. /\ asked[o] # -1
      /\ ptr' = [ptr EXCEPT ![o] = 0]
      /\ asked' = [asked EXCEPT ![o] = -1]
  BY DEF Free, FreeNull, Forgets
<1>3. [q \in Owners |-> Span(q)]' = [[q \in Owners |-> Span(q)] EXCEPT ![o] = {}]
  <2>1. Span(o)' = {}
    BY <1>1, <1>2 DEF Span
  <2>2. \A q \in Owners : q # o => Span(q)' = Span(q)
    BY <1>1, <1>2 DEF Span
  <2>3. QED
    BY <2>1, <2>2
<1>4. QED
  BY <1>2, <1>3 DEF Abstract!Release

LEMMA RefinesNext ==
  SoundRequests /\ IInv /\ [Next]_vars => [Abstract!Next]_(Abstract!vars)
<1> SUFFICES ASSUME SoundRequests, IInv, [Next]_vars
             PROVE  [Abstract!Next]_(Abstract!vars)
  OBVIOUS
<1>1. CASE UNCHANGED vars
  <2>1. ptr' = ptr /\ asked' = asked
    BY <1>1 DEF vars
  <2>2. [q \in Owners |-> Span(q)]' = [q \in Owners |-> Span(q)]
    BY <2>1 DEF Span
  <2>3. QED
    BY <2>1, <2>2 DEF Abstract!vars
<1>2. CASE Next
  <2>1. PICK o \in Owners :
           \/ \E n \in Requests : \/ Malloc(o, n)
                                  \/ MallocNull(o, n)
                                  \/ MallocZero(o, n)
                                  \/ MallocZeroPastEnd(o, n)
           \/ FreeNull(o)
           \/ Free(o)
           \/ FreeUnknown(o)
    BY <1>2 DEF Next
  <2>2. CASE \E n \in Requests : Malloc(o, n) \/ MallocNull(o, n)
    BY <2>2, RefinesMalloc, RefinesNull DEF Abstract!Next
  <2>3. CASE FreeNull(o) \/ Free(o)
    BY <2>3, RefinesFree DEF Abstract!Next
  <2>4. QED
    BY <2>1, <2>2, <2>3, NoStrayCalls
<1>3. QED
  BY <1>1, <1>2

\* The kernel heap implements the abstract heap, for callers that ask for at
\* least one block and no more than a uint8_t counts.
THEOREM ImplementsHeap == SoundRequests => (Spec => HeapSpec)
<1> SUFFICES ASSUME SoundRequests PROVE Spec => HeapSpec
  OBVIOUS
<1>1. IInv /\ [Next]_vars => [Abstract!Next]_(Abstract!vars)
  BY RefinesNext
<1>2. QED
  BY RefinesInit, InvariantHolds, <1>1, PTL DEF Spec, HeapSpec, Abstract!Spec
-----------------------------------------------------------------------------
(* The scan.                                                                *)

\* Induction over the natural numbers for a set of them.
LEMMA NatInd ==
    ASSUME NEW S, 0 \in S, \A n \in Nat : n \in S => n + 1 \in S
    PROVE  Nat \subseteq S
<1> SUFFICES ASSUME Nat \ S # {} PROVE FALSE
  OBVIOUS
<1> DEFINE less == {ss \in Nat \X Nat : ss[1] < ss[2]}
<1>a. IsWellFoundedOn(less, Nat)
  BY NatLessThanWellFounded DEF OpToRel
<1> HIDE DEF less
<1>1. PICK n \in Nat \ S : \A m \in Nat \ S : ~ (<<m, n>> \in less)
  BY <1>a, WFMin
<1>2. \A m \in Nat \ S : ~ (m < n)
  BY <1>1 DEF less
<1>3. n - 1 \in Nat /\ n - 1 \in S
  BY <1>2
<1> QED
  BY <1>3

\* The counter goes up at a free entry and starts again behind one in use.
LEMMA AvailableUnfolds ==
    \A i \in Index : Available[i] = IF loc[i] # NULL THEN 0 ELSE (IF i = 0 THEN 0 ELSE Available[i - 1]) + 1
<1> DEFINE Body(f, i) == Counted(i, IF i = 0 THEN 0 ELSE f[i - 1])
           S == {n \in Nat : \E f : f = [i \in 0..n |-> Body(f, i)]}
<1>0. TableLen - 1 \in Nat
  OBVIOUS
<1>a. Available = CHOOSE h : h = [i \in 0..TableLen - 1 |-> Body(h, i)]
  BY DEF Available
<1>b. \A f, g, i : (i = 0 \/ f[i - 1] = g[i - 1]) => Body(f, i) = Body(g, i)
  OBVIOUS
<1>c. \A i \in Index : Body(Available, i) = Counted(i, IF i = 0 THEN 0 ELSE Available[i - 1])
  OBVIOUS
<1> HIDE DEF Body
<1>1. 0 \in S
  <2> DEFINE g == [i \in 0..0 |-> Body(<<>>, i)]
  <2>1. g = [i \in 0..0 |-> Body(g, i)]
    BY <1>b
  <2> HIDE DEF g
  <2> QED
    BY <2>1
<1>2. ASSUME NEW n \in Nat, n \in S PROVE n + 1 \in S
  <2>1. PICK f : f = [i \in 0..n |-> Body(f, i)]
    BY <1>2
  <2> DEFINE g == [i \in 0..n + 1 |-> Body(f, i)]
  <2>2. \A i \in 0..n : g[i] = f[i]
    BY <2>1
  <2>3. g = [i \in 0..n + 1 |-> Body(f, i)]
    OBVIOUS
  <2> HIDE DEF g
  <2>4. \A i \in 0..n + 1 : Body(f, i) = Body(g, i)
    <3> SUFFICES ASSUME NEW i \in 0..n + 1 PROVE i = 0 \/ f[i - 1] = g[i - 1]
      BY <1>b
    <3>1. i # 0 => i - 1 \in 0..n
      OBVIOUS
    <3> QED
      BY <2>2, <3>1
  <2>5. g = [i \in 0..n + 1 |-> Body(g, i)]
    BY <2>3, <2>4
  <2> QED
    BY <2>5
<1>3. \E h : h = [i \in 0..TableLen - 1 |-> Body(h, i)]
  <2>1. TableLen - 1 \in S
    <3> HIDE DEF S
    <3> QED
      BY <1>0, <1>1, <1>2, NatInd
  <2> QED
    BY <2>1
<1>4. Available = [i \in 0..TableLen - 1 |-> Body(Available, i)]
  BY <1>3, <1>a
<1>5. \A i \in Index : Available[i] = Counted(i, IF i = 0 THEN 0 ELSE Available[i - 1])
  BY <1>4, <1>c
<1> QED
  BY <1>5 DEF Counted

\* The counter is the length of the free run that ends at the entry.
RunTo(e, a) == /\ a \in 0..e + 1
               /\ \A j \in e - a + 1..e : loc[j] = NULL
               /\ a # e + 1 => loc[e - a] # NULL

LEMMA AvailableIs == \A e \in Index : RunTo(e, Available[e])
<1> DEFINE T == {n \in Nat : n \in Index => RunTo(n, Available[n])}
<1>1. 0 \in T
  <2>1. Available[0] = IF loc[0] # NULL THEN 0 ELSE 0 + 1
    BY AvailableUnfolds
  <2> QED
    BY <2>1 DEF RunTo
<1>2. ASSUME NEW n \in Nat, n \in T PROVE n + 1 \in T
  <2> SUFFICES ASSUME n + 1 \in Index PROVE RunTo(n + 1, Available[n + 1])
    OBVIOUS
  <2> DEFINE a == Available[n]
  <2>1. RunTo(n, a)
    BY <1>2
  <2>2. Available[n + 1] = IF loc[n + 1] # NULL THEN 0 ELSE a + 1
    BY AvailableUnfolds
  <2> HIDE DEF a
  <2>3. a \in 0..n + 1
    BY <2>1 DEF RunTo
  <2>4. CASE loc[n + 1] # NULL
    BY <2>2, <2>4 DEF RunTo
  <2>5. CASE loc[n + 1] = NULL
    <3>1. 1 + a \in 0..(n + 1) + 1 /\ (n + 1) - (1 + a) + 1 = n - a + 1 /\ (n + 1) - (1 + a) = n - a
      BY <2>3
    <3>2. \A j \in n - a + 1..n + 1 : j \in n - a + 1..n \/ j = n + 1
      BY <2>3
    <3>3. 1 + a # (n + 1) + 1 => a # n + 1
      BY <2>3
    <3>4. RunTo(n + 1, 1 + a)
      BY <2>1, <2>5, <3>1, <3>2, <3>3 DEF RunTo
    <3> QED
      BY <2>2, <2>3, <2>5, <3>4
  <2> QED
    BY <2>4, <2>5
<1>3. Nat \subseteq T
  <2> HIDE DEF T
  <2> QED
    BY <1>1, <1>2, NatInd
<1> QED
  BY <1>3

\* The first entry of the run the counter counts.
From(e) == e - Available[e] + 1

\* Entries of the same run count from the same one.
LEMMA SameRun ==
    ASSUME NEW e \in Index, NEW i \in From(e)..e
    PROVE  i \in Index /\ From(i) = From(e)
<1> DEFINE r == From(e)
           q == From(i)
<1>1. /\ r \in 0..e + 1 /\ (\A j \in r..e : loc[j] = NULL) /\ (r # 0 => loc[r - 1] # NULL)
      /\ i \in Index
  BY AvailableIs DEF RunTo, From
<1>2. q \in 0..i + 1 /\ (\A j \in q..i : loc[j] = NULL) /\ (q # 0 => loc[q - 1] # NULL)
  BY <1>1, AvailableIs DEF RunTo, From
<1>3. r \in Nat /\ q \in Nat /\ i \in r..e
  BY <1>1, <1>2
<1> HIDE DEF r, q
<1>4. ~ q < r
  <2>1. q < r => r - 1 \in q..i /\ r # 0
    BY <1>3
  <2> QED
    BY <1>1, <1>2, <2>1
<1>5. ~ r < q
  <2>1. r < q => q - 1 \in r..e /\ q # 0
    BY <1>2, <1>3
  <2> QED
    BY <1>1, <1>2, <2>1
<1>6. q = r
  BY <1>3, <1>4, <1>5
<1> QED
  BY <1>1, <1>6 DEF q, r

\* A free run that ends at e lies inside the one the counter counts.
LEMMA RunCounted ==
    ASSUME NEW e \in Index, NEW s \in 0..e, \A j \in s..e : loc[j] = NULL
    PROVE  From(e) <= s
<1> DEFINE r == From(e)
<1>1. r \in 0..e + 1 /\ (r # 0 => loc[r - 1] # NULL)
  BY AvailableIs DEF RunTo, From
<1> HIDE DEF r
<1>2. s < r => r - 1 \in s..e /\ r # 0
  BY <1>1
<1> QED
  BY <1>1, <1>2 DEF r

LEMMA ScanFinds ==
    ASSUME NEW b \in 1..TableLen
    PROVE  FirstFit(b) = {s \in Index : \E e \in Index : BreaksAt(b, e) /\ s = e - b + 1}
<1>1. \A e \in Index : /\ From(e) \in 0..e + 1 /\ Available[e] \in 0..e + 1 /\ Available[e] = e - From(e) + 1
                      /\ \A j \in From(e)..e : loc[j] = NULL
  BY AvailableIs DEF RunTo, From
<1>2. ASSUME NEW e \in Index, Available[e] = b
      PROVE  e - b + 1 \in Fits(b)
  <2>1. From(e) = e - b + 1 /\ From(e) \in Index /\ From(e) + b - 1 = e /\ From(e) + b <= TableLen
    BY <1>1, <1>2
  <2> QED
    BY <1>1, <2>1 DEF Fits
<1>3. ASSUME NEW t \in Fits(b)
      PROVE  \E i \in Index : Available[i] = b /\ i <= t + b - 1
  <2> DEFINE e == t + b - 1
             r == From(e)
  <2>1. e \in Index /\ t \in 0..e /\ \A j \in t..e : loc[j] = NULL
    BY DEF Fits
  <2>2. r <= t
    BY <2>1, RunCounted
  <2>3. r \in Nat
    BY <1>1, <2>1
  <2> HIDE DEF r
  <2>4. r + b - 1 \in r..e /\ r + b - 1 <= t + b - 1
    BY <2>1, <2>2, <2>3
  <2>5. r + b - 1 \in Index /\ From(r + b - 1) = r
    BY <2>1, <2>4, SameRun DEF r
  <2>6. Available[r + b - 1] = b
    <3>1. Available[r + b - 1] = (r + b - 1) - r + 1
      BY <1>1, <2>5
    <3> QED
      BY <2>3, <3>1
  <2> QED
    BY <2>4, <2>5, <2>6
<1>4. ASSUME NEW e \in Index, BreaksAt(b, e)
      PROVE  e - b + 1 \in FirstFit(b)
  <2>1. e - b + 1 \in Fits(b)
    BY <1>2, <1>4 DEF BreaksAt
  <2>2. ASSUME NEW t \in Fits(b) PROVE e - b + 1 <= t
    <3>1. PICK i \in Index : Available[i] = b /\ i <= t + b - 1
      BY <1>3
    <3>2. ~ i < e
      BY <1>4, <3>1 DEF BreaksAt
    <3>3. t \in Nat
      BY DEF Fits
    <3> QED
      BY <3>1, <3>2, <3>3
  <2> QED
    BY <2>1, <2>2 DEF FirstFit
<1>5. ASSUME NEW s \in FirstFit(b)
      PROVE  s \in Index /\ \E e \in Index : BreaksAt(b, e) /\ s = e - b + 1
  <2>1. s \in Fits(b) /\ s \in Index /\ \A t \in Fits(b) : s <= t
    BY DEF FirstFit, Fits
  <2>2. PICK e \in Index : Available[e] = b /\ e <= s + b - 1
    BY <1>3, <2>1
  <2>3. s <= e - b + 1
    BY <1>2, <2>1, <2>2
  <2>4. s = e - b + 1
    BY <2>1, <2>2, <2>3
  <2>5. ASSUME NEW i \in Index, i < e, Available[i] = b PROVE FALSE
    <3>1. s <= i - b + 1
      BY <1>2, <2>1, <2>5
    <3> QED
      BY <2>4, <2>5, <3>1
  <2> QED
    BY <2>1, <2>2, <2>4, <2>5 DEF BreaksAt
<1>6. FirstFit(b) \subseteq Index
  BY DEF FirstFit, Fits
<1> QED
  BY <1>4, <1>5, <1>6

\* One pass with one counter finds the lowest run of free entries, for a table of any
\* length in any state.
THEOREM ScanIsFirstFitAlways == Spec => []ScanIsFirstFit
<1>1. ScanIsFirstFit
  BY ScanFinds DEF ScanIsFirstFit
<1> QED
  BY <1>1, PTL
=============================================================================
