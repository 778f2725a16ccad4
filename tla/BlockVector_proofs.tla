------------------------- MODULE BlockVector_proofs -------------------------
(***************************************************************************)
(* The block vector destroys only empty heaps, keeps its empty flag honest *)
(* and its length within the limits, whatever the number of heaps and      *)
(* allocations, the sizes, and the order of the calls; and the passes of   *)
(* defragmentation on it keep to their limits, leave no temporary behind   *)
(* and move forward only, whatever other threads and the user do.          *)
(***************************************************************************)
EXTENDS Defrag, FiniteSetTheorems, SequenceTheorems, WellFoundedInduction, TLAPS

Distinct(s) == \A i, j \in DOMAIN s : i # j => s[i] # s[j]

(* t holds the elements of T, each once: a vector of the members of T.     *)
VectorOf(t, T, n) ==
  t \in Seq(BlockIds) /\ Len(t) = n /\ Range(t) = T /\ Distinct(t)

(* b is not behind c. *)
Before(q, b, c) == \E k, l \in DOMAIN q : k <= l /\ q[k] = b /\ q[l] = c

-----------------------------------------------------------------------------
(* A set of numbers that is not empty has a least one. *)
LEMMA MinExists ==
  ASSUME NEW T \in SUBSET Nat, T # {}
  PROVE  Min(T) \in T
  <1> DEFINE R == OpToRel(<, Nat)
  <1>1. IsWellFoundedOn(R, Nat)
    BY NatLessThanWellFounded
  <1>2. \A x, y \in Nat : y < x => <<y, x>> \in R
    BY DEF OpToRel
  <1> HIDE DEF R
  <1>3. PICK x \in T : \A y \in T : ~ (<<y, x>> \in R)
    BY <1>1, WFMin
  <1>4. \A y \in T : x <= y
    <2>1. TAKE y \in T
    <2>2. x \in Nat /\ y \in Nat
      OBVIOUS
    <2>3. ~ (y < x)
      BY <1>2, <1>3, <2>2
    <2>4. QED
      BY <2>2, <2>3
  <1>5. QED
    BY <1>4 DEF Min

(* Erasing one element of a vector leaves a vector of the others, in the   *)
(* order they had.                                                         *)
LEMMA RemoveFirstFacts ==
  ASSUME NEW s, NEW e, NEW T, NEW n, VectorOf(s, T, n), e \in T
  PROVE  /\ VectorOf(RemoveFirst(s, e), T \ {e}, n - 1)
         /\ \A b, c : b # e /\ c # e /\ Before(s, b, c) => Before(RemoveFirst(s, e), b, c)
  <1> DEFINE I == {i \in 1 .. Len(s) : s[i] = e}
             k == Min(I)
             r == RemoveFirst(s, e)
  <1>0. s \in Seq(BlockIds) /\ DOMAIN s = 1 .. Len(s) /\ Len(s) \in Nat
        /\ n = Len(s) /\ \A i \in 1 .. Len(s) : s[i] \in BlockIds
    BY LenProperties, ElementOfSeq DEF VectorOf
  <1>1. I # {} /\ I \subseteq Nat
    BY <1>0 DEF VectorOf, Range
  <1>2. k \in 1 .. Len(s) /\ s[k] = e
    BY <1>0, <1>1, MinExists
  <1>3. r = SubSeq(s, 1, k - 1) \o SubSeq(s, k + 1, Len(s))
    BY <1>1 DEF RemoveFirst, RemoveAt, SelectInSeq
  <1> HIDE DEF I, k, r
  <1>4. /\ SubSeq(s, 1, k - 1) \in Seq(BlockIds)
        /\ Len(SubSeq(s, 1, k - 1)) = k - 1
        /\ \A i \in 1 .. k - 1 : SubSeq(s, 1, k - 1)[i] = s[i]
    <2>1. k - 1 \in Int /\ \A i \in 1 .. k - 1 : s[i] \in BlockIds
      BY <1>0, <1>2
    <2>2. \A i \in 1 .. (k - 1) - 1 + 1 : 1 + i - 1 = i
      OBVIOUS
    <2>3. /\ SubSeq(s, 1, k - 1) \in Seq(BlockIds)
          /\ Len(SubSeq(s, 1, k - 1)) = IF 1 <= k - 1 THEN k - 1 - 1 + 1 ELSE 0
          /\ \A i \in 1 .. k - 1 - 1 + 1 : SubSeq(s, 1, k - 1)[i] = s[1 + i - 1]
      BY <2>1, SubSeqProperties
    <2>4. QED
      BY <2>2, <2>3, <1>0, <1>2
  <1>5. /\ SubSeq(s, k + 1, Len(s)) \in Seq(BlockIds)
        /\ Len(SubSeq(s, k + 1, Len(s))) = Len(s) - k
        /\ \A i \in 1 .. Len(s) - k : SubSeq(s, k + 1, Len(s))[i] = s[k + i]
    <2> DEFINE m == k + 1
               l == Len(s)
    <2>1. m \in Int /\ l \in Int /\ \A i \in m .. l : s[i] \in BlockIds
      BY <1>0, <1>2
    <2> HIDE DEF m, l
    <2>2. /\ SubSeq(s, m, l) \in Seq(BlockIds)
          /\ Len(SubSeq(s, m, l)) = IF m <= l THEN l - m + 1 ELSE 0
          /\ \A i \in 1 .. l - m + 1 : SubSeq(s, m, l)[i] = s[m + i - 1]
      BY <2>1, SubSeqProperties
    <2>3. \A i \in 1 .. l - k : m + i - 1 = k + i
      BY <1>0, <1>2 DEF m, l
    <2>4. l - m + 1 = l - k /\ (~ (m <= l) => 0 = l - k)
      <3>1. k \in Int /\ l \in Int /\ k <= l
        BY <1>0, <1>2 DEF l
      <3>2. QED
        BY <3>1 DEF m
    <2>5. Len(SubSeq(s, m, l)) = l - k
      BY <2>2, <2>4
    <2>6. QED
      BY <2>2, <2>3, <2>4, <2>5 DEF m, l
  <1>6. /\ r \in Seq(BlockIds)
        /\ Len(r) = Len(s) - 1
        /\ \A i \in 1 .. Len(s) - 1 :
             r[i] = IF i < k THEN s[i] ELSE s[i + 1]
    <2>1. /\ r \in Seq(BlockIds)
          /\ Len(r) = (k - 1) + (Len(s) - k)
          /\ \A i \in 1 .. (k - 1) + (Len(s) - k) :
               r[i] = IF i <= k - 1 THEN SubSeq(s, 1, k - 1)[i]
                      ELSE SubSeq(s, k + 1, Len(s))[i - (k - 1)]
      BY <1>3, <1>4, <1>5, ConcatProperties, SMTT(30)
    <2>2. \A i \in 1 .. Len(s) - 1 : r[i] = IF i < k THEN s[i] ELSE s[i + 1]
      <3>1. TAKE i \in 1 .. Len(s) - 1
      <3>2. CASE i < k
        BY <1>0, <1>2, <1>4, <2>1, <3>2
      <3>3. CASE ~ (i < k)
        <4>1. i - (k - 1) \in 1 .. Len(s) - k /\ k + (i - (k - 1)) = i + 1
          BY <1>0, <1>2, <3>3
        <4>2. SubSeq(s, k + 1, Len(s))[i - (k - 1)] = s[k + (i - (k - 1))]
          BY <4>1, <1>5
        <4>3. QED
          BY <1>0, <1>2, <2>1, <3>3, <4>1, <4>2
      <3>4. QED
        BY <3>2, <3>3
    <2>3. QED
      BY <1>0, <1>2, <2>1, <2>2
  <1>7. DOMAIN r = 1 .. Len(s) - 1
    BY <1>6, LenProperties
  <1>8. Distinct(r)
    <2>1. SUFFICES ASSUME NEW i \in DOMAIN r, NEW j \in DOMAIN r, i # j
                   PROVE  r[i] # r[j]
      BY DEF Distinct
    <2>2. i \in 1 .. Len(s) - 1 /\ j \in 1 .. Len(s) - 1
      BY <1>7
    <2>3. \A x, y \in 1 .. Len(s) : x # y => s[x] # s[y]
      BY <1>0 DEF VectorOf, Distinct
    <2> DEFINE at(x) == IF x < k THEN x ELSE x + 1
    <2>4. at(i) \in 1 .. Len(s) /\ at(j) \in 1 .. Len(s) /\ at(i) # at(j)
      BY <1>0, <1>2, <2>1, <2>2 DEF VectorOf
    <2>5. r[i] = s[at(i)] /\ r[j] = s[at(j)]
      BY <1>6, <2>2
    <2> HIDE DEF at
    <2>6. QED
      BY <2>3, <2>4, <2>5
  <1>9. Range(r) = T \ {e}
    <2>1. ASSUME NEW b \in Range(r) PROVE b \in T \ {e}
      <3>1. PICK i \in 1 .. Len(s) - 1 : b = r[i]
        BY <2>1, <1>7 DEF Range
      <3>2. PICK j \in 1 .. Len(s) : b = s[j] /\ j # k
        BY <3>1, <1>0, <1>2, <1>6
      <3>3. QED
        BY <3>2, <1>0, <1>2 DEF VectorOf, Range, Distinct
    <2>2. ASSUME NEW b \in T, b # e PROVE b \in Range(r)
      <3>1. PICK j \in 1 .. Len(s) : b = s[j] /\ j # k
        BY <2>2, <1>0, <1>2 DEF VectorOf, Range
      <3>2. PICK i \in 1 .. Len(s) - 1 : b = r[i]
        <4>1. CASE j < k
          BY <4>1, <3>1, <1>0, <1>2, <1>6
        <4>2. CASE j > k
          <5>1. j - 1 \in 1 .. Len(s) - 1 /\ ~ (j - 1 < k) /\ (j - 1) + 1 = j
            BY <4>2, <1>0, <1>2
          <5>2. r[j - 1] = s[j]
            BY <5>1, <1>6
          <5>3. QED
            BY <5>1, <5>2, <3>1
        <4>3. QED
          BY <4>1, <4>2, <3>1, <1>0, <1>2
      <3>3. QED
        BY <3>2, <1>7 DEF Range
    <2>3. QED
      BY <2>1, <2>2
  <1>10. VectorOf(r, T \ {e}, n - 1)
    BY <1>0, <1>6, <1>8, <1>9 DEF VectorOf
  <1>11. ASSUME NEW b, NEW c, b # e, c # e, Before(s, b, c) PROVE Before(r, b, c)
    <2>1. PICK x \in 1 .. Len(s), y \in 1 .. Len(s) : x <= y /\ s[x] = b /\ s[y] = c
      BY <1>0, <1>11 DEF Before
    <2>2. x # k /\ y # k
      BY <1>2, <1>11, <2>1
    <2> DEFINE at(z) == IF z < k THEN z ELSE z - 1
    <2>3. /\ at(x) \in 1 .. Len(s) - 1 /\ at(y) \in 1 .. Len(s) - 1 /\ at(x) <= at(y)
          /\ r[at(x)] = b /\ r[at(y)] = c
      <3>1. \A z \in 1 .. Len(s) : z # k => at(z) \in 1 .. Len(s) - 1 /\ r[at(z)] = s[z]
        BY <1>0, <1>2, <1>6
      <3>2. at(x) <= at(y)
        BY <1>0, <1>2, <2>1, <2>2
      <3> HIDE DEF at
      <3>3. QED
        BY <2>1, <2>2, <3>1, <3>2
    <2> HIDE DEF at
    <2>4. QED
      BY <1>7, <2>3 DEF Before
  <1>12. QED
    BY <1>10, <1>11 DEF r

(* A step of the incremental sort permutes the vector.                     *)
LEMMA SortedStepFacts ==
  ASSUME NEW s, NEW free, NEW T, NEW n, VectorOf(s, T, n)
  PROVE  VectorOf(SortedStep(s, free), T, n)
  <1> DEFINE U == {i \in 1 .. Len(s) - 1 : free[s[i]] > free[s[i + 1]]}
             k == Min(U)
             t == [s EXCEPT ![k] = s[k + 1], ![k + 1] = s[k]]
  <1>0. s \in Seq(BlockIds) /\ DOMAIN s = 1 .. Len(s) /\ Len(s) \in Nat
        /\ n = Len(s) /\ s \in [1 .. Len(s) -> BlockIds]
    BY LenProperties DEF VectorOf
  <1>1. CASE U = {} \/ ~ incrementalSort
    BY <1>1 DEF SortedStep
  <1>2. CASE U # {} /\ incrementalSort
    <2>1. SortedStep(s, free) = t
      BY <1>2 DEF SortedStep
    <2>2. U \subseteq Nat
      BY <1>0
    <2>3. k \in U
      BY <1>2, <2>2, MinExists
    <2>4. k \in 1 .. Len(s) /\ k + 1 \in 1 .. Len(s) /\ k # k + 1
      BY <1>0, <2>3, SMTT(30)
    <2> HIDE DEF U, k
    <2>5. /\ DOMAIN t = 1 .. Len(s)
          /\ t \in [1 .. Len(s) -> BlockIds]
          /\ \A i \in 1 .. Len(s) : t[i] = IF i = k THEN s[k + 1]
                                           ELSE IF i = k + 1 THEN s[k] ELSE s[i]
      BY <1>0, <2>4
    <2> HIDE DEF t
    <2>6. t \in Seq(BlockIds) /\ Len(t) = Len(s)
      BY <1>0, <2>5
    <2>7. Distinct(t)
      BY <1>0, <2>4, <2>5 DEF VectorOf, Distinct
    <2>8. Range(t) = T
      <3>1. ASSUME NEW b \in Range(t) PROVE b \in T
        BY <3>1, <1>0, <2>4, <2>5 DEF VectorOf, Range
      <3>2. ASSUME NEW b \in T PROVE b \in Range(t)
        <4>1. PICK i \in 1 .. Len(s) : b = s[i]
          BY <3>2, <1>0 DEF VectorOf, Range
        <4>2. b = t[IF i = k THEN k + 1 ELSE IF i = k + 1 THEN k ELSE i]
          BY <4>1, <2>4, <2>5
        <4>3. QED
          BY <4>2, <2>4, <2>5 DEF Range
      <3>3. QED
        BY <3>1, <3>2
    <2>9. QED
      BY <1>0, <2>1, <2>6, <2>7, <2>8 DEF VectorOf
  <1>3. QED
    BY <1>1, <1>2

(* A vector is as long as the number of its blocks.                        *)
LEMMA VectorLength ==
  ASSUME NEW s, NEW T, NEW n, VectorOf(s, T, n)
  PROVE  IsFiniteSet(T) /\ Cardinality(T) = n /\ n \in Nat
  <1>1. n \in Nat /\ DOMAIN s = 1 .. n /\ s \in [1 .. n -> BlockIds]
    BY LenProperties DEF VectorOf
  <1>2. s \in [1 .. n -> T]
    BY <1>1 DEF VectorOf, Range
  <1>3. s \in Bijection(1 .. n, T)
    BY <1>1, <1>2 DEF VectorOf, Range, Distinct, Bijection, Injection,
                      IsInjective, Surjection
  <1>4. ExistsBijection(1 .. n, T)
    BY <1>3 DEF ExistsBijection
  <1>5. QED
    BY <1>1, <1>4, FS_NatBijection, FS_CountingElements

(* Each way to list a finite set of heaps is a vector of them.             *)
LEMMA SetToSeqsFacts ==
  ASSUME NEW T \in SUBSET BlockIds, IsFiniteSet(T), NEW s \in SetToSeqs(T)
  PROVE  VectorOf(s, T, Cardinality(T))
  <1> DEFINE n == Cardinality(T)
  <1>1. n \in Nat
    BY FS_CardinalityType
  <1>2. s \in [1 .. n -> T] /\ \A i, j \in 1 .. n : i # j => s[i] # s[j]
    BY DEF SetToSeqs
  <1> HIDE DEF n
  <1>3. s \in Seq(BlockIds) /\ Len(s) = n
    BY <1>1, <1>2
  <1>4. s \in Injection(1 .. n, T)
    BY <1>2 DEF Injection, IsInjective
  <1>5. Cardinality(1 .. n) = n
    BY <1>1, FS_Interval
  <1>6. s \in Surjection(1 .. n, T)
    BY <1>4, <1>5, FS_Injection DEF n
  <1>7. Range(s) = T
    BY <1>2, <1>6 DEF Range, Surjection
  <1>8. QED
    BY <1>2, <1>3, <1>7 DEF VectorOf, Distinct, n

(* A new heap goes to the end of the vector.                               *)
LEMMA AppendFacts ==
  ASSUME NEW s, NEW T, NEW n, VectorOf(s, T, n), NEW b \in BlockIds, b \notin T
  PROVE  VectorOf(Append(s, b), T \cup {b}, n + 1)
  <1> DEFINE t == Append(s, b)
  <1>1. s \in Seq(BlockIds) /\ DOMAIN s = 1 .. n /\ n = Len(s) /\ n \in Nat
    BY LenProperties DEF VectorOf
  <1>2. /\ t \in Seq(BlockIds) /\ Len(t) = n + 1
        /\ \A i \in 1 .. n : t[i] = s[i]
        /\ t[n + 1] = b
    BY <1>1, AppendProperties
  <1>3. DOMAIN t = 1 .. n + 1
    BY <1>2, LenProperties
  <1> HIDE DEF t
  <1>4. \A i \in 1 .. n : s[i] \in T
    BY <1>1 DEF VectorOf, Range
  <1>5. Distinct(t)
    <2>1. SUFFICES ASSUME NEW i \in 1 .. n + 1, NEW j \in 1 .. n + 1, i # j
                   PROVE  t[i] # t[j]
      BY <1>3 DEF Distinct
    <2>2. \A x, y \in 1 .. n : x # y => s[x] # s[y]
      BY <1>1 DEF VectorOf, Distinct
    <2>3. \A x \in 1 .. n + 1 : x \in 1 .. n \/ x = n + 1
      BY <1>1
    <2>4. QED
      BY <1>2, <1>4, <2>1, <2>2, <2>3
  <1>6. Range(t) = T \cup {b}
    <2>1. \A x : x \in 1 .. n + 1 <=> x \in 1 .. n \/ x = n + 1
      BY <1>1
    <2>2. QED
      BY <1>1, <1>2, <1>3, <2>1 DEF VectorOf, Range
  <1>7. QED
    BY <1>2, <1>5, <1>6 DEF VectorOf, t

-----------------------------------------------------------------------------
(* Where an allocation is, and its size. *)
Recorded == \A a \in DOMAIN placed : placed[a] \in [block : BlockIds, size : Sizes]

(* The heaps waiting to be destroyed have left the vector.                 *)
IInv ==
  /\ TypeOK
  /\ InVector \cap doomed = {}
  /\ DestroyedWhenEmpty
  /\ EmptyFlagHonest
  /\ CountWithinLimits
  /\ Recorded

(* The type invariant, with the vector said in one word. *)
LEMMA TypeOKVector ==
  TypeOK <=> /\ VectorOf(blocks, InVector, Len(blocks))
             /\ DOMAIN blockSize = InVector \cup doomed
             /\ DOMAIN placed \subseteq Allocations
             /\ \A a \in DOMAIN placed : placed[a].size \in Sizes
             /\ hasEmptyBlock \in BOOLEAN
             /\ incrementalSort \in BOOLEAN
  BY DEF TypeOK, VectorOf, Distinct, InVector

(* The vector begins with empty heaps. *)
LEMMA InitIInv == Init => IInv
  <1>1. SUFFICES ASSUME Init PROVE IInv
    OBVIOUS
  <1>2. PICK T \in SUBSET BlockIds : /\ Cardinality(T) = MinBlockCount
                                     /\ blocks \in SetToSeqs(T)
    BY <1>1 DEF Init, kSubset
  <1>3. IsFiniteSet(T)
    BY FS_Subset, BlockVectorAssumption
  <1>4. VectorOf(blocks, T, MinBlockCount)
    BY <1>2, <1>3, SetToSeqsFacts
  <1>5. TypeOK /\ Len(blocks) = MinBlockCount
    BY <1>1, <1>4, TypeOKVector DEF Init, VectorOf, InVector
  <1>6. QED
    BY <1>1, <1>5, BlockVectorAssumption
       DEF Init, IInv, DestroyedWhenEmpty, EmptyFlagHonest, CountWithinLimits, Recorded

(* The blocks of the vector are heaps. *)
LEMMA BlockInVector == TypeOK => InVector \subseteq BlockIds
  BY LenProperties, ElementOfSeq DEF TypeOK, InVector, Range

(* Placing an allocation in a block of the vector.                         *)
LEMMA PlaceFacts ==
  ASSUME NEW a, NEW b, NEW n, Place(a, b, n)
  PROVE  /\ DOMAIN placed' = DOMAIN placed \cup {a}
         /\ placed'[a] = [block |-> b, size |-> n]
         /\ \A x \in DOMAIN placed : x # a => placed'[x] = placed[x]
  BY DEF Place

(* Placing an allocation in the vector keeps the invariant. *)
LEMMA PlaceIInv ==
  ASSUME IInv, NEW a \in Allocations \ DOMAIN placed, NEW n \in Sizes,
         NEW b \in InVector, Place(a, b, n),
         hasEmptyBlock' = (hasEmptyBlock /\ ~ IsEmpty(b)),
         UNCHANGED <<blocks, blockSize, incrementalSort, doomed>>
  PROVE  IInv'
  <1>1. Place(a, b, n) /\ hasEmptyBlock' = (hasEmptyBlock /\ ~ IsEmpty(b))
    OBVIOUS
  <1>2. b \in InVector
    OBVIOUS
  <1>3. UNCHANGED <<blocks, blockSize, incrementalSort, doomed>>
    OBVIOUS
  <1>4. /\ DOMAIN placed' = DOMAIN placed \cup {a}
        /\ placed'[a] = [block |-> b, size |-> n]
        /\ \A x \in DOMAIN placed : placed'[x] = placed[x]
    BY <1>1, PlaceFacts
  <1>5. TypeOK'
    BY <1>1, <1>3, <1>4 DEF IInv, TypeOK, InVector
  <1>6. DestroyedWhenEmpty'
    BY <1>2, <1>3, <1>4 DEF IInv, DestroyedWhenEmpty, InVector
  <1>7. EmptyFlagHonest'
    <2>1. SUFFICES ASSUME hasEmptyBlock' PROVE EmptyBlocks' # {}
      BY DEF EmptyFlagHonest
    <2>2. hasEmptyBlock /\ ~ IsEmpty(b)
      BY <1>1, <2>1
    <2>3. PICK c \in InVector : IsEmpty(c)
      BY <2>2 DEF IInv, EmptyFlagHonest, EmptyBlocks
    <2>4. c \in InVector' /\ IsEmpty(c)'
      BY <1>3, <1>4, <2>2, <2>3 DEF InVector, IsEmpty, AllocationsIn
    <2>5. QED
      BY <2>4 DEF EmptyBlocks
  <1>8. Recorded'
    BY <1>2, <1>4, BlockInVector DEF IInv, Recorded
  <1>9. QED
    BY <1>3, <1>5, <1>6, <1>7, <1>8 DEF IInv, CountWithinLimits, InVector

(* AllocatePage in a block there is. *)
LEMMA AllocateFromBlockIInv ==
  ASSUME IInv, NEW a \in Allocations \ DOMAIN placed, NEW n \in Sizes,
         AllocateFromBlock(a, n)
  PROVE  IInv'
  <1>1. PICK i \in DOMAIN blocks :
          /\ Place(a, blocks[i], n)
          /\ hasEmptyBlock' = (hasEmptyBlock /\ ~ IsEmpty(blocks[i]))
    BY DEF AllocateFromBlock
  <1>2. PICK b \in InVector : b = blocks[i]
    BY DEF InVector, Range
  <1>3. UNCHANGED <<blocks, blockSize, incrementalSort, doomed>>
    BY DEF AllocateFromBlock
  <1>4. QED
    BY <1>1, <1>2, <1>3, PlaceIInv

(* AllocatePage in a new block. *)
LEMMA AllocateInNewBlockIInv ==
  ASSUME IInv, NEW a \in Allocations \ DOMAIN placed, NEW n \in Sizes,
         NEW neverAllocate, NEW canExceedFreeMemory, NEW f,
         AllocateInNewBlock(a, n, neverAllocate, canExceedFreeMemory, f)
  PROVE  IInv'
  <1>1. PICK size \in NewBlockSizes(n), b \in BlockIds \ DOMAIN blockSize :
          /\ blocks' = Append(blocks, b)
          /\ blockSize' = [c \in DOMAIN blockSize \cup {b} |->
                             IF c = b THEN size ELSE blockSize[c]]
          /\ IF n + DebugMargin <= size
               THEN Place(a, b, n) /\ hasEmptyBlock' = FALSE
               ELSE UNCHANGED <<placed, hasEmptyBlock>>
    BY DEF AllocateInNewBlock
  <1>2. UNCHANGED <<incrementalSort, doomed>> /\ Len(blocks) < MaxBlockCount
    BY DEF AllocateInNewBlock, CanCreateNewBlock
  <1>3. b \notin InVector /\ b \notin doomed
    BY <1>1 DEF IInv, TypeOK
  <1>4. VectorOf(blocks', InVector \cup {b}, Len(blocks) + 1)
    BY <1>1, <1>3, AppendFacts, TypeOKVector DEF IInv
  <1>5. /\ VectorOf(blocks', InVector', Len(blocks'))
        /\ InVector' = InVector \cup {b}
        /\ Len(blocks') = Len(blocks) + 1
    BY <1>4 DEF VectorOf, InVector
  <1>6. \/ /\ DOMAIN placed' = DOMAIN placed \cup {a}
           /\ placed'[a] = [block |-> b, size |-> n]
           /\ \A x \in DOMAIN placed : placed'[x] = placed[x]
           /\ hasEmptyBlock' = FALSE
        \/ UNCHANGED <<placed, hasEmptyBlock>>
    BY <1>1, PlaceFacts
  <1>7. TypeOK'
    <2>1. DOMAIN blockSize' = InVector' \cup doomed'
      BY <1>1, <1>2, <1>5 DEF IInv, TypeOK
    <2>2. /\ DOMAIN placed' \subseteq Allocations
          /\ \A x \in DOMAIN placed' : placed'[x].size \in Sizes
      BY <1>6 DEF IInv, TypeOK
    <2>3. hasEmptyBlock' \in BOOLEAN /\ incrementalSort' \in BOOLEAN
      BY <1>2, <1>6 DEF IInv, TypeOK
    <2>4. QED
      BY <1>5, <2>1, <2>2, <2>3 DEF TypeOK, VectorOf, Distinct, InVector
  <1>8. DestroyedWhenEmpty'
    BY <1>2, <1>3, <1>5, <1>6 DEF IInv, DestroyedWhenEmpty
  <1>9. EmptyFlagHonest'
    BY <1>5, <1>6
       DEF IInv, EmptyFlagHonest, EmptyBlocks, IsEmpty, AllocationsIn
  <1>10. CountWithinLimits'
    <2>1. Len(blocks) \in Nat
      BY TypeOKVector, VectorLength DEF IInv
    <2>2. QED
      BY <1>2, <1>5, <2>1, BlockVectorAssumption DEF IInv, CountWithinLimits
  <1>11. Recorded'
    BY <1>6 DEF IInv, Recorded
  <1>12. QED
    BY <1>2, <1>3, <1>5, <1>7, <1>8, <1>9, <1>10, <1>11 DEF IInv

(* What Retired lets go when allocation a is freed. *)
RetiredBy(a, budgetExceeded) ==
  Retired(placed[a].block, AllocationsIn(placed[a].block) = {a}, budgetExceeded)

(* Free lets at most one heap go, an empty one, and only beyond the        *)
(* minimum.                                                                *)
LEMMA RetiredFacts ==
  ASSUME IInv, NEW a \in DOMAIN placed, NEW budgetExceeded \in BOOLEAN,
         NEW R, R = RetiredBy(a, budgetExceeded)
  PROVE  /\ \A c \in R : c \in InVector /\ AllocationsIn(c) \subseteq {a}
         /\ \A c, d \in R : c = d
         /\ R # {} => Len(blocks) > MinBlockCount
         /\ AllocationsIn(placed[a].block) = {a} => R \subseteq {placed[a].block}
         /\ AllocationsIn(placed[a].block) # {a} /\ R # {} => hasEmptyBlock
  <1> DEFINE b == placed[a].block
  <1>1. b \in InVector
    BY DEF IInv, DestroyedWhenEmpty
  <1>2. Len(blocks) \in Nat /\ DOMAIN blocks = 1 .. Len(blocks)
    BY LenProperties DEF IInv, TypeOK
  <1>3. ~ (Len(blocks) <= MinBlockCount)
          => Len(blocks) > MinBlockCount /\ Len(blocks) \in DOMAIN blocks
    BY <1>2, BlockVectorAssumption
  <1>4. Len(blocks) \in DOMAIN blocks => Last(blocks) \in InVector
    BY DEF Last, InVector, Range
  <1>5. QED
    BY <1>1, <1>3, <1>4 DEF RetiredBy, Retired, IsEmpty

(* Free, whichever heap it lets go. *)
LEMMA FreeIInv ==
  ASSUME IInv, NEW a \in Allocations, NEW budgetExceeded \in BOOLEAN,
         Free(a, budgetExceeded)
  PROVE  IInv'
  <1> DEFINE b == placed[a].block
             emptied == AllocationsIn(b) = {a}
             R == Retired(b, emptied, budgetExceeded)
             free == [c \in InVector |->
                        SumFreeSize(c) + IF c = b THEN placed[a].size ELSE 0]
             kept == IF R = {} THEN blocks
                     ELSE RemoveFirst(blocks, CHOOSE c \in R : TRUE)
  <1>1. /\ a \in DOMAIN placed
        /\ blocks' = SortedStep(kept, free)
        /\ hasEmptyBlock' = FlagAfterFree(emptied, R)
        /\ doomed' = doomed \cup R
        /\ placed' = [x \in DOMAIN placed \ {a} |-> placed[x]]
        /\ UNCHANGED <<blockSize, incrementalSort>>
    BY DEF Free
  <1> HIDE DEF free
  <1>2. /\ \A c \in R : c \in InVector /\ AllocationsIn(c) \subseteq {a}
        /\ \A c, d \in R : c = d
        /\ R # {} => Len(blocks) > MinBlockCount
        /\ emptied => R \subseteq {b}
        /\ ~ emptied /\ R # {} => hasEmptyBlock
    <2>1. R = RetiredBy(a, budgetExceeded)
      BY DEF RetiredBy
    <2> HIDE DEF R
    <2>2. QED
      BY <1>1, <2>1, RetiredFacts
  <1> HIDE DEF R, emptied, b
  <1>3. VectorOf(blocks, InVector, Len(blocks)) /\ Len(blocks) \in Nat
    BY TypeOKVector, VectorLength DEF IInv
  <1>4. PICK n : /\ VectorOf(kept, InVector \ R, n)
                 /\ n = IF R = {} THEN Len(blocks) ELSE Len(blocks) - 1
    <2>1. CASE R = {}
      BY <1>3, <2>1
    <2>2. CASE R # {}
      <3> DEFINE c == CHOOSE c \in R : TRUE
      <3>1. c \in R
        BY <2>2
      <3> HIDE DEF c
      <3>2. R = {c} /\ c \in InVector
        BY <1>2, <3>1
      <3>3. VectorOf(RemoveFirst(blocks, c), InVector \ {c}, Len(blocks) - 1)
        BY <1>3, <3>2, RemoveFirstFacts
      <3>4. kept = RemoveFirst(blocks, c)
        BY <2>2 DEF c
      <3>5. QED
        BY <2>2, <3>2, <3>3, <3>4
    <2>3. QED
      BY <2>1, <2>2
  <1> HIDE DEF kept
  <1>5. VectorOf(blocks', InVector \ R, n)
    BY <1>1, <1>4, SortedStepFacts
  <1>6. /\ InVector' = InVector \ R
        /\ Len(blocks') = n
        /\ VectorOf(blocks', InVector', Len(blocks'))
    BY <1>5 DEF VectorOf, InVector
  <1>7. DOMAIN placed' = DOMAIN placed \ {a}
        /\ \A x \in DOMAIN placed' : placed'[x] = placed[x]
    BY <1>1
  <1>8. TypeOK'
    <2>1. DOMAIN blockSize' = InVector' \cup doomed'
      BY <1>1, <1>2, <1>6 DEF IInv, TypeOK
    <2>2. hasEmptyBlock' \in BOOLEAN
      BY <1>1 DEF FlagAfterFree, IInv, TypeOK
    <2>3. /\ DOMAIN placed' \subseteq Allocations
          /\ \A x \in DOMAIN placed' : placed'[x].size \in Sizes
          /\ incrementalSort' \in BOOLEAN
      BY <1>1, <1>7 DEF IInv, TypeOK
    <2>4. QED
      BY <1>6, <2>1, <2>2, <2>3 DEF TypeOK, VectorOf, Distinct, InVector
  <1>9. InVector' \cap doomed' = {}
    BY <1>1, <1>6 DEF IInv
  <1>10. DestroyedWhenEmpty'
    <2>1. SUFFICES ASSUME NEW x \in DOMAIN placed'
                   PROVE  placed'[x].block \in InVector' \ doomed'
      BY DEF DestroyedWhenEmpty
    <2>2. x \in DOMAIN placed /\ x # a /\ placed'[x] = placed[x]
      BY <1>7
    <2>3. placed[x].block \notin R
      BY <1>2, <2>2 DEF AllocationsIn
    <2>4. QED
      BY <1>1, <1>6, <2>2, <2>3 DEF IInv, DestroyedWhenEmpty
  <1>11. EmptyFlagHonest'
    <2>1. SUFFICES ASSUME hasEmptyBlock' PROVE EmptyBlocks' # {}
      BY DEF EmptyFlagHonest
    <2>2. \A c : IsEmpty(c) => IsEmpty(c)'
      BY <1>7 DEF IsEmpty, AllocationsIn
    <2>3. CASE emptied /\ ~ hasEmptyBlock
      <3>1. R = {}
        BY <1>1, <2>1, <2>3 DEF FlagAfterFree
      <3>2. PICK c \in InVector : c = placed[a].block
        BY <1>1 DEF IInv, DestroyedWhenEmpty
      <3>3. c \in InVector' /\ IsEmpty(c)'
        BY <1>6, <1>7, <2>3, <3>1, <3>2
           DEF IsEmpty, AllocationsIn, emptied, b
      <3>4. QED
        BY <3>3 DEF EmptyBlocks
    <2>4. CASE hasEmptyBlock
      <3>1. PICK c \in InVector : IsEmpty(c)
        BY <2>4 DEF IInv, EmptyFlagHonest, EmptyBlocks
      <3>2. c \notin R
        <4>1. CASE emptied
          BY <1>1, <1>2, <3>1, <4>1 DEF IsEmpty, AllocationsIn, b
        <4>2. CASE ~ emptied
          BY <1>1, <2>1, <4>2 DEF FlagAfterFree
        <4>3. QED
          BY <4>1, <4>2
      <3>3. QED
        BY <1>6, <2>2, <3>1, <3>2 DEF EmptyBlocks
    <2>5. QED
      BY <1>1, <2>1, <2>3, <2>4 DEF FlagAfterFree
  <1>12. CountWithinLimits'
    BY <1>2, <1>3, <1>4, <1>6, BlockVectorAssumption
       DEF IInv, CountWithinLimits
  <1>13. Recorded'
    BY <1>7 DEF IInv, Recorded
  <1>14. QED
    BY <1>8, <1>9, <1>10, <1>11, <1>12, <1>13 DEF IInv

(* Ordering the blocks anew keeps what the vector holds. *)
LEMMA BeginDefragmentationIInv ==
  ASSUME IInv, BeginDefragmentation
  PROVE  IInv'
  <1>1. VectorOf(blocks, InVector, Len(blocks)) /\ InVector \subseteq BlockIds
    <2>1. VectorOf(blocks, InVector, Len(blocks))
      BY TypeOKVector DEF IInv
    <2>2. QED
      BY <2>1, LenProperties, ElementOfSeq DEF VectorOf, Range
  <1>2. IsFiniteSet(InVector) /\ Cardinality(InVector) = Len(blocks)
    BY <1>1, VectorLength
  <1>3. blocks' \in SetToSeqs(InVector)
    BY DEF BeginDefragmentation, FreeSizeOrders
  <1>4. VectorOf(blocks', InVector, Len(blocks))
    BY <1>1, <1>2, <1>3, SetToSeqsFacts
  <1>5. InVector' = InVector /\ Len(blocks') = Len(blocks)
    BY <1>4 DEF VectorOf, InVector
  <1>6. UNCHANGED <<blockSize, placed, hasEmptyBlock, doomed>>
        /\ incrementalSort' = FALSE
    BY DEF BeginDefragmentation
  <1>7. TypeOK'
    BY <1>4, <1>5, <1>6 DEF IInv, TypeOK, VectorOf, Distinct
  <1>8. QED
    BY <1>5, <1>6, <1>7 DEF IInv, Recorded, DestroyedWhenEmpty, EmptyFlagHonest,
       EmptyBlocks, IsEmpty, AllocationsIn, CountWithinLimits

(* Every step keeps the invariant. *)
LEMMA NextIInv == IInv /\ [Next]_vars => IInv'
  <1>1. SUFFICES ASSUME IInv, [Next]_vars PROVE IInv'
    OBVIOUS
  <1>2. CASE \E a \in Allocations \ DOMAIN placed, n \in Sizes :
               AllocateFromBlock(a, n)
    BY <1>1, <1>2, AllocateFromBlockIInv
  <1>3. CASE \E a \in Allocations \ DOMAIN placed, n \in Sizes :
               \E neverAllocate, canExceedFreeMemory \in BOOLEAN, f \in FreeMemory :
                 AllocateInNewBlock(a, n, neverAllocate, canExceedFreeMemory, f)
    BY <1>1, <1>3, AllocateInNewBlockIInv
  <1>4. CASE \E a \in Allocations, budgetExceeded \in BOOLEAN :
               Free(a, budgetExceeded)
    BY <1>1, <1>4, FreeIInv
  <1>5. CASE \E b \in BlockIds : DestroyBlock(b)
    <2>1. PICK b \in BlockIds : DestroyBlock(b)
      BY <1>5
    <2>2. QED
      BY <1>1, <2>1 DEF DestroyBlock, IInv, Recorded, TypeOK, DestroyedWhenEmpty,
         EmptyFlagHonest, EmptyBlocks, IsEmpty, AllocationsIn,
         CountWithinLimits, InVector
  <1>6. CASE BeginDefragmentation
    BY <1>1, <1>6, BeginDefragmentationIInv
  <1>7. CASE EndDefragmentation
    BY <1>1, <1>7 DEF EndDefragmentation, IInv, Recorded, TypeOK, DestroyedWhenEmpty,
       EmptyFlagHonest, EmptyBlocks, IsEmpty, AllocationsIn,
       CountWithinLimits, InVector
  <1>8. CASE UNCHANGED vars
    BY <1>1, <1>8 DEF vars, IInv, Recorded, TypeOK, DestroyedWhenEmpty,
       EmptyFlagHonest, EmptyBlocks, IsEmpty, AllocationsIn,
       CountWithinLimits, InVector
  <1>9. QED
    BY <1>1, <1>2, <1>3, <1>4, <1>5, <1>6, <1>7, <1>8 DEF Next

(* A heap is destroyed only when nothing is placed in it, the empty flag   *)
(* is honest, and the vector's length stays within its limits: Free and    *)
(* AllocatePage keep all of it whatever heaps are still being destroyed.   *)
THEOREM BlockVectorSafe ==
  Spec => [](TypeOK /\ DestroyedWhenEmpty /\ EmptyFlagHonest /\ CountWithinLimits)
  <1>1. IInv => TypeOK /\ DestroyedWhenEmpty /\ EmptyFlagHonest /\ CountWithinLimits
    BY DEF IInv
  <1>2. QED
    BY InitIInv, NextIInv, <1>1, PTL DEF Spec

(* Whenever m_HasEmptyBlock is set there is an empty block to give away,   *)
(* however the calls that set and clear it follow each other.              *)
THEOREM EmptyFlagAlwaysHonest == Spec => []EmptyFlagHonest
  <1>1. IInv => EmptyFlagHonest
    BY DEF IInv
  <1>2. QED
    BY InitIInv, NextIInv, <1>1, PTL DEF Spec

(* Every size tried for a new block holds what the block is created for.   *)
LEMMA NewBlockHolds ==
  ASSUME DebugMargin = 0, NEW n \in Sizes, ~ Reject(n), NEW size \in NewBlockSizes(n)
  PROVE  n <= size
  <1>1. /\ n \in Nat \ {0} /\ n <= PreferredBlockSize
        /\ PreferredBlockSize \in Nat \ {0}
    BY BlockVectorAssumption DEF Reject
  <1>2. CASE ExplicitBlockSize
    BY <1>1, <1>2 DEF NewBlockSizes
  <1>3. CASE ~ ExplicitBlockSize
    <2>1. PICK k \in FirstShift(n) .. NEW_BLOCK_SIZE_SHIFT_MAX :
            size = ShiftedSize(k) /\ (k = FirstShift(n) \/ ShiftedSize(k) >= n)
      BY <1>3 DEF NewBlockSizes
    <2>2. ShiftedSize(0) = PreferredBlockSize
      <3>1. 2^0 = 1
        OBVIOUS
      <3>2. QED
        BY <1>1, <3>1 DEF ShiftedSize
    <2>3. CASE k = FirstShift(n)
      <3> DEFINE Fits(j) == ShiftedSize(j) > MaxBlockSize /\ ShiftedSize(j) >= 2 * n
                 S == {j \in 0 .. 3 : \A i \in 1 .. j : Fits(i)}
      <3>1. FirstShift(n) = Max(S)
        BY DEF FirstShift, NEW_BLOCK_SIZE_SHIFT_MAX
      <3> HIDE DEF Fits
      <3>2. \E m \in S : \A j \in S : m >= j
        <4>1. 0 \in S
          OBVIOUS
        <4>2. QED
          BY <4>1
      <3>3. FirstShift(n) \in S
        BY <3>1, <3>2 DEF Max
      <3>4. CASE k = 0
        BY <1>1, <2>1, <2>2, <3>4
      <3>5. CASE k # 0
        <4>1. ShiftedSize(k) >= 2 * n
          BY <2>3, <3>3, <3>5 DEF Fits
        <4>2. k \in 1 .. 3
          BY <2>3, <3>3, <3>5
        <4>3. ShiftedSize(k) \in Nat
          <5>1. 2^1 = 2 /\ 2^2 = 4 /\ 2^3 = 8
            OBVIOUS
          <5>2. k = 1 \/ k = 2 \/ k = 3
            BY <4>2
          <5>3. PICK d \in {2, 4, 8} : ShiftedSize(k) = PreferredBlockSize \div d
            BY <5>1, <5>2, Zenon DEF ShiftedSize
          <5>4. \A p \in Nat : p \div 2 \in Nat /\ p \div 4 \in Nat /\ p \div 8 \in Nat
            OBVIOUS
          <5>5. QED
            BY <1>1, <5>3, <5>4
        <4>4. QED
          BY <1>1, <2>1, <4>1, <4>3
      <3>6. QED
        BY <3>4, <3>5
    <2>4. QED
      BY <2>1, <2>3
  <1>4. QED
    BY <1>2, <1>3

(* Without a debug margin, a heap that is created holds an allocation from *)
(* the start: falling back to smaller heaps stops before one too small.    *)
THEOREM HeapsNeverInVain ==
  ASSUME DebugMargin = 0
  PROVE  Spec => NoHeapInVain
  <1> DEFINE NotInVain ==
        DOMAIN blockSize' \ DOMAIN blockSize # {} => DOMAIN placed' \ DOMAIN placed # {}
  <1>1. ASSUME Next PROVE NotInVain
    <2>1. CASE \E a \in Allocations \ DOMAIN placed, n \in Sizes :
                 \E neverAllocate, canExceedFreeMemory \in BOOLEAN, f \in FreeMemory :
                   AllocateInNewBlock(a, n, neverAllocate, canExceedFreeMemory, f)
      <3>1. PICK a \in Allocations \ DOMAIN placed, n \in Sizes :
              \E neverAllocate, canExceedFreeMemory \in BOOLEAN, f \in FreeMemory :
                AllocateInNewBlock(a, n, neverAllocate, canExceedFreeMemory, f)
        BY <2>1
      <3>2. PICK size \in NewBlockSizes(n), b \in BlockIds \ DOMAIN blockSize :
              n + DebugMargin <= size => Place(a, b, n)
        BY <3>1 DEF AllocateInNewBlock
      <3>3. ~ Reject(n)
        BY <3>1 DEF AllocateInNewBlock
      <3>4. n <= size
        BY <3>3, NewBlockHolds
      <3>5. n \in Nat
        BY BlockVectorAssumption
      <3>6. n + DebugMargin <= size
        BY <3>4, <3>5
      <3>7. a \in DOMAIN placed'
        BY <3>2, <3>6 DEF Place
      <3>8. QED
        BY <3>7
    <2>2. CASE UNCHANGED blockSize \/ DOMAIN blockSize' \subseteq DOMAIN blockSize
      BY <2>2
    <2>3. QED
      BY <1>1, <2>1, <2>2 DEF Next, AllocateFromBlock, Free, DestroyBlock,
         BeginDefragmentation, EndDefragmentation
  <1>2. [Next]_vars => [NotInVain]_vars
    BY <1>1
  <1>3. QED
    BY <1>2, PTL DEF Spec, NoHeapInVain
-----------------------------------------------------------------------------
(* The bytes of the allocations of S; p is what is placed. *)
Bytes(p, S) == MapThenSumSet(LAMBDA a : p[a].size, S)

(* Among some finite sets there is a smallest one. *)
LEMMA SmallestSet ==
  ASSUME NEW S, IsFiniteSet(S), NEW F \in SUBSET SUBSET S, F # {}
  PROVE  \E T \in F : \A x \in T : T \ {x} \notin F
  <1> DEFINE R == StrictSubsetOrdering(S)
  <1>1. IsWellFoundedOn(R, FiniteSubsetsOf(S))
    BY FS_StrictSubsetOrderingWellFounded
  <1>2. F \subseteq FiniteSubsetsOf(S)
    BY FS_Subset DEF FiniteSubsetsOf
  <1>3. \A T, U \in SUBSET S : U \subseteq T /\ U # T => <<U, T>> \in R
    BY DEF StrictSubsetOrdering
  <1> HIDE DEF R
  <1>4. IsWellFoundedOn(R, F)
    BY <1>1, <1>2, IsWellFoundedOnSubset
  <1>5. PICK T \in F : \A U \in F : ~ (<<U, T>> \in R)
    BY <1>4, WFMin
  <1>6. ASSUME NEW x \in T PROVE T \ {x} \notin F
    <2>1. T \ {x} \in SUBSET S /\ T \in SUBSET S /\ T \ {x} \subseteq T /\ T \ {x} # T
      BY <1>6
    <2>2. <<T \ {x}, T>> \in R
      BY <1>3, <2>1
    <2>3. QED
      BY <1>5, <2>2
  <1>7. QED
    BY <1>6

(* g adds up the sizes of every subset of S. *)
Adds(g, p, S) ==
  g = [s \in SUBSET S |->
         IF s = {} THEN 0
         ELSE LET x == CHOOSE y \in s : TRUE IN p[x].size + g[s \ {x}]]

(* There is one: built by the number of elements. *)
LEMMA AddsExists ==
  ASSUME NEW S, IsFiniteSet(S), NEW p, \A o \in S : p[o].size \in Int
  PROVE  \E g \in [SUBSET S -> Int] : Adds(g, p, S)
  <1> DEFINE Small(n) == {s \in SUBSET S : Cardinality(s) <= n}
             Rest(s) == s \ {CHOOSE y \in s : TRUE}
             AddOne(g, s) == IF s = {} THEN 0 ELSE p[CHOOSE y \in s : TRUE].size + g[Rest(s)]
             Can(n) == \E g \in [Small(n) -> Int] : \A s \in Small(n) : g[s] = AddOne(g, s)
             Bad == {n \in Nat : ~ Can(n)}
  <1>0. \A s \in SUBSET S : s # {} =>
          /\ (CHOOSE y \in s : TRUE) \in s /\ Rest(s) \in SUBSET S
          /\ IsFiniteSet(s) /\ Cardinality(s) \in Nat /\ Cardinality(Rest(s)) = Cardinality(s) - 1
          /\ IsFiniteSet(Rest(s)) /\ Cardinality(Rest(s)) \in Nat
    <2>1. TAKE s \in SUBSET S
    <2>2. HAVE s # {}
    <2>3. (CHOOSE y \in s : TRUE) \in s
      BY <2>2
    <2>4. IsFiniteSet(s)
      BY FS_Subset
    <2>5. QED
      BY <2>3, <2>4, FS_RemoveElement, FS_CardinalityType
  <1>1. Bad = {}
    <2>1. SUFFICES ASSUME Bad # {} PROVE FALSE
      OBVIOUS
    <2>2. PICK n \in Nat : n \in Bad /\ \A m \in Nat : m < n => m \notin Bad
      <3> DEFINE R == OpToRel(<, Nat)
      <3>1. IsWellFoundedOn(R, Nat)
        BY NatLessThanWellFounded
      <3>2. \A x, y \in Nat : y < x => <<y, x>> \in R
        BY DEF OpToRel
      <3>3. Bad \subseteq Nat
        OBVIOUS
      <3> HIDE DEF R, Bad
      <3>4. PICK n \in Bad : \A m \in Bad : ~ (<<m, n>> \in R)
        BY <2>1, <3>1, <3>3, WFMin
      <3>5. n \in Nat /\ \A m \in Nat : m < n => m \notin Bad
        BY <3>2, <3>3, <3>4
      <3>6. QED
        BY <3>4, <3>5
    <2>3. CASE n = 0
      <3>1. Small(0) = {{}}
        <4>1. \A s \in SUBSET S : Cardinality(s) <= 0 <=> s = {}
          BY FS_Subset, FS_EmptySet, FS_CardinalityType
        <4>2. QED
          BY <4>1
      <3>2. [s \in Small(0) |-> 0] \in [Small(0) -> Int]
        OBVIOUS
      <3>3. \A s \in Small(0) : [r \in Small(0) |-> 0][s] = AddOne([r \in Small(0) |-> 0], s)
        BY <3>1
      <3>4. Can(0)
        BY <3>2, <3>3
      <3>5. QED
        BY <2>2, <2>3, <3>4
    <2>4. CASE n # 0
      <3>a. n - 1 \in Nat /\ n - 1 < n
        BY <2>4
      <3>1. n - 1 \in Nat /\ ~ (n - 1 \in Bad)
        BY <2>2, <3>a
      <3>2. PICK g \in [Small(n - 1) -> Int] : \A s \in Small(n - 1) : g[s] = AddOne(g, s)
        BY <3>1
      <3> DEFINE k == [s \in Small(n) |-> AddOne(g, s)]
      <3>3. \A s \in Small(n) : s # {} => Rest(s) \in Small(n - 1)
        <4>1. TAKE s \in Small(n)
        <4>2. HAVE s # {}
        <4>3. /\ Rest(s) \in SUBSET S /\ Cardinality(Rest(s)) = Cardinality(s) - 1
              /\ Cardinality(s) \in Nat /\ Cardinality(s) <= n
          BY <1>0, <4>2
        <4>4. \A c \in Nat : c <= n => c - 1 <= n - 1
          OBVIOUS
        <4>5. Cardinality(Rest(s)) <= n - 1
          BY <4>3, <4>4
        <4>6. QED
          BY <4>3, <4>5
      <3>4. Small(n - 1) \subseteq Small(n)
        BY FS_Subset, FS_CardinalityType, <3>1
      <3>5. \A s \in Small(n) : s # {} => p[CHOOSE y \in s : TRUE].size \in Int
        BY <1>0
      <3>6. k \in [Small(n) -> Int]
        <4>1. ASSUME NEW s \in Small(n) PROVE AddOne(g, s) \in Int
          <5>1. CASE s = {}
            BY <5>1
          <5>2. CASE s # {}
            <6>1. g[Rest(s)] \in Int
              BY <3>3, <5>2
            <6>2. p[CHOOSE y \in s : TRUE].size \in Int
              BY <3>5, <5>2
            <6> HIDE DEF Rest
            <6>3. QED
              BY <5>2, <6>1, <6>2
          <5>3. QED
            BY <5>1, <5>2
        <4> HIDE DEF AddOne
        <4>2. QED
          BY <4>1
      <3>7. \A s \in Small(n - 1) : k[s] = g[s]
        BY <3>2, <3>4
      <3>8. ASSUME NEW s \in Small(n) PROVE k[s] = AddOne(k, s)
        <4>1. k[s] = AddOne(g, s)
          OBVIOUS
        <4>2. CASE s = {}
          BY <4>1, <4>2
        <4>3. CASE s # {}
          <5>1. k[Rest(s)] = g[Rest(s)]
            BY <3>3, <3>7, <4>3
          <5> HIDE DEF k, Rest
          <5>2. QED
            BY <4>1, <4>3, <5>1
        <4>4. QED
          BY <4>2, <4>3
      <3> HIDE DEF k
      <3>9. Can(n)
        BY <3>6, <3>8
      <3>10. QED
        BY <2>2, <3>9
    <2>5. QED
      BY <2>3, <2>4
  <1>2. Cardinality(S) \in Nat
    BY FS_CardinalityType
  <1>3. PICK g \in [Small(Cardinality(S)) -> Int] : \A s \in Small(Cardinality(S)) : g[s] = AddOne(g, s)
    BY <1>1, <1>2
  <1>4. Small(Cardinality(S)) = SUBSET S
    BY FS_Subset
  <1>5. g = [s \in SUBSET S |-> g[s]]
    BY <1>4
  <1>6. \A s \in SUBSET S : g[s] = AddOne(g, s)
    BY <1>3, <1>4
  <1>7. Adds(g, p, S)
    BY <1>5, <1>6, Zenon DEF Adds
  <1>8. QED
    BY <1>4, <1>7

(* It does not matter of which larger set a subset is taken. *)
LEMMA AddsAgree ==
  ASSUME NEW S, IsFiniteSet(S), NEW T, NEW p, NEW g, NEW k,
         Adds(g, p, S), Adds(k, p, T), NEW s \in SUBSET S, s \in SUBSET T
  PROVE  g[s] = k[s]
  <1> DEFINE Bad == {u \in SUBSET s : g[u] # k[u]}
  <1>1. SUFFICES ASSUME Bad # {} PROVE FALSE
    BY <1>1
  <1>2. IsFiniteSet(s)
    BY FS_Subset
  <1>3. PICK u \in Bad : \A x \in u : u \ {x} \notin Bad
    BY <1>1, <1>2, SmallestSet
  <1>4. \A r \in SUBSET s : r \in SUBSET S /\ r \in SUBSET T
    OBVIOUS
  <1>5. u # {}
    BY <1>3, <1>4 DEF Adds
  <1> DEFINE x == CHOOSE y \in u : TRUE
  <1>6. x \in u
    BY <1>5
  <1>7. g[u \ {x}] = k[u \ {x}]
    BY <1>3, <1>6
  <1>8. g[u] = p[x].size + g[u \ {x}] /\ k[u] = p[x].size + k[u \ {x}]
    BY <1>3, <1>4, <1>5 DEF Adds
  <1>9. QED
    BY <1>3, <1>7, <1>8

(* The sum of the library is that of such a function, so it is taken one   *)
(* element at a time.                                                      *)
LEMMA BytesRecursion ==
  ASSUME NEW S, IsFiniteSet(S), NEW p, \A o \in S : p[o].size \in Int
  PROVE  /\ Bytes(p, S) \in Int
         /\ Bytes(p, {}) = 0
         /\ S # {} => \E x \in S : Bytes(p, S) = p[x].size + Bytes(p, S \ {x})
  <1>1. \A T : Bytes(p, T) = (CHOOSE g : Adds(g, p, T))[T]
    BY DEF Bytes, MapThenSumSet, MapThenFoldSet, Adds
  <1>2. \A T \in SUBSET S : \E g \in [SUBSET T -> Int] : Adds(g, p, T)
    BY FS_Subset, AddsExists
  <1>3. \A T \in SUBSET S : Adds(CHOOSE g : Adds(g, p, T), p, T)
    BY <1>2
  <1>4. \A T \in SUBSET S : Bytes(p, T) \in Int
    <2>1. TAKE T \in SUBSET S
    <2>2. PICK g \in [SUBSET T -> Int] : Adds(g, p, T)
      BY <1>2
    <2>3. IsFiniteSet(T)
      BY FS_Subset
    <2>4. (CHOOSE k : Adds(k, p, T))[T] = g[T]
      BY <1>3, <2>2, <2>3, AddsAgree
    <2>5. QED
      BY <1>1, <2>2, <2>4
  <1>5. Bytes(p, {}) = 0
    <2> DEFINE g == CHOOSE k : Adds(k, p, {})
    <2>1. Adds(g, p, {})
      BY <1>3
    <2> HIDE DEF g
    <2>2. g[{}] = 0
      BY <2>1 DEF Adds
    <2>3. QED
      BY <1>1, <2>2 DEF g
  <1>6. ASSUME S # {} PROVE \E x \in S : Bytes(p, S) = p[x].size + Bytes(p, S \ {x})
    <2> DEFINE x == CHOOSE y \in S : TRUE
               g == CHOOSE k : Adds(k, p, S)
               h == CHOOSE k : Adds(k, p, S \ {x})
    <2>1. x \in S /\ S \ {x} \in SUBSET S
      BY <1>6
    <2>2. Adds(g, p, S) /\ Adds(h, p, S \ {x})
      BY <1>3
    <2>3. Bytes(p, S) = g[S] /\ Bytes(p, S \ {x}) = h[S \ {x}]
      BY <1>1
    <2> HIDE DEF g, h
    <2>4. g[S \ {x}] = h[S \ {x}]
      BY <2>1, <2>2, AddsAgree
    <2>5. g[S] = p[x].size + g[S \ {x}]
      BY <1>6, <2>2 DEF Adds
    <2>6. QED
      BY <2>1, <2>3, <2>4, <2>5
  <1>7. QED
    BY <1>4, <1>5, <1>6

(* The sum of the sizes of a finite set of objects, taken apart at x. *)
LEMMA BytesOfOthers ==
  ASSUME NEW S, IsFiniteSet(S), NEW p, \A o \in S : p[o].size \in Int, NEW x \in S
  PROVE  Bytes(p, S) = p[x].size + Bytes(p, S \ {x})
  <1> DEFINE Splits(T) == \A y \in T : Bytes(p, T) = p[y].size + Bytes(p, T \ {y})
             Bad == {T \in SUBSET S : ~ Splits(T)}
  <1>1. SUFFICES ASSUME Bad # {} PROVE FALSE
    BY <1>1
  <1>2. PICK T \in Bad : \A y \in T : T \ {y} \notin Bad
    BY <1>1, SmallestSet
  <1>3. T \in SUBSET S /\ ~ Splits(T) /\ \A y \in T : Splits(T \ {y})
    BY <1>2
  <1>4. IsFiniteSet(T) /\ \A o \in T : p[o].size \in Int
    BY <1>3, FS_Subset
  <1>5. PICK y \in T : Bytes(p, T) # p[y].size + Bytes(p, T \ {y})
    BY <1>3
  <1>6. PICK c \in T : Bytes(p, T) = p[c].size + Bytes(p, T \ {c})
    BY <1>4, <1>5, BytesRecursion
  <1>7. c # y
    BY <1>5, <1>6
  <1>8. (T \ {c}) \ {y} = (T \ {y}) \ {c}
    OBVIOUS
  <1>9. /\ Bytes(p, T \ {c}) = p[y].size + Bytes(p, (T \ {c}) \ {y})
        /\ Bytes(p, T \ {y}) = p[c].size + Bytes(p, (T \ {c}) \ {y})
    BY <1>3, <1>7, <1>8, SMTT(30)
  <1>10. Bytes(p, (T \ {c}) \ {y}) \in Int /\ p[y].size \in Int /\ p[c].size \in Int
    <2>1. IsFiniteSet((T \ {c}) \ {y}) /\ (T \ {c}) \ {y} \subseteq T
      BY <1>4, FS_Subset
    <2>2. QED
      BY <1>4, <2>1, BytesRecursion
  <1> HIDE DEF Splits, Bad
  <1>11. QED
    BY <1>5, <1>6, <1>9, <1>10

(* ... or is added. *)
LEMMA BytesOfMore ==
  ASSUME NEW S, IsFiniteSet(S), NEW p, NEW x, x \notin S, \A o \in S \cup {x} : p[o].size \in Int
  PROVE  Bytes(p, S \cup {x}) = Bytes(p, S) + p[x].size
  <1>1. IsFiniteSet(S \cup {x}) /\ (S \cup {x}) \ {x} = S
    BY FS_AddElement
  <1>2. Bytes(p, S \cup {x}) = p[x].size + Bytes(p, S)
    BY <1>1, BytesOfOthers
  <1>3. Bytes(p, S) \in Int /\ p[x].size \in Int
    BY BytesRecursion
  <1>4. QED
    BY <1>2, <1>3

(* The sum depends on the sizes of its objects only. *)
LEMMA BytesSame ==
  ASSUME NEW S, IsFiniteSet(S), NEW p, NEW other,
         \A o \in S : p[o].size \in Int /\ other[o].size = p[o].size
  PROVE  Bytes(other, S) = Bytes(p, S)
  <1> DEFINE Bad == {T \in SUBSET S : Bytes(other, T) # Bytes(p, T)}
  <1>1. SUFFICES ASSUME Bad # {} PROVE FALSE
    BY <1>1
  <1>2. PICK T \in Bad : \A y \in T : T \ {y} \notin Bad
    BY <1>1, SmallestSet
  <1>3. /\ IsFiniteSet(T) /\ T \in SUBSET S
        /\ \A o \in T : p[o].size \in Int /\ other[o].size \in Int
    BY <1>2, FS_Subset
  <1>4. T # {}
    BY <1>2, <1>3, BytesRecursion
  <1>5. PICK x \in T : Bytes(p, T) = p[x].size + Bytes(p, T \ {x})
    BY <1>3, <1>4, BytesRecursion
  <1>6. Bytes(other, T) = other[x].size + Bytes(other, T \ {x})
    BY <1>3, BytesOfOthers
  <1>7. Bytes(other, T \ {x}) = Bytes(p, T \ {x})
    BY <1>2, <1>3
  <1>8. QED
    BY <1>2, <1>3, <1>5, <1>6, <1>7

(* Sizes are never negative. *)
LEMMA BytesPositive ==
  ASSUME NEW S, IsFiniteSet(S), NEW p, \A o \in S : p[o].size \in Nat
  PROVE  Bytes(p, S) \in Nat
  <1> DEFINE Bad == {T \in SUBSET S : Bytes(p, T) \notin Nat}
  <1>1. SUFFICES ASSUME Bad # {} PROVE FALSE
    BY <1>1
  <1>2. PICK T \in Bad : \A y \in T : T \ {y} \notin Bad
    BY <1>1, SmallestSet
  <1>3. /\ IsFiniteSet(T) /\ T \in SUBSET S
        /\ \A o \in T : p[o].size \in Int
    BY <1>2, FS_Subset
  <1>4. T # {}
    <2>1. Bytes(p, {}) = 0
      BY <1>3, BytesRecursion
    <2>2. Bytes(p, T) \notin Nat
      BY <1>2
    <2> HIDE DEF Bad
    <2>3. QED
      BY <2>1, <2>2
  <1>5. PICK x \in T : Bytes(p, T) = p[x].size + Bytes(p, T \ {x})
    BY <1>3, <1>4, BytesRecursion
  <1>6. Bytes(p, T \ {x}) \in Nat /\ p[x].size \in Nat
    BY <1>2, <1>3
  <1>7. QED
    BY <1>2, <1>5, <1>6

-----------------------------------------------------------------------------
(* Defragmentation.  What a context remembers of its pass: p is what is    *)
(* placed, q the vector.                                                   *)
Moves == [src : Allocations \ Temps, dst : Temps]

Width == 2^IgnoredBits

Contexts ==
  [step : {"idle", "computing", "begun", "release", "ended"}, moves : Seq(Moves),
   ignored : 0 .. Width - 1, immovable : Nat, immovableBlocks : Seq(BlockIds),
   allocationsMoved : Nat, bytesMoved : Nat, at : Nat,
   todo : SUBSET (Allocations \ Temps), skipped : Nat, ended : BOOLEAN]

(* While its temporary is being freed, the first move is done. *)
First(step) == IF step = "release" THEN 2 ELSE 1

SourcesFrom(m, f) == {m[i].src : i \in f .. Len(m)}

(* From the f-th on, a move leads from an allocation that lives to a       *)
(* temporary of its size, which is not behind it.                          *)
MovesFit(m, f, p, q) ==
  /\ \A i, j \in 1 .. Len(m) : i # j => m[i].src # m[j].src /\ m[i].dst # m[j].dst
  /\ DOMAIN p \cap Temps = {m[i].dst : i \in 1 .. Len(m)}
  /\ \A i \in f .. Len(m) :
       /\ m[i].src \in DOMAIN p /\ p[m[i].src].size = p[m[i].dst].size
       /\ Before(q, p[m[i].dst].block, p[m[i].src].block)

(* The counters are within the limits, and cover n moves of s bytes; they  *)
(* are these n moves, or more moves and bytes.                             *)
Covered(c, n, s) ==
  /\ c.allocationsMoved <= MaxPassAllocations /\ c.bytesMoved <= MaxPassBytes
  /\ n <= c.allocationsMoved /\ s <= c.bytesMoved
  /\ c.allocationsMoved = n => c.bytesMoved = s

(* In the course of PassBegin: what the pass has taken is behind, or in    *)
(* the block it visits, where the rest is still to be looked at; and there *)
(* is room for more.                                                       *)
VisitFits(c, p, q) ==
  /\ c.at \in 1 .. Len(q)
  /\ \A a \in c.todo : a \in DOMAIN p /\ p[a].block = q[c.at]
  /\ \A i \in 1 .. Len(c.moves) : c.moves[i].src \notin c.todo
  /\ \A i \in 1 .. Len(c.moves) : \E k \in c.at .. Len(q) : p[c.moves[i].src].block = q[k]
  /\ c.allocationsMoved = Len(c.moves) /\ c.allocationsMoved < MaxPassAllocations
  /\ c.bytesMoved < MaxPassBytes

CountsFit(c, p) ==
  LET f == First(c.step)
  IN Covered(c, Len(c.moves) - f + 1, Bytes(p, SourcesFrom(c.moves, f)))

ContextFits(c, p, q) ==
  /\ c \in Contexts
  /\ MovesFit(c.moves, First(c.step), p, q)
  /\ CountsFit(c, p)
  /\ c.step = "computing" => VisitFits(c, p, q)
  /\ c.step \in {"idle", "ended"} => c.moves = <<>>
  /\ c.step = "idle" => c.allocationsMoved = 0
  /\ c.step = "begun" /\ c.moves = <<>> => c.allocationsMoved = 0
  /\ c.step = "release" => c.moves # <<>>

DInv ==
  /\ IInv
  /\ Step("none") => ctx = NoContext /\ DOMAIN placed \cap Temps = {}
  /\ ~ Step("none") => ~ incrementalSort /\ ContextFits(ctx, placed, blocks)

Sized(p) == \A a \in DOMAIN p : p[a].size \in Nat

(* What the constants are, for the provers. *)
LEMMA DefragConstants ==
  /\ Temps \subseteq Allocations /\ Sizes \subseteq Nat \ {0}
  /\ MaxPassAllocations \in Nat \ {0} /\ MaxPassBytes \in Nat \ {0}
  <1>1. Sizes \subseteq Nat \ {0}
    BY BlockVectorAssumption
  <1> QED
    BY <1>1, DefragAssumption, Zenon

(* A counter has a value. *)
LEMMA WidthPositive == Width \in Nat \ {0}
  BY DefragAssumption, Zenon DEF Width

(* Counting wraps around within the width of the counter. *)
LEMMA CountedFits ==
  ASSUME NEW n \in Nat
  PROVE  Counted(n) \in 0 .. Width - 1
  <1>1. Counted(n) = (n + 1) % Width
    BY Zenon DEF Counted, Width
  <1> PICK w \in Nat \ {0} : w = Width
    BY WidthPositive
  <1>2. (n + 1) % w \in 0 .. w - 1
    OBVIOUS
  <1> QED
    BY <1>1, <1>2

(* Sequences of moves. *)
LEMMA MovesFacts ==
  ASSUME NEW m \in Seq(Moves), NEW f \in {1, 2}
  PROVE  /\ Len(m) \in Nat /\ DOMAIN m = 1 .. Len(m)
         /\ \A i \in 1 .. Len(m) : /\ m[i] \in Moves /\ m[i].src \in Allocations \ Temps
                                   /\ m[i].dst \in Temps
         /\ \A i \in f .. Len(m) : i \in 1 .. Len(m)
         /\ IsFiniteSet(SourcesFrom(m, f))
         /\ m # <<>> => 1 \in 1 .. Len(m) /\ Head(m) = m[1]
  <1>1. Len(m) \in Nat /\ DOMAIN m = 1 .. Len(m)
    BY LenProperties
  <1>2. \A i \in 1 .. Len(m) : /\ m[i] \in Moves /\ m[i].src \in Allocations \ Temps
                               /\ m[i].dst \in Temps
    <2>1. \A x \in Moves : x.src \in Allocations \ Temps /\ x.dst \in Temps
      BY DEF Moves
    <2>2. \A i \in 1 .. Len(m) : m[i] \in Moves
      BY <1>1
    <2>3. QED
      BY <2>1, <2>2
  <1>3. \A i \in f .. Len(m) : i \in 1 .. Len(m)
    BY <1>1
  <1>4. IsFiniteSet(SourcesFrom(m, f))
    <2> DEFINE F == [i \in f .. Len(m) |-> m[i].src]
    <2>1. IsFiniteSet(f .. Len(m))
      BY <1>1, FS_Interval
    <2>2. F \in Surjection(f .. Len(m), SourcesFrom(m, f))
      BY DEF Surjection, SourcesFrom
    <2> HIDE DEF F
    <2>3. QED
      BY <2>1, <2>2, FS_Surjection
  <1>5. m # <<>> => 1 \in 1 .. Len(m) /\ Head(m) = m[1]
    BY <1>1
  <1> QED
    BY <1>1, <1>2, <1>3, <1>4, <1>5

(* The sources taken apart at the first, and after another one. *)
LEMMA SourcesApart ==
  ASSUME NEW m \in Seq(Moves), m # <<>>,
         \A i, j \in 1 .. Len(m) : i # j => m[i].src # m[j].src
  PROVE  /\ SourcesFrom(m, 1) = SourcesFrom(m, 2) \cup {m[1].src}
         /\ m[1].src \notin SourcesFrom(m, 2)
  <1>1. Len(m) \in Nat /\ 1 \in 1 .. Len(m)
    BY MovesFacts
  <1>2. \A i : i \in 1 .. Len(m) <=> i = 1 \/ i \in 2 .. Len(m)
    BY <1>1
  <1> QED
    BY <1>1, <1>2 DEF SourcesFrom

(* No moves, no bytes. *)
LEMMA NoMoves ==
  ASSUME NEW p, NEW q, DOMAIN p \cap Temps = {}
  PROVE  /\ <<>> \in Seq(Moves) /\ Len(<<>>) = 0
         /\ SourcesFrom(<<>>, 1) = {} /\ Bytes(p, {}) = 0
         /\ MovesFit(<<>>, 1, p, q)
  <1>1. <<>> \in Seq(Moves) /\ Len(<<>>) = 0 /\ 1 .. 0 = {}
    OBVIOUS
  <1>2. SourcesFrom(<<>>, 1) = {}
    BY <1>1 DEF SourcesFrom
  <1>3. Bytes(p, {}) = 0
    BY FS_EmptySet, BytesRecursion
  <1>4. MovesFit(<<>>, 1, p, q)
    BY <1>1 DEF MovesFit
  <1> QED
    BY <1>1, <1>2, <1>3, <1>4

-----------------------------------------------------------------------------
(* What is placed keeps its order when the vector changes from q to s.     *)
OrderKept(q, r, s) ==
  \A x, y \in DOMAIN r :
    Before(q, r[x].block, r[y].block) => Before(s, r[x].block, r[y].block)

(* What is placed has a size. *)
LEMMA AllSized == IInv => Sized(placed)
  BY DefragConstants DEF IInv, TypeOK, Sized

(* Freeing an allocation while the sort is off: the heap that goes has     *)
(* nothing in it.                                                          *)
LEMMA FreeKeeps ==
  ASSUME IInv, ~ incrementalSort, NEW a \in Allocations, NEW budgetExceeded \in BOOLEAN,
         Free(a, budgetExceeded)
  PROVE  /\ a \in DOMAIN placed /\ DOMAIN placed' = DOMAIN placed \ {a}
         /\ \A x \in DOMAIN placed' : placed'[x] = placed[x]
         /\ OrderKept(blocks, placed', blocks')
         /\ incrementalSort' = incrementalSort
  <1> DEFINE b == placed[a].block
             emptied == AllocationsIn(b) = {a}
             R == Retired(b, emptied, budgetExceeded)
             free == [c \in InVector |->
                        SumFreeSize(c) + IF c = b THEN placed[a].size ELSE 0]
             kept == IF R = {} THEN blocks
                     ELSE RemoveFirst(blocks, CHOOSE c \in R : TRUE)
  <1>1. /\ a \in DOMAIN placed
        /\ blocks' = SortedStep(kept, free)
        /\ placed' = [x \in DOMAIN placed \ {a} |-> placed[x]]
        /\ incrementalSort' = incrementalSort
    BY DEF Free
  <1> HIDE DEF free
  <1>2. \A c \in R : c \in InVector /\ AllocationsIn(c) \subseteq {a}
    <2>1. R = RetiredBy(a, budgetExceeded)
      BY DEF RetiredBy
    <2> HIDE DEF R
    <2>2. QED
      BY <1>1, <2>1, RetiredFacts
  <1> HIDE DEF R, emptied, b, kept
  <1>3. blocks' = kept
    BY <1>1 DEF SortedStep
  <1>4. /\ DOMAIN placed' = DOMAIN placed \ {a}
        /\ \A x \in DOMAIN placed' : placed'[x] = placed[x]
    BY <1>1
  <1>5. OrderKept(blocks, placed', blocks')
    <2>1. CASE R = {}
      BY <1>3, <2>1 DEF kept, OrderKept
    <2>2. CASE R # {}
      <3>1. PICK c : c = CHOOSE d \in R : TRUE
        OBVIOUS
      <3>2. c \in R /\ blocks' = RemoveFirst(blocks, c)
        BY <1>3, <2>2, <3>1 DEF kept
      <3>3. \A x \in DOMAIN placed' : placed'[x].block # c
        BY <1>2, <1>4, <3>2 DEF AllocationsIn
      <3>4. VectorOf(blocks, InVector, Len(blocks)) /\ c \in InVector
        BY <1>2, <3>2, TypeOKVector DEF IInv
      <3>5. \A x, y : x # c /\ y # c /\ Before(blocks, x, y) => Before(blocks', x, y)
        BY <3>2, <3>4, RemoveFirstFacts
      <3>6. QED
        BY <3>3, <3>5 DEF OrderKept
    <2>3. QED
      BY <2>1, <2>2
  <1>6. QED
    BY <1>1, <1>4, <1>5

(* Allocating adds to what is placed. *)
LEMMA AllocateKeeps ==
  ASSUME IInv, NEW a \in Allocations \ DOMAIN placed, NEW n \in Sizes,
         NEW neverAllocate, NEW canExceedFreeMemory, NEW f,
         \/ AllocateFromBlock(a, n)
         \/ AllocateInNewBlock(a, n, neverAllocate, canExceedFreeMemory, f)
  PROVE  /\ DOMAIN placed \subseteq DOMAIN placed'
         /\ DOMAIN placed' \subseteq DOMAIN placed \cup {a}
         /\ \A x \in DOMAIN placed : placed'[x] = placed[x]
         /\ OrderKept(blocks, placed', blocks')
         /\ incrementalSort' = incrementalSort
  <1>1. CASE AllocateFromBlock(a, n)
    <2>1. PICK i \in DOMAIN blocks : Place(a, blocks[i], n)
      BY <1>1 DEF AllocateFromBlock
    <2>2. UNCHANGED <<blocks, incrementalSort>>
      BY <1>1 DEF AllocateFromBlock
    <2>3. /\ DOMAIN placed' = DOMAIN placed \cup {a}
          /\ \A x \in DOMAIN placed : placed'[x] = placed[x]
      BY <2>1, PlaceFacts
    <2>4. QED
      BY <2>2, <2>3 DEF OrderKept
  <1>2. CASE AllocateInNewBlock(a, n, neverAllocate, canExceedFreeMemory, f)
    <2>1. PICK b \in BlockIds :
            /\ blocks' = Append(blocks, b)
            /\ Place(a, b, n) \/ UNCHANGED placed
      BY <1>2 DEF AllocateInNewBlock
    <2>2. UNCHANGED incrementalSort
      BY <1>2 DEF AllocateInNewBlock
    <2>3. /\ DOMAIN placed \subseteq DOMAIN placed'
          /\ DOMAIN placed' \subseteq DOMAIN placed \cup {a}
          /\ \A x \in DOMAIN placed : placed'[x] = placed[x]
      BY <2>1, PlaceFacts
    <2>4. \A x, y : Before(blocks, x, y) => Before(blocks', x, y)
      <3>1. blocks \in Seq(BlockIds) /\ DOMAIN blocks = 1 .. Len(blocks) /\ Len(blocks) \in Nat
        BY LenProperties DEF IInv, TypeOK
      <3>2. /\ DOMAIN blocks \subseteq DOMAIN blocks'
            /\ \A i \in DOMAIN blocks : blocks'[i] = blocks[i]
        BY <2>1, <3>1
      <3>3. QED
        BY <3>2 DEF Before
    <2>5. QED
      BY <2>2, <2>3, <2>4 DEF OrderKept
  <1>3. QED
    BY <1>1, <1>2

(* The sum of what moves from depends on the sizes only. *)
LEMMA BytesKept ==
  ASSUME NEW m \in Seq(Moves), NEW f \in {1, 2}, NEW p, NEW q, NEW r,
         MovesFit(m, f, p, q), Sized(p),
         \A i \in f .. Len(m) : r[m[i].src].size = p[m[i].src].size
  PROVE  /\ Bytes(r, SourcesFrom(m, f)) = Bytes(p, SourcesFrom(m, f))
         /\ Bytes(p, SourcesFrom(m, f)) \in Nat
  <1>1. \A x \in SourcesFrom(m, f) : p[x].size \in Nat /\ r[x].size = p[x].size
    BY DEF SourcesFrom, MovesFit, Sized
  <1> PICK S : S = SourcesFrom(m, f)
    OBVIOUS
  <1>2. IsFiniteSet(S)
    BY MovesFacts
  <1>3. \A x \in S : p[x].size \in Nat /\ p[x].size \in Int /\ r[x].size = p[x].size
    BY <1>1
  <1> QED
    BY <1>2, <1>3, BytesSame, BytesPositive

(* From p and q to r and s what a context knows is left alone.             *)
Undisturbed(c, p, q, r, s) ==
  /\ DOMAIN r \cap Temps = DOMAIN p \cap Temps
  /\ \A x \in DOMAIN p :
       x \in Temps \/ x \in SourcesFrom(c.moves, 1) => x \in DOMAIN r /\ r[x] = p[x]
  /\ OrderKept(q, r, s)

(* What other threads do leaves a context as it was. *)
LEMMA ContextKept ==
  ASSUME NEW c, NEW p, NEW q, NEW r, NEW s, ContextFits(c, p, q), c.step # "computing", Sized(p),
         Undisturbed(c, p, q, r, s)
  PROVE  ContextFits(c, r, s)
  <1> DEFINE m == c.moves
             f == First(c.step)
  <1>1. c \in Contexts /\ m \in Seq(Moves) /\ f \in {1, 2}
    BY DEF ContextFits, Contexts, First
  <1>2. MovesFit(m, f, p, q) /\ CountsFit(c, p)
    BY DEF ContextFits
  <1>3. /\ \A i \in f .. Len(m) : i \in 1 .. Len(m)
        /\ \A i \in 1 .. Len(m) : m[i].dst \in Temps
    BY <1>1, MovesFacts
  <1>4. \A i \in f .. Len(m) :
          /\ m[i].src \in DOMAIN r /\ r[m[i].src] = p[m[i].src]
          /\ m[i].dst \in DOMAIN r /\ r[m[i].dst] = p[m[i].dst]
    <2>1. TAKE i \in f .. Len(m)
    <2>2. m[i].src \in DOMAIN p /\ m[i].dst \in DOMAIN p /\ m[i].dst \in Temps
      BY <1>2, <1>3 DEF MovesFit
    <2>3. m[i].src \in SourcesFrom(m, 1)
      BY <1>3 DEF SourcesFrom
    <2>4. QED
      BY <2>2, <2>3 DEF Undisturbed
  <1> HIDE DEF m, f
  <1>5. MovesFit(m, f, r, s)
    BY <1>2, <1>4 DEF MovesFit, OrderKept, Undisturbed
  <1>6. Bytes(r, SourcesFrom(m, f)) = Bytes(p, SourcesFrom(m, f))
    <2>1. \A i \in f .. Len(m) : r[m[i].src].size = p[m[i].src].size
      BY <1>4
    <2>2. m \in Seq(Moves) /\ f \in {1, 2} /\ MovesFit(m, f, p, q)
      BY <1>1, <1>2
    <2>3. QED
      BY <2>1, <2>2, BytesKept, ZenonT(60)
  <1>7. CountsFit(c, r)
    BY <1>2, <1>6 DEF CountsFit, m, f
  <1>8. QED
    BY <1>5, <1>7 DEF ContextFits, m, f

-----------------------------------------------------------------------------
(* The beginning of a pass.                                                *)

(* The pass turns to block i: its allocations, without those put there.    *)
LEMMA VisitBegins ==
  ASSUME IInv, NEW c \in Contexts, MovesFit(c.moves, 1, placed, blocks), CountsFit(c, placed),
         c.step = "computing",
         c.allocationsMoved = Len(c.moves), c.allocationsMoved < MaxPassAllocations,
         c.bytesMoved < MaxPassBytes,
         NEW i \in 1 .. Len(blocks),
         \A j \in 1 .. Len(c.moves) :
           \E k \in 1 .. Len(blocks) :
             placed[c.moves[j].src].block = blocks[k] /\ k > i,
         NEW d, d = [c EXCEPT !.at = i, !.todo = Movable(blocks[i])]
  PROVE  ContextFits(d, placed, blocks)
  <1> PICK S : S = Movable(blocks[i])
    OBVIOUS
  <1>1. /\ S \in SUBSET (Allocations \ Temps)
        /\ \A a \in S : a \in DOMAIN placed /\ placed[a].block = blocks[i]
    BY DEF IInv, TypeOK, Movable, AllocationsIn
  <1>2. i \in Nat
    OBVIOUS
  <1>3. /\ d \in Contexts /\ d.at = i /\ d.todo = S /\ d.step = "computing" /\ d.moves = c.moves
        /\ d.allocationsMoved = c.allocationsMoved /\ d.bytesMoved = c.bytesMoved
    BY <1>1, <1>2 DEF Contexts
  <1>4. \A k, l \in 1 .. Len(blocks) : k # l => blocks[k] # blocks[l]
    BY LenProperties DEF IInv, TypeOK
  <1>5. \A j \in 1 .. Len(c.moves) : c.moves[j].src \notin S
    BY <1>1, <1>4
  <1>6. VisitFits(d, placed, blocks)
    BY <1>1, <1>3, <1>5 DEF VisitFits
  <1>7. MovesFit(d.moves, First(d.step), placed, blocks) /\ CountsFit(d, placed)
    BY <1>3 DEF First, CountsFit, Covered
  <1>8. QED
    BY <1>3, <1>6, <1>7 DEF ContextFits

(* PassBegin is over, with what it has found. *)
LEMMA VisitEnds ==
  ASSUME NEW p, NEW q, NEW c \in Contexts, MovesFit(c.moves, 1, p, q), CountsFit(c, p),
         c.step = "computing", c.moves = <<>> => c.allocationsMoved = 0,
         NEW d \in Contexts, d.step = "begun", d.moves = c.moves,
         d.allocationsMoved = c.allocationsMoved, d.bytesMoved = c.bytesMoved
  PROVE  ContextFits(d, p, q)
  <1>1. First(d.step) = 1 /\ First(c.step) = 1
    BY DEF First
  <1>2. MovesFit(d.moves, First(d.step), p, q) /\ CountsFit(d, p)
    BY <1>1 DEF CountsFit, Covered
  <1>3. QED
    BY <1>2 DEF ContextFits

(* To the block before, unless it is immovable. *)
LEMMA TurnedFits ==
  ASSUME IInv, NEW c \in Contexts, MovesFit(c.moves, 1, placed, blocks), CountsFit(c, placed),
         c.step = "computing",
         c.allocationsMoved = Len(c.moves), c.allocationsMoved < MaxPassAllocations,
         c.bytesMoved < MaxPassBytes,
         NEW i \in 0 .. Len(blocks),
         \A j \in 1 .. Len(c.moves) :
           \E k \in 1 .. Len(blocks) :
             placed[c.moves[j].src].block = blocks[k] /\ k > i
  PROVE  ContextFits(Turned(c, i), placed, blocks)
  <1>1. Len(blocks) \in Nat /\ c.immovable \in Nat
    BY LenProperties DEF IInv, TypeOK, Contexts
  <1>2. CASE i <= c.immovable + 1
    <2>1. PICK d : d = [c EXCEPT !.step = "begun", !.at = 0, !.todo = {}]
      OBVIOUS
    <2>2. /\ d \in Contexts /\ d.step = "begun" /\ d.moves = c.moves
          /\ d.allocationsMoved = c.allocationsMoved /\ d.bytesMoved = c.bytesMoved
      BY <2>1 DEF Contexts
    <2>3. c.moves = <<>> => c.allocationsMoved = 0
      OBVIOUS
    <2>4. ContextFits(d, placed, blocks)
      BY <2>2, <2>3, VisitEnds
    <2>5. QED
      BY <1>2, <2>1, <2>4 DEF Turned
  <1>3. CASE ~ (i <= c.immovable + 1)
    <2>1. i \in 1 .. Len(blocks)
      BY <1>1, <1>3
    <2>2. PICK d : d = [c EXCEPT !.at = i, !.todo = Movable(blocks[i])]
      OBVIOUS
    <2>3. ContextFits(d, placed, blocks)
      BY <2>1, <2>2, VisitBegins
    <2>4. QED
      BY <1>3, <2>2, <2>3 DEF Turned
  <1>4. QED
    BY <1>2, <1>3

(* A context that begins. *)
LEMMA NewContextFits ==
  ASSUME NEW p, NEW q, DOMAIN p \cap Temps = {}
  PROVE  ContextFits(NewContext, p, q)
  <1> PICK c : c = NewContext
    OBVIOUS
  <1>1. 0 \in 0 .. Width - 1 /\ <<>> \in Seq(Moves) /\ <<>> \in Seq(BlockIds)
    BY WidthPositive
  <1>2. /\ c \in Contexts /\ c.step = "idle" /\ c.moves = <<>>
        /\ c.allocationsMoved = 0 /\ c.bytesMoved = 0
    BY <1>1 DEF NewContext, Contexts
  <1>3. MovesFit(c.moves, First(c.step), p, q)
    BY <1>2, NoMoves DEF First
  <1>4. CountsFit(c, p)
    <2>1. First(c.step) = 1 /\ Bytes(p, SourcesFrom(c.moves, 1)) = 0 /\ Len(c.moves) = 0
      BY <1>2, NoMoves DEF First
    <2>2. QED
      BY <1>2, <2>1, DefragConstants DEF CountsFit, Covered
  <1>5. QED
    BY <1>2, <1>3, <1>4 DEF ContextFits

(* What an idle context knows. *)
LEMMA NoMovesLeft ==
  ASSUME NEW c, NEW p, NEW q, ContextFits(c, p, q), c.moves = <<>>, c.step # "release"
  PROVE  /\ DOMAIN p \cap Temps = {} /\ Len(c.moves) = 0 /\ First(c.step) = 1
         /\ Bytes(p, SourcesFrom(c.moves, 1)) = 0
         /\ c.allocationsMoved = 0 => c.bytesMoved = 0
  <1>1. First(c.step) = 1 /\ Len(c.moves) = 0 /\ c \in Contexts
    BY DEF ContextFits, First
  <1>2. DOMAIN p \cap Temps = {}
    BY <1>1 DEF ContextFits, MovesFit
  <1>3. Bytes(p, SourcesFrom(c.moves, 1)) = 0
    BY <1>2, NoMoves
  <1>4. QED
    BY <1>1, <1>2, <1>3 DEF ContextFits, CountsFit, Covered

(* A context without moves fits whatever its immovable blocks. *)
LEMMA BareContextFits ==
  ASSUME NEW p, NEW q, DOMAIN p \cap Temps = {},
         NEW d \in Contexts, d.moves = <<>>, d.step \in {"idle", "ended", "begun"},
         d.allocationsMoved <= MaxPassAllocations, d.bytesMoved <= MaxPassBytes,
         d.allocationsMoved = 0 => d.bytesMoved = 0,
         d.step # "ended" => d.allocationsMoved = 0
  PROVE  ContextFits(d, p, q)
  <1>1. First(d.step) = 1
    BY DEF First
  <1>2. Len(d.moves) = 0 /\ Bytes(p, SourcesFrom(d.moves, 1)) = 0 /\ MovesFit(d.moves, 1, p, q)
    BY NoMoves
  <1>3. d.allocationsMoved \in Nat /\ d.bytesMoved \in Nat
    BY DEF Contexts
  <1>4. CountsFit(d, p)
    BY <1>1, <1>2, <1>3 DEF CountsFit, Covered
  <1>5. QED
    BY <1>1, <1>2, <1>4 DEF ContextFits

(* PassBegin turns to the last block, or to the only one. *)
LEMMA PassBeginFits ==
  ASSUME IInv, ContextFits(ctx, placed, blocks), PassBegin
  PROVE  ContextFits(ctx', placed, blocks)
  <1> PICK c : c = [ctx EXCEPT !.step = "computing", !.skipped = 0, !.ended = FALSE]
    OBVIOUS
  <1>1. /\ ctx.step = "idle" /\ ctx \in Contexts /\ ctx.moves = <<>> /\ ctx.allocationsMoved = 0
        /\ ctx' = IF Len(blocks) = 1
                  THEN [c EXCEPT !.at = 1, !.todo = Movable(blocks[1])]
                  ELSE Turned(c, Len(blocks))
    BY DEF PassBegin, Step, ContextFits
  <1>2. /\ c \in Contexts /\ c.step = "computing" /\ c.moves = <<>>
        /\ c.allocationsMoved = ctx.allocationsMoved /\ c.bytesMoved = ctx.bytesMoved
    BY <1>1 DEF Contexts
  <1>3. /\ DOMAIN placed \cap Temps = {} /\ Len(c.moves) = 0 /\ c.bytesMoved = 0
        /\ Bytes(placed, SourcesFrom(c.moves, 1)) = 0 /\ MovesFit(c.moves, 1, placed, blocks)
    BY <1>1, <1>2, NoMovesLeft, NoMoves
  <1>4. c.allocationsMoved < MaxPassAllocations /\ c.bytesMoved < MaxPassBytes
    BY <1>1, <1>2, <1>3, DefragConstants
  <1>5. CountsFit(c, placed)
    BY <1>1, <1>2, <1>3, <1>4, DefragConstants DEF CountsFit, Covered, First
  <1>6. Len(blocks) \in Nat /\ 1 .. Len(c.moves) = {}
    BY <1>3, LenProperties DEF IInv, TypeOK
  <1>7. CASE Len(blocks) = 1
    <2>1. 1 \in 1 .. Len(blocks)
      BY <1>7
    <2>2. QED
      BY <1>1, <1>2, <1>3, <1>4, <1>5, <1>6, <1>7, <2>1, VisitBegins
  <1>8. CASE Len(blocks) # 1
    <2>1. Len(blocks) \in 0 .. Len(blocks)
      BY <1>6
    <2>2. QED
      BY <1>1, <1>2, <1>3, <1>4, <1>5, <1>6, <1>8, <2>1, TurnedFits
  <1>9. QED
    BY <1>7, <1>8

(* PassBegin goes on to the block before. *)
LEMMA NextBlockFits ==
  ASSUME IInv, ContextFits(ctx, placed, blocks), NextBlock
  PROVE  ContextFits(ctx', placed, blocks)
  <1>1. ctx.step = "computing" /\ ctx' = Turned(ctx, ctx.at - 1) /\ First(ctx.step) = 1
    BY DEF NextBlock, Locked, Step, First
  <1>2. /\ ctx \in Contexts /\ MovesFit(ctx.moves, 1, placed, blocks) /\ CountsFit(ctx, placed)
        /\ VisitFits(ctx, placed, blocks)
    BY <1>1 DEF ContextFits
  <1>3. PICK i : i = ctx.at - 1
    OBVIOUS
  <1>4. Len(blocks) \in Nat
    BY LenProperties DEF IInv, TypeOK
  <1>5. /\ i \in 0 .. Len(blocks)
        /\ \A j \in 1 .. Len(ctx.moves) :
             \E k \in 1 .. Len(blocks) :
               placed[ctx.moves[j].src].block = blocks[k] /\ k > i
    BY <1>2, <1>3, <1>4 DEF VisitFits
  <1>6. /\ ctx.allocationsMoved = Len(ctx.moves) /\ ctx.allocationsMoved < MaxPassAllocations
        /\ ctx.bytesMoved < MaxPassBytes
    BY <1>2 DEF VisitFits
  <1>7. QED
    BY <1>1, <1>2, <1>3, <1>5, <1>6, TurnedFits

(* Looking at an allocation and leaving it. *)
LEMMA LeftFits ==
  ASSUME NEW p, NEW q, NEW c, ContextFits(c, p, q), c.step = "computing",
         NEW d \in Contexts, d.step = "computing", d.moves = c.moves, d.at = c.at,
         d.allocationsMoved = c.allocationsMoved, d.bytesMoved = c.bytesMoved,
         d.todo \subseteq c.todo
  PROVE  ContextFits(d, p, q)
  <1>1. VisitFits(d, p, q)
    BY DEF ContextFits, VisitFits
  <1>2. MovesFit(d.moves, First(d.step), p, q) /\ CountsFit(d, p)
    BY DEF ContextFits, CountsFit, Covered
  <1>3. QED
    BY <1>1, <1>2 DEF ContextFits

(* An allocation that no block has room for stays. *)
LEMMA NoMoveFits ==
  ASSUME ContextFits(ctx, placed, blocks), NEW a, NoMove(a)
  PROVE  ContextFits(ctx', placed, blocks)
  <1>1. ctx.step = "computing" /\ ctx' = [ctx EXCEPT !.todo = ctx.todo \ {a}] /\ ctx \in Contexts
    BY DEF NoMove, Considered, Locked, Step, ContextFits
  <1>2. /\ ctx' \in Contexts /\ ctx'.step = "computing" /\ ctx'.moves = ctx.moves /\ ctx'.at = ctx.at
        /\ ctx'.allocationsMoved = ctx.allocationsMoved /\ ctx'.bytesMoved = ctx.bytesMoved
        /\ ctx'.todo \subseteq ctx.todo
    BY <1>1 DEF Contexts
  <1>3. QED
    BY <1>1, <1>2, LeftFits

(* An allocation too large for the pass is ignored, or ends it. *)
LEMMA IgnoreFits ==
  ASSUME ContextFits(ctx, placed, blocks), NEW a, Ignore(a)
  PROVE  ContextFits(ctx', placed, blocks)
  <1>1. ctx.step = "computing" /\ ctx \in Contexts
    BY DEF Ignore, Locked, Step, ContextFits
  <1>2. PICK n : n = Counted(ctx.ignored)
    OBVIOUS
  <1> PICK k, T : k = ctx.skipped + 1 /\ T = ctx.todo \ {a}
    OBVIOUS
  <1> PICK c : c = [ctx EXCEPT !.ignored = n, !.skipped = k, !.todo = T]
    OBVIOUS
  <1>3. c = [ctx EXCEPT !.ignored = n, !.skipped = ctx.skipped + 1, !.todo = ctx.todo \ {a}]
    OBVIOUS
  <1>4. ctx' = IF n < MaxAllocsToIgnore THEN c
               ELSE [c EXCEPT !.step = "begun", !.at = 0, !.todo = {}, !.ended = TRUE]
    BY <1>2, <1>3 DEF Ignore
  <1>5. n \in 0 .. Width - 1
    <2>1. ctx.ignored \in Nat
      BY <1>1, WidthPositive DEF Contexts
    <2>2. QED
      BY <1>2, <2>1, CountedFits
  <1>6. /\ c \in Contexts /\ c.step = "computing" /\ c.moves = ctx.moves /\ c.at = ctx.at
        /\ c.allocationsMoved = ctx.allocationsMoved /\ c.bytesMoved = ctx.bytesMoved
        /\ c.todo \subseteq ctx.todo
    <2>1. k \in Nat /\ T \in SUBSET (Allocations \ Temps) /\ T \subseteq ctx.todo
      BY <1>1 DEF Contexts
    <2>2. QED
      BY <1>1, <1>5, <2>1 DEF Contexts
  <1>7. ContextFits(c, placed, blocks)
    BY <1>1, <1>6, LeftFits
  <1>8. PICK d : d = [c EXCEPT !.step = "begun", !.at = 0, !.todo = {}, !.ended = TRUE]
    OBVIOUS
  <1>9. ContextFits(d, placed, blocks)
    <2>1. /\ d \in Contexts /\ d.step = "begun" /\ d.moves = c.moves
          /\ d.allocationsMoved = c.allocationsMoved /\ d.bytesMoved = c.bytesMoved
      BY <1>6, <1>8 DEF Contexts
    <2>2. First(c.step) = 1
      BY <1>6 DEF First
    <2>3. /\ MovesFit(c.moves, 1, placed, blocks) /\ CountsFit(c, placed)
          /\ VisitFits(c, placed, blocks)
      BY <1>6, <1>7, <2>2 DEF ContextFits
    <2>4. c.moves = <<>> => c.allocationsMoved = 0
      BY <2>3 DEF VisitFits
    <2>5. QED
      BY <1>6, <2>1, <2>3, <2>4, VisitEnds
  <1>10. QED
    BY <1>4, <1>7, <1>8, <1>9

(* v is m and the move of a to t, which is placed with the size of a and   *)
(* not behind it: r is p and the place of t.                               *)
HasMore(m, p, q, a, t, r, v) ==
  /\ m \in Seq(Moves) /\ MovesFit(m, 1, p, q) /\ Sized(p)
  /\ a \in Allocations \ Temps /\ a \in DOMAIN p /\ a \notin SourcesFrom(m, 1)
  /\ t \in Temps /\ t \notin DOMAIN p
  /\ DOMAIN r = DOMAIN p \cup {t}
  /\ \A x \in DOMAIN p : r[x] = p[x]
  /\ r[t].size = p[a].size /\ Before(q, r[t].block, p[a].block)
  /\ v = Append(m, [src |-> a, dst |-> t])

(* Then the moves fit, and their bytes are more by its size.               *)
MoreFits(m, p, q, a, r, v) ==
  /\ v \in Seq(Moves) /\ Len(v) = Len(m) + 1 /\ v # <<>>
  /\ \A i \in 1 .. Len(m) : v[i] = m[i]
  /\ v[Len(m) + 1].src = a
  /\ MovesFit(v, 1, r, q)
  /\ Bytes(r, SourcesFrom(v, 1)) = Bytes(p, SourcesFrom(m, 1)) + p[a].size
  /\ Bytes(p, SourcesFrom(m, 1)) \in Nat

(* Adding a move to the moves keeps them fitting. *)
LEMMA OneMoreMove ==
  ASSUME NEW m, NEW p, NEW q, NEW a, NEW t, NEW r, NEW v, HasMore(m, p, q, a, t, r, v)
  PROVE  MoreFits(m, p, q, a, r, v)
  <1> USE DEF HasMore
  <1> PICK e : e = [src |-> a, dst |-> t]
    OBVIOUS
  <1>1. e \in Moves /\ e.src = a /\ e.dst = t
    BY DEF Moves
  <1>2. /\ Len(m) \in Nat
        /\ v \in Seq(Moves) /\ Len(v) = Len(m) + 1
        /\ \A i \in 1 .. Len(m) : v[i] = m[i]
        /\ v[Len(m) + 1] = e
    BY <1>1, AppendProperties, LenProperties
  <1> PICK n \in Nat : n = Len(m)
    BY <1>2
  <1>3. \A i : i \in 1 .. n + 1 <=> i \in 1 .. n \/ i = n + 1
    OBVIOUS
  <1>4. \A i \in 1 .. n : /\ m[i].src \in DOMAIN p /\ m[i].dst \in DOMAIN p
                          /\ m[i].src # a /\ m[i].dst # t
                          /\ v[i] = m[i] /\ m[i].dst \in Temps
    <2>1. TAKE i \in 1 .. n
    <2>2. m[i].src \in DOMAIN p /\ m[i].dst \in DOMAIN p /\ m[i].dst \in Temps
      BY DEF MovesFit
    <2>3. m[i].src # a
      BY DEF SourcesFrom
    <2>4. QED
      BY <1>2, <2>2, <2>3
  <1>5. v[n + 1].src = a /\ v[n + 1].dst = t /\ Len(v) = n + 1
    BY <1>1, <1>2
  <1>6. MovesFit(v, 1, r, q)
    <2>1. \A i, j \in 1 .. n + 1 : i # j => v[i].src # v[j].src /\ v[i].dst # v[j].dst
      <3>1. \A i, j \in 1 .. n : i # j => v[i].src # v[j].src /\ v[i].dst # v[j].dst
        BY <1>4 DEF MovesFit
      <3>2. \A i \in 1 .. n : v[i].src # v[n + 1].src /\ v[i].dst # v[n + 1].dst
        BY <1>4, <1>5
      <3>3. QED
        BY <1>3, <3>1, <3>2
    <2>2. DOMAIN r \cap Temps = {v[i].dst : i \in 1 .. n + 1}
      <3>1. DOMAIN p \cap Temps = {v[i].dst : i \in 1 .. n}
        BY <1>4 DEF MovesFit
      <3>2. {v[i].dst : i \in 1 .. n + 1} = {v[i].dst : i \in 1 .. n} \cup {t}
        BY <1>3, <1>5
      <3>3. QED
        BY <3>1, <3>2
    <2>3. ASSUME NEW i \in 1 .. n + 1
          PROVE  /\ v[i].src \in DOMAIN r /\ r[v[i].src].size = r[v[i].dst].size
                 /\ Before(q, r[v[i].dst].block, r[v[i].src].block)
      <3>1. CASE i \in 1 .. n
        <4>1. r[m[i].src] = p[m[i].src] /\ r[m[i].dst] = p[m[i].dst] /\ v[i] = m[i]
          BY <1>4, <3>1
        <4>2. QED
          BY <1>4, <3>1, <4>1 DEF MovesFit
      <3>2. CASE i = n + 1
        <4>1. r[a] = p[a] /\ v[i].src = a /\ v[i].dst = t
          BY <1>5, <3>2
        <4>2. QED
          BY <4>1
      <3>3. QED
        BY <1>3, <3>1, <3>2
    <2>4. QED
      BY <1>5, <2>1, <2>2, <2>3 DEF MovesFit
  <1>7. SourcesFrom(v, 1) = SourcesFrom(m, 1) \cup {a}
    BY <1>3, <1>4, <1>5 DEF SourcesFrom
  <1>8. PICK S : S = SourcesFrom(m, 1)
    OBVIOUS
  <1>9. /\ IsFiniteSet(S) /\ a \notin S
        /\ \A x \in S \cup {a} : r[x].size \in Int /\ r[x].size \in Nat
    <2>1. \A x \in S \cup {a} : x \in DOMAIN p
      BY <1>4, <1>8 DEF SourcesFrom
    <2>2. QED
      BY <1>8, <2>1, MovesFacts DEF Sized
  <1>10. Bytes(r, S \cup {a}) = Bytes(r, S) + r[a].size
    BY <1>9, BytesOfMore
  <1>11. Bytes(r, S) = Bytes(p, S) /\ Bytes(p, S) \in Nat
    <2>1. \A i \in 1 .. Len(m) : r[m[i].src].size = p[m[i].src].size
      BY <1>4
    <2>2. QED
      BY <1>8, <2>1, BytesKept
  <1>12. r[a] = p[a]
    OBVIOUS
  <1>13. v # <<>>
    BY <1>2
  <1>14. QED
    BY <1>2, <1>5, <1>6, <1>7, <1>8, <1>10, <1>11, <1>12, <1>13 DEF MoreFits

(* IncrementCounters: a move within the limits, or the last. *)
LEMMA MovedFits ==
  ASSUME IInv, ContextFits(ctx, placed, blocks), NEW a, Considered(a),
         NEW t \in Temps, t \notin DOMAIN placed,
         NEW j \in 1 .. ctx.at, NEW r, DOMAIN r = DOMAIN placed \cup {t},
         r[t] = [block |-> blocks[j], size |-> placed[a].size],
         \A x \in DOMAIN placed : r[x] = placed[x]
  PROVE  ContextFits(Moved(a, t), r, blocks)
  <1> PICK m : m = ctx.moves
    OBVIOUS
  <1> PICK n : n = placed[a].size
    OBVIOUS
  <1> PICK v : v = Append(m, [src |-> a, dst |-> t])
    OBVIOUS
  <1>1. /\ ctx.step = "computing" /\ a \in ctx.todo /\ ctx \in Contexts /\ First(ctx.step) = 1
        /\ ~ (ctx.bytesMoved + n > MaxPassBytes)
    BY DEF Considered, Locked, Step, ContextFits, Exceeds, First
  <1>2. /\ m \in Seq(Moves) /\ a \in Allocations \ Temps /\ Len(m) \in Nat
        /\ ctx.bytesMoved \in Nat /\ ctx.allocationsMoved \in Nat
    <2>1. /\ m \in Seq(Moves) /\ a \in Allocations \ Temps
          /\ ctx.bytesMoved \in Nat /\ ctx.allocationsMoved \in Nat
      BY <1>1 DEF Contexts
    <2>2. QED
      BY <2>1, LenProperties
  <1>3. MovesFit(m, 1, placed, blocks) /\ CountsFit(ctx, placed) /\ VisitFits(ctx, placed, blocks)
    BY <1>1 DEF ContextFits
  <1>4. /\ ctx.at \in 1 .. Len(blocks) /\ a \in DOMAIN placed /\ placed[a].block = blocks[ctx.at]
        /\ a \notin SourcesFrom(m, 1)
        /\ ctx.allocationsMoved = Len(m)
    BY <1>1, <1>3 DEF VisitFits, SourcesFrom
  <1>5. Len(blocks) \in Nat /\ DOMAIN blocks = 1 .. Len(blocks)
    BY LenProperties DEF IInv, TypeOK
  <1>6. Before(blocks, r[t].block, placed[a].block) /\ r[t].size = n
    <2>1. j \in DOMAIN blocks /\ ctx.at \in DOMAIN blocks /\ j <= ctx.at
      BY <1>4, <1>5
    <2>2. QED
      BY <1>4, <2>1 DEF Before
  <1>7. Sized(placed) /\ n \in Nat \ {0}
    BY <1>4, AllSized, DefragConstants DEF IInv, TypeOK
  <1>8. /\ v \in Seq(Moves) /\ Len(v) = Len(m) + 1 /\ v # <<>>
        /\ \A i \in 1 .. Len(m) : v[i] = m[i]
        /\ v[Len(m) + 1].src = a
        /\ MovesFit(v, 1, r, blocks)
        /\ Bytes(r, SourcesFrom(v, 1)) = Bytes(placed, SourcesFrom(m, 1)) + n
        /\ Bytes(placed, SourcesFrom(m, 1)) \in Nat
    <2> PICK p : p = placed
      OBVIOUS
    <2> PICK q : q = blocks
      OBVIOUS
    <2>1. MovesFit(m, 1, p, q) /\ Sized(p) /\ m \in Seq(Moves)
      BY <1>2, <1>3, <1>7
    <2>2. a \in Allocations \ Temps /\ a \in DOMAIN p /\ a \notin SourcesFrom(m, 1)
      BY <1>2, <1>4
    <2>3. DOMAIN r = DOMAIN p \cup {t} /\ \A x \in DOMAIN p : r[x] = p[x]
      OBVIOUS
    <2>4. r[t].size = p[a].size /\ Before(q, r[t].block, p[a].block)
      BY <1>6
    <2>5. t \in Temps /\ t \notin DOMAIN p /\ v = Append(m, [src |-> a, dst |-> t])
      OBVIOUS
    <2>6. HasMore(m, p, q, a, t, r, v)
      BY <2>1, <2>2, <2>3, <2>4, <2>5 DEF HasMore
    <2>7. MoreFits(m, p, q, a, r, v)
      BY <2>6, OneMoreMove
    <2>8. QED
      BY <2>7 DEF MoreFits
  <1>9. ctx.bytesMoved = Bytes(placed, SourcesFrom(m, 1))
    BY <1>1, <1>2, <1>3, <1>4 DEF CountsFit, Covered
  <1>10. PICK T, x, y : T = ctx.todo \ {a} /\ x = ctx.allocationsMoved + 1 /\ y = ctx.bytesMoved + n
    OBVIOUS
  <1>11. /\ T \in SUBSET (Allocations \ Temps) /\ x \in Nat /\ y \in Nat
         /\ T \subseteq ctx.todo /\ a \notin T
    <2>1. ctx.todo \in SUBSET (Allocations \ Temps)
      BY <1>1 DEF Contexts
    <2>2. x \in Nat /\ y \in Nat
      BY <1>2, <1>7, <1>10
    <2>3. QED
      BY <1>10, <2>1, <2>2
  <1>12. PICK c : c = [ctx EXCEPT !.moves = v, !.todo = T, !.allocationsMoved = x, !.bytesMoved = y]
    OBVIOUS
  <1>13. /\ c \in Contexts /\ c.step = "computing" /\ c.moves = v /\ c.at = ctx.at /\ c.todo = T
         /\ c.allocationsMoved = x /\ c.bytesMoved = y
    BY <1>1, <1>8, <1>11, <1>12 DEF Contexts
  <1>14. Moved(a, t) = IF c.allocationsMoved >= MaxPassAllocations \/ c.bytesMoved >= MaxPassBytes
                       THEN [c EXCEPT !.step = "begun", !.at = 0, !.todo = {}] ELSE c
    BY <1>10, <1>12 DEF Moved
  <1>15. CountsFit(c, r) /\ First(c.step) = 1
    <2>1. x = Len(v) /\ y = Bytes(r, SourcesFrom(v, 1)) /\ Len(v) - 1 + 1 = Len(v)
      BY <1>2, <1>4, <1>8, <1>9, <1>10
    <2>2. x <= MaxPassAllocations /\ y <= MaxPassBytes
      BY <1>1, <1>2, <1>3, <1>7, <1>10, DefragConstants DEF VisitFits
    <2>3. First(c.step) = 1
      BY <1>13 DEF First
    <2>4. x <= x /\ y <= y
      BY <1>11
    <2>5. QED
      BY <1>13, <2>1, <2>2, <2>3, <2>4 DEF CountsFit, Covered
  <1>16. CASE c.allocationsMoved >= MaxPassAllocations \/ c.bytesMoved >= MaxPassBytes
    <2>1. PICK d : d = [c EXCEPT !.step = "begun", !.at = 0, !.todo = {}]
      OBVIOUS
    <2>2. /\ d \in Contexts /\ d.step = "begun" /\ d.moves = c.moves
          /\ d.allocationsMoved = c.allocationsMoved /\ d.bytesMoved = c.bytesMoved
      BY <1>13, <2>1 DEF Contexts
    <2>3. QED
      BY <1>8, <1>13, <1>14, <1>15, <1>16, <2>1, <2>2, VisitEnds
  <1>17. CASE ~ (c.allocationsMoved >= MaxPassAllocations \/ c.bytesMoved >= MaxPassBytes)
    <2>1. c.allocationsMoved < MaxPassAllocations /\ c.bytesMoved < MaxPassBytes
      BY <1>11, <1>13, <1>17, DefragConstants
    <2>2. \A i \in 1 .. Len(v) : i \in 1 .. Len(m) \/ i = Len(m) + 1
      BY <1>2, <1>8
    <2>3. \A i \in 1 .. Len(m) : /\ m[i].src \notin T /\ m[i].src \in DOMAIN placed
                                 /\ \E k \in ctx.at .. Len(blocks) : placed[m[i].src].block = blocks[k]
      BY <1>3, <1>11 DEF VisitFits, MovesFit
    <2>4. \A i \in 1 .. Len(v) : /\ v[i].src \notin T
                                 /\ \E k \in ctx.at .. Len(blocks) : r[v[i].src].block = blocks[k]
      <3>1. TAKE i \in 1 .. Len(v)
      <3>2. CASE i \in 1 .. Len(m)
        <4>1. v[i] = m[i] /\ r[m[i].src] = placed[m[i].src]
          BY <1>8, <2>3, <3>2
        <4>2. QED
          BY <2>3, <3>2, <4>1
      <3>3. CASE i = Len(m) + 1
        <4>1. v[i].src = a /\ r[a] = placed[a] /\ ctx.at \in ctx.at .. Len(blocks)
          BY <1>4, <1>5, <1>8, <3>3
        <4>2. QED
          BY <1>4, <1>11, <4>1
      <3>4. QED
        BY <2>2, <3>2, <3>3
    <2>5. \A b \in T : b \in DOMAIN r /\ r[b].block = blocks[ctx.at]
      BY <1>3, <1>11 DEF VisitFits
    <2>6. VisitFits(c, r, blocks)
      <3>1. x = Len(v)
        BY <1>4, <1>8, <1>10
      <3>2. QED
        BY <1>4, <1>13, <2>1, <2>4, <2>5, <3>1 DEF VisitFits
    <2>7. QED
      BY <1>8, <1>13, <1>14, <1>15, <1>17, <2>6 DEF ContextFits
  <1>18. QED
    BY <1>16, <1>17

(* The three ways to make a move. *)
LEMMA MoveMade ==
  ASSUME IInv, ContextFits(ctx, placed, blocks), NEW a \in Allocations \ Temps,
         NEW t \in Temps \ DOMAIN placed,
         MoveForward(a, t) \/ ReallocWithinBlock(a, t) \/ MoveWithin(a, t)
  PROVE  IInv' /\ ContextFits(ctx', placed', blocks') /\ incrementalSort' = incrementalSort
  <1>1. Considered(a) /\ ctx' = Moved(a, t)
    BY DEF MoveForward, ReallocWithinBlock, MoveWithin, Within
  <1>2. PICK n : n = placed[a].size
    OBVIOUS
  <1>3. ctx.step = "computing" /\ a \in ctx.todo /\ VisitFits(ctx, placed, blocks)
    BY <1>1 DEF Considered, Locked, Step, ContextFits
  <1>4. /\ ctx.at \in 1 .. Len(blocks) /\ a \in DOMAIN placed /\ placed[a].block = blocks[ctx.at]
        /\ n \in Sizes /\ DOMAIN blocks = 1 .. Len(blocks) /\ Len(blocks) \in Nat
        /\ hasEmptyBlock \in BOOLEAN
    BY <1>2, <1>3, LenProperties DEF VisitFits, IInv, TypeOK
  <1>5. PICK j \in 1 .. ctx.at :
          /\ Place(t, blocks[j], n)
          /\ hasEmptyBlock' = (hasEmptyBlock /\ ~ IsEmpty(blocks[j]))
    <2>1. CASE MoveForward(a, t)
      <3>1. PICK j \in Room(n) :
              /\ Place(t, blocks[j], n)
              /\ hasEmptyBlock' = (hasEmptyBlock /\ ~ IsEmpty(blocks[j]))
        BY <1>2, <2>1 DEF MoveForward
      <3>2. j \in 1 .. ctx.at
        BY <1>4 DEF Room
      <3>3. QED
        BY <3>1, <3>2
    <2>2. CASE Within(a, t)
      <3>1. Place(t, blocks[ctx.at], n) /\ hasEmptyBlock' = hasEmptyBlock
        BY <1>2, <2>2 DEF Within
      <3>2. ~ IsEmpty(blocks[ctx.at])
        BY <1>4 DEF IsEmpty, AllocationsIn
      <3>3. ctx.at \in 1 .. ctx.at
        BY <1>4
      <3>4. QED
        BY <1>4, <3>1, <3>2, <3>3
    <2>3. QED
      BY <2>1, <2>2 DEF ReallocWithinBlock, MoveWithin
  <1>6. UNCHANGED <<blocks, blockSize, incrementalSort, doomed>>
    BY DEF MoveForward, ReallocWithinBlock, MoveWithin, Within
  <1>7. PICK b \in InVector : b = blocks[j]
    BY <1>4 DEF InVector, Range
  <1>8. t \in Allocations \ DOMAIN placed
    BY DefragConstants
  <1>9. IInv'
    BY <1>4, <1>5, <1>6, <1>7, <1>8, PlaceIInv
  <1>10. /\ DOMAIN placed' = DOMAIN placed \cup {t}
         /\ placed'[t] = [block |-> blocks[j], size |-> placed[a].size]
         /\ \A x \in DOMAIN placed : placed'[x] = placed[x]
    <2>1. Place(t, b, n)
      BY <1>5, <1>7
    <2>2. QED
      <3>1. /\ DOMAIN placed' = DOMAIN placed \cup {t}
            /\ placed'[t] = [block |-> b, size |-> n]
            /\ \A x \in DOMAIN placed : x # t => placed'[x] = placed[x]
        BY <2>1, PlaceFacts
      <3>2. QED
        BY <1>2, <1>7, <3>1
  <1>11. PICK r : r = placed'
    OBVIOUS
  <1>12. ContextFits(Moved(a, t), r, blocks)
    BY <1>1, <1>10, <1>11, MovedFits
  <1>13. QED
    BY <1>1, <1>6, <1>9, <1>11, <1>12

-----------------------------------------------------------------------------
(* The end of a pass.                                                      *)

(* What is known of the first move: p is what is placed.                   *)
FirstKnown(c, p) ==
  /\ c \in Contexts /\ c.moves \in Seq(Moves) /\ Head(c.moves) = c.moves[1]
  /\ 1 \in 1 .. Len(c.moves)
  /\ c.moves[1].src \in DOMAIN p /\ c.moves[1].src \in Allocations \ Temps
  /\ c.moves[1].dst \in DOMAIN p /\ c.moves[1].dst \in Temps
  /\ p[c.moves[1].src].size \in Nat
  /\ c.allocationsMoved - 1 \in Nat /\ c.bytesMoved - p[c.moves[1].src].size \in Nat
  /\ Bytes(p, SourcesFrom(c.moves, 2)) \in Nat
  /\ Bytes(p, SourcesFrom(c.moves, 1)) =
       Bytes(p, SourcesFrom(c.moves, 2)) + p[c.moves[1].src].size

(* While moves are left, the counters cover the first one. *)
LEMMA FirstMoveKnown ==
  ASSUME NEW c, NEW p, NEW q, ContextFits(c, p, q), c.step = "begun", c.moves # <<>>, Sized(p)
  PROVE  FirstKnown(c, p)
  <1> PICK m : m = c.moves
    OBVIOUS
  <1> PICK a : a = m[1].src
    OBVIOUS
  <1>1. c \in Contexts /\ m \in Seq(Moves) /\ MovesFit(m, 1, p, q) /\ CountsFit(c, p) /\ m # <<>>
    BY DEF ContextFits, Contexts, First
  <1>2. /\ Len(m) \in Nat /\ 1 \in 1 .. Len(m) /\ Head(m) = m[1]
        /\ m[1].src \in Allocations \ Temps /\ m[1].dst \in Temps
        /\ \A i \in 1 .. Len(m) : i \in 1 .. Len(m)
    BY <1>1, MovesFacts
  <1>3. m[1].src \in DOMAIN p /\ m[1].dst \in DOMAIN p
    BY <1>1, <1>2 DEF MovesFit
  <1>4. p[a].size \in Nat
    BY <1>3 DEF Sized
  <1>5. PICK S : S = SourcesFrom(m, 2)
    OBVIOUS
  <1>6. SourcesFrom(m, 1) = S \cup {a} /\ a \notin S
    <2>1. \A i, j \in 1 .. Len(m) : i # j => m[i].src # m[j].src
      BY <1>1 DEF MovesFit
    <2>2. QED
      BY <1>1, <1>5, <2>1, SourcesApart
  <1>7. IsFiniteSet(S)
    BY <1>1, <1>5, MovesFacts
  <1>8. \A x \in S \cup {a} : p[x].size \in Nat /\ p[x].size \in Int
    <2>1. \A x \in SourcesFrom(m, 1) : x \in DOMAIN p
      BY <1>1 DEF SourcesFrom, MovesFit
    <2>2. QED
      BY <1>6, <2>1 DEF Sized
  <1>9. Bytes(p, S \cup {a}) = Bytes(p, S) + p[a].size /\ Bytes(p, S) \in Nat
    <2>0. IsFiniteSet(S) /\ a \notin S /\ \A x \in S \cup {a} : p[x].size \in Int
      BY <1>6, <1>7, <1>8
    <2>1. Bytes(p, S \cup {a}) = Bytes(p, S) + p[a].size
      <3>1. \A x : x \notin S /\ (\A o \in S \cup {x} : p[o].size \in Int)
                    => Bytes(p, S \cup {x}) = Bytes(p, S) + p[x].size
        <4> SUFFICES ASSUME NEW x, x \notin S, \A o \in S \cup {x} : p[o].size \in Int
                     PROVE  Bytes(p, S \cup {x}) = Bytes(p, S) + p[x].size
          OBVIOUS
        <4>1. QED
          BY <2>0, BytesOfMore
      <3>2. QED
        BY <2>0, <3>1
    <2>2. Bytes(p, S) \in Nat
      BY <1>7, <1>8, BytesPositive
    <2>3. QED
      BY <2>1, <2>2
  <1>10. c.allocationsMoved - 1 \in Nat /\ c.bytesMoved - p[a].size \in Nat
    <2>1. First(c.step) = 1 /\ Len(m) - 1 + 1 = Len(m)
      BY <1>2 DEF First
    <2>2. Len(m) <= c.allocationsMoved /\ Bytes(p, S) + p[a].size <= c.bytesMoved
      BY <1>1, <1>6, <1>9, <2>1 DEF CountsFit, Covered
    <2>3. c.allocationsMoved \in Nat /\ c.bytesMoved \in Nat
      BY <1>1 DEF Contexts
    <2>4. QED
      BY <1>2, <1>4, <1>9, <2>2, <2>3
  <1>11. QED
    BY <1>1, <1>2, <1>3, <1>4, <1>5, <1>6, <1>9, <1>10 DEF FirstKnown

(* The first move is done, or given up: the rest fits as before.           *)
FirstDone(c, p, q, d, r, s) ==
  /\ ContextFits(c, p, q) /\ c.step = "begun" /\ c.moves # <<>> /\ Sized(p)
  /\ d \in Contexts /\ d.step = "release" /\ d.moves = c.moves
  /\ \/ d.allocationsMoved = c.allocationsMoved /\ d.bytesMoved = c.bytesMoved
     \/ /\ d.allocationsMoved = c.allocationsMoved - 1
        /\ d.bytesMoved = c.bytesMoved - p[c.moves[1].src].size
  /\ DOMAIN r \cap Temps = DOMAIN p \cap Temps
  /\ \A x \in DOMAIN p :
       x = c.moves[1].src \/ x = c.moves[1].dst \/ (x \in DOMAIN r /\ r[x] = p[x])
  /\ OrderKept(q, r, s)

(* Ending the first move leaves the others fitting. *)
LEMMA FirstDoneFits ==
  ASSUME NEW c, NEW p, NEW q, NEW d, NEW r, NEW s, FirstDone(c, p, q, d, r, s)
  PROVE  ContextFits(d, r, s)
  <1> PICK m : m = c.moves
    OBVIOUS
  <1>1. /\ MovesFit(m, 1, p, q) /\ CountsFit(c, p) /\ m # <<>> /\ Sized(p)
        /\ c.step = "begun" /\ FirstKnown(c, p)
    BY FirstMoveKnown DEF FirstDone, ContextFits, First
  <1>2. m \in Seq(Moves) /\ 1 \in 1 .. Len(m)
    BY <1>1 DEF FirstKnown
  <1>3. /\ Len(m) \in Nat
        /\ \A i \in 1 .. Len(m) : m[i].src \in Allocations \ Temps /\ m[i].dst \in Temps
        /\ \A i \in 2 .. Len(m) : i \in 1 .. Len(m) /\ i # 1
    BY <1>2, MovesFacts
  <1>4. \A i \in 2 .. Len(m) :
          /\ m[i].src \in DOMAIN p /\ m[i].src \in DOMAIN r /\ r[m[i].src] = p[m[i].src]
          /\ m[i].dst \in DOMAIN p /\ m[i].dst \in DOMAIN r /\ r[m[i].dst] = p[m[i].dst]
          /\ p[m[i].src].size = p[m[i].dst].size
          /\ Before(q, p[m[i].dst].block, p[m[i].src].block)
    <2>1. TAKE i \in 2 .. Len(m)
    <2>2. /\ m[i].src # m[1].src /\ m[i].dst # m[1].dst
          /\ m[i].src \in DOMAIN p /\ m[i].dst \in DOMAIN p
          /\ p[m[i].src].size = p[m[i].dst].size
          /\ Before(q, p[m[i].dst].block, p[m[i].src].block)
      BY <1>1, <1>2, <1>3 DEF MovesFit
    <2>3. m[i].src # m[1].dst /\ m[i].dst # m[1].src
      BY <1>2, <1>3
    <2>4. QED
      BY <2>2, <2>3 DEF FirstDone
  <1>5. MovesFit(m, 2, r, s)
    <2>1. \A i \in 2 .. Len(m) : Before(s, r[m[i].dst].block, r[m[i].src].block)
      BY <1>4 DEF FirstDone, OrderKept
    <2>2. QED
      BY <1>1, <1>4, <2>1 DEF MovesFit, FirstDone
  <1>6. Bytes(r, SourcesFrom(m, 2)) = Bytes(p, SourcesFrom(m, 2))
    <2>1. MovesFit(m, 2, p, q)
      BY <1>1, <1>3 DEF MovesFit
    <2>2. \A i \in 2 .. Len(m) : r[m[i].src].size = p[m[i].src].size
      BY <1>4
    <2>3. QED
      BY <1>1, <1>2, <2>1, <2>2, BytesKept
  <1>7. CountsFit(d, r)
    <2>1. First(c.step) = 1 /\ First(d.step) = 2 /\ d.moves = m
      BY <1>1 DEF First, FirstDone
    <2>2. PICK x, y, n, k :
            /\ x = c.allocationsMoved /\ y = c.bytesMoved
            /\ n = p[m[1].src].size /\ k = Bytes(p, SourcesFrom(m, 2))
      OBVIOUS
    <2>3. x \in Nat /\ y \in Nat /\ n \in Nat /\ k \in Nat /\ x - 1 \in Nat /\ y - n \in Nat
      BY <1>1, <2>2 DEF FirstKnown, Contexts
    <2>4. /\ x <= MaxPassAllocations /\ y <= MaxPassBytes
          /\ Len(m) <= x /\ k + n <= y
          /\ x = Len(m) => y = k + n
      <3>1. Bytes(p, SourcesFrom(m, 1)) = k + n /\ Len(m) - 1 + 1 = Len(m)
        BY <1>1, <1>3, <2>2 DEF FirstKnown
      <3>2. QED
        BY <1>1, <2>1, <2>2, <3>1 DEF CountsFit, Covered
    <2>5. \/ d.allocationsMoved = x /\ d.bytesMoved = y
          \/ d.allocationsMoved = x - 1 /\ d.bytesMoved = y - n
      BY <2>2 DEF FirstDone
    <2>6. Covered(d, Len(m) - 2 + 1, k)
      <3> PICK l : l = Len(m)
        OBVIOUS
      <3> PICK u : u = d.allocationsMoved
        OBVIOUS
      <3> PICK w : w = d.bytesMoved
        OBVIOUS
      <3>1. l \in Nat /\ x <= MaxPassAllocations /\ y <= MaxPassBytes /\ l <= x /\ k + n <= y
        BY <1>3, <2>4
      <3>2. x = l => y = k + n
        BY <2>4
      <3>3. (u = x /\ w = y) \/ (u = x - 1 /\ w = y - n)
        BY <2>5
      <3>4. /\ u <= MaxPassAllocations /\ w <= MaxPassBytes
            /\ l - 2 + 1 <= u /\ k <= w
            /\ u = l - 2 + 1 => w = k
        <4>1. CASE u = x /\ w = y
          BY <2>3, <3>1, <4>1, DefragConstants
        <4>2. CASE u = x - 1 /\ w = y - n
          BY <2>3, <3>1, <3>2, <4>2, DefragConstants
        <4>3. QED
          BY <3>3, <4>1, <4>2
      <3>5. QED
        BY <3>4 DEF Covered
    <2>7. QED
      BY <1>6, <2>1, <2>2, <2>6 DEF CountsFit
  <1>8. QED
    BY <1>1, <1>5, <1>7 DEF ContextFits, FirstDone, First

(* An allocation and its temporary change places. *)
LEMMA SwapIInv ==
  ASSUME IInv, NEW a \in DOMAIN placed, NEW t \in DOMAIN placed, a # t,
         placed' = Swapped(a, t),
         UNCHANGED <<blocks, blockSize, hasEmptyBlock, incrementalSort, doomed>>
  PROVE  /\ IInv'
         /\ DOMAIN placed' = DOMAIN placed
         /\ \A x \in DOMAIN placed : x # a /\ x # t => placed'[x] = placed[x]
  <1>1. UNCHANGED <<blocks, blockSize, hasEmptyBlock, incrementalSort, doomed>>
    OBVIOUS
  <1>2. \A x \in DOMAIN placed : placed[x] \in [block : BlockIds, size : Sizes]
    BY DEF IInv, Recorded
  <1>3. /\ DOMAIN placed' = DOMAIN placed
        /\ \A x \in DOMAIN placed : x # a /\ x # t => placed'[x] = placed[x]
        /\ placed'[a] = [block |-> placed[t].block, size |-> placed[a].size]
        /\ placed'[t] = [block |-> placed[a].block, size |-> placed[t].size]
    <2>1. DOMAIN placed' = DOMAIN placed
      BY DEF Swapped
    <2>2. \A x \in DOMAIN placed : x # a /\ x # t => placed'[x] = placed[x]
      BY DEF Swapped
    <2>3. placed'[a] = [placed[a] EXCEPT !.block = placed[t].block]
      BY DEF Swapped
    <2>4. placed'[t] = [placed[t] EXCEPT !.block = placed[a].block]
      BY DEF Swapped
    <2>5. QED
      BY <1>2, <2>1, <2>2, <2>3, <2>4
  <1>4. /\ \A x \in DOMAIN placed' : /\ placed'[x].size \in Sizes
                                    /\ placed'[x] \in [block : BlockIds, size : Sizes]
        /\ \A x \in DOMAIN placed' : \E y \in DOMAIN placed : placed'[x].block = placed[y].block
    <2>1. ASSUME NEW x \in DOMAIN placed'
          PROVE  /\ placed'[x].size \in Sizes /\ placed'[x] \in [block : BlockIds, size : Sizes]
                 /\ \E y \in DOMAIN placed : placed'[x].block = placed[y].block
      <3>1. CASE x = a
        BY <1>2, <1>3, <3>1
      <3>2. CASE x = t
        BY <1>2, <1>3, <3>2
      <3>3. CASE x # a /\ x # t
        BY <1>2, <1>3, <2>1, <3>3
      <3>4. QED
        BY <3>1, <3>2, <3>3
    <2>2. QED
      BY <2>1
  <1>5. InVector' = InVector
    BY <1>1 DEF InVector
  <1>6. TypeOK' /\ Recorded' /\ CountWithinLimits'
    <2>1. TypeOK'
      BY <1>1, <1>3, <1>4, <1>5 DEF IInv, TypeOK
    <2>2. QED
      BY <1>1, <1>4, <2>1 DEF IInv, Recorded, CountWithinLimits
  <1>7. DestroyedWhenEmpty'
    BY <1>1, <1>4, <1>5 DEF IInv, DestroyedWhenEmpty
  <1>8. EmptyFlagHonest'
    <2>1. \A b : IsEmpty(b) => IsEmpty(b)'
      BY <1>4 DEF IsEmpty, AllocationsIn
    <2>2. QED
      BY <1>1, <1>5, <2>1 DEF IInv, EmptyFlagHonest, EmptyBlocks
  <1>9. QED
    BY <1>1, <1>3, <1>5, <1>6, <1>7, <1>8 DEF IInv

(* The user has copied. *)
LEMMA CopyFits ==
  ASSUME IInv, ContextFits(ctx, placed, blocks), Copy
  PROVE  IInv' /\ ContextFits(ctx', placed', blocks') /\ incrementalSort' = incrementalSort
  <1> PICK c : c = ctx
    OBVIOUS
  <1> PICK p : p = placed
    OBVIOUS
  <1> PICK q : q = blocks
    OBVIOUS
  <1> PICK d : d = ctx'
    OBVIOUS
  <1> PICK r : r = placed'
    OBVIOUS
  <1> PICK s : s = blocks'
    OBVIOUS
  <1>1. /\ ContextFits(c, p, q) /\ c.step = "begun" /\ c.moves # <<>> /\ Sized(p)
        /\ d = [c EXCEPT !.step = "release"] /\ s = q
        /\ placed' = Swapped(Head(c.moves).src, Head(c.moves).dst)
        /\ UNCHANGED <<blocks, blockSize, hasEmptyBlock, incrementalSort, doomed>>
    BY AllSized DEF Copy, Step, Move
  <1>2. FirstKnown(c, p)
    BY <1>1, FirstMoveKnown
  <1>3. PICK a, t : a = c.moves[1].src /\ t = c.moves[1].dst
    OBVIOUS
  <1>4. /\ c \in Contexts /\ a \in DOMAIN placed /\ t \in DOMAIN placed /\ a # t
        /\ placed' = Swapped(a, t)
    BY <1>1, <1>2, <1>3 DEF FirstKnown
  <1>5. /\ IInv' /\ DOMAIN placed' = DOMAIN placed
        /\ \A x \in DOMAIN placed : x # a /\ x # t => placed'[x] = placed[x]
    BY <1>1, <1>4, SwapIInv
  <1>6. d \in Contexts /\ d.step = "release" /\ d.moves = c.moves
        /\ d.allocationsMoved = c.allocationsMoved /\ d.bytesMoved = c.bytesMoved
    BY <1>1, <1>4 DEF Contexts
  <1>7. FirstDone(c, p, q, d, r, s)
    <2>1. \A x \in DOMAIN p :
            x = c.moves[1].src \/ x = c.moves[1].dst \/ (x \in DOMAIN r /\ r[x] = p[x])
      BY <1>3, <1>5
    <2>2. DOMAIN r \cap Temps = DOMAIN p \cap Temps /\ OrderKept(q, r, s)
      BY <1>1, <1>5 DEF OrderKept
    <2>3. QED
      BY <1>1, <1>6, <2>1, <2>2 DEF FirstDone
  <1>8. ContextFits(d, r, s)
    BY <1>7, FirstDoneFits
  <1>9. QED
    BY <1>1, <1>5, <1>8

(* The user cannot move the allocation. *)
LEMMA GiveUpFits ==
  ASSUME IInv, ContextFits(ctx, placed, blocks), GiveUp
  PROVE  ContextFits(ctx', placed, blocks)
  <1> PICK c : c = ctx
    OBVIOUS
  <1> PICK p : p = placed
    OBVIOUS
  <1> PICK q : q = blocks
    OBVIOUS
  <1> PICK d : d = ctx'
    OBVIOUS
  <1> PICK b : b = p[Head(c.moves).src].block
    OBVIOUS
  <1> PICK e : e = IF b \in Range(c.immovableBlocks) THEN c.immovableBlocks
                   ELSE Append(c.immovableBlocks, b)
    OBVIOUS
  <1> PICK x : x = c.allocationsMoved - 1
    OBVIOUS
  <1> PICK y : y = c.bytesMoved - p[Head(c.moves).src].size
    OBVIOUS
  <1>1. ContextFits(c, p, q) /\ c.step = "begun" /\ c.moves # <<>> /\ Sized(p)
    BY AllSized DEF GiveUp, Step
  <1>2. d = [[c EXCEPT !.allocationsMoved = x, !.bytesMoved = y]
               EXCEPT !.step = "release", !.immovableBlocks = e]
    <2>1. ctx' = [Uncounted(ctx) EXCEPT
                    !.step = "release",
                    !.immovableBlocks = IF b \in Range(Uncounted(ctx).immovableBlocks)
                                        THEN Uncounted(ctx).immovableBlocks
                                        ELSE Append(Uncounted(ctx).immovableBlocks, b)]
      BY DEF GiveUp, Move
    <2>2. Uncounted(ctx) = [c EXCEPT !.allocationsMoved = x, !.bytesMoved = y]
      BY DEF Uncounted, Move
    <2>3. Uncounted(ctx).immovableBlocks = c.immovableBlocks
      BY <1>1, <2>2 DEF ContextFits, Contexts
    <2>4. QED
      BY <2>1, <2>2, <2>3
  <1>3. FirstKnown(c, p)
    BY <1>1, FirstMoveKnown
  <1>4. c \in Contexts /\ x \in Nat /\ y \in Nat /\ y = c.bytesMoved - p[c.moves[1].src].size
    BY <1>3 DEF FirstKnown
  <1>5. e \in Seq(BlockIds)
    <2>1. Head(c.moves).src \in DOMAIN placed
      BY <1>3 DEF FirstKnown
    <2>2. b \in BlockIds
      BY <2>1 DEF IInv, Recorded
    <2>3. c.immovableBlocks \in Seq(BlockIds)
      BY <1>4 DEF Contexts
    <2>4. QED
      BY <2>2, <2>3
  <1>6. /\ d \in Contexts /\ d.step = "release" /\ d.moves = c.moves
        /\ \/ d.allocationsMoved = c.allocationsMoved /\ d.bytesMoved = c.bytesMoved
           \/ d.allocationsMoved = x /\ d.bytesMoved = y
    BY <1>2, <1>4, <1>5 DEF Contexts
  <1>7. FirstDone(c, p, q, d, p, q)
    BY <1>1, <1>4, <1>6 DEF FirstDone, OrderKept
  <1>8. ContextFits(d, p, q)
    BY <1>7, FirstDoneFits
  <1>9. QED
    BY <1>8

(* The user wants the allocation no longer. *)
LEMMA DestroyFits ==
  ASSUME IInv, ~ incrementalSort, ContextFits(ctx, placed, blocks),
         NEW budgetExceeded \in BOOLEAN, Destroy(budgetExceeded)
  PROVE  IInv' /\ ContextFits(ctx', placed', blocks') /\ incrementalSort' = incrementalSort
  <1> PICK c : c = ctx
    OBVIOUS
  <1> PICK p : p = placed
    OBVIOUS
  <1> PICK q : q = blocks
    OBVIOUS
  <1> PICK d : d = ctx'
    OBVIOUS
  <1> PICK r : r = placed'
    OBVIOUS
  <1> PICK s : s = blocks'
    OBVIOUS
  <1> PICK x : x = c.allocationsMoved - 1
    OBVIOUS
  <1> PICK y : y = c.bytesMoved - p[Head(c.moves).src].size
    OBVIOUS
  <1>1. /\ ContextFits(c, p, q) /\ c.step = "begun" /\ c.moves # <<>> /\ Sized(p)
        /\ Free(Head(c.moves).src, budgetExceeded)
    BY AllSized DEF Destroy, Step, Move
  <1>2. d = [[c EXCEPT !.allocationsMoved = x, !.bytesMoved = y] EXCEPT !.step = "release"]
    BY DEF Destroy, Uncounted, Move
  <1>3. FirstKnown(c, p)
    BY <1>1, FirstMoveKnown
  <1>4. PICK a : a = c.moves[1].src
    OBVIOUS
  <1>5. /\ c \in Contexts /\ x \in Nat /\ y \in Nat /\ y = c.bytesMoved - p[c.moves[1].src].size
        /\ a \in Allocations \ Temps /\ Free(a, budgetExceeded)
    BY <1>1, <1>3, <1>4 DEF FirstKnown
  <1>6. IInv'
    BY <1>5, FreeIInv
  <1>7. /\ DOMAIN placed' = DOMAIN placed \ {a}
        /\ \A z \in DOMAIN placed' : placed'[z] = placed[z]
        /\ OrderKept(blocks, placed', blocks')
        /\ incrementalSort' = incrementalSort
    BY <1>5, FreeKeeps
  <1>8. /\ d \in Contexts /\ d.step = "release" /\ d.moves = c.moves
        /\ \/ d.allocationsMoved = c.allocationsMoved /\ d.bytesMoved = c.bytesMoved
           \/ d.allocationsMoved = x /\ d.bytesMoved = y
    <2>1. c \in Contexts /\ x \in Nat /\ y \in Nat
      BY <1>5
    <2>2. PICK u : u = [c EXCEPT !.allocationsMoved = x, !.bytesMoved = y]
      OBVIOUS
    <2>3. u \in Contexts /\ u.moves = c.moves /\ u.allocationsMoved = x /\ u.bytesMoved = y
      BY <2>1, <2>2 DEF Contexts
    <2>4. d = [u EXCEPT !.step = "release"]
      BY <1>2, <2>2
    <2>5. QED
      BY <2>3, <2>4 DEF Contexts
  <1>9. FirstDone(c, p, q, d, r, s)
    <2>1. \A z \in DOMAIN p :
            z = c.moves[1].src \/ z = c.moves[1].dst \/ (z \in DOMAIN r /\ r[z] = p[z])
      BY <1>4, <1>7
    <2>2. DOMAIN r \cap Temps = DOMAIN p \cap Temps /\ OrderKept(q, r, s)
      BY <1>5, <1>7
    <2>3. QED
      BY <1>1, <1>5, <1>8, <2>1, <2>2 DEF FirstDone
  <1>10. ContextFits(d, r, s)
    BY <1>9, FirstDoneFits
  <1>11. QED
    BY <1>6, <1>7, <1>10

(* v is m without its first move, r is p without its temporary.            *)
HasLess(m, p, q, r, s, v) ==
  /\ m \in Seq(Moves) /\ m # <<>> /\ MovesFit(m, 2, p, q) /\ Sized(p)
  /\ DOMAIN r = DOMAIN p \ {m[1].dst}
  /\ \A x \in DOMAIN r : r[x] = p[x]
  /\ OrderKept(q, r, s)
  /\ v = Tail(m)

(* Then what is left fits, and has the bytes it had.                       *)
LessFits(m, p, r, s, v) ==
  /\ v \in Seq(Moves) /\ Len(v) = Len(m) - 1
  /\ MovesFit(v, 1, r, s)
  /\ Bytes(r, SourcesFrom(v, 1)) = Bytes(p, SourcesFrom(m, 2))

(* Dropping the first move keeps the others fitting. *)
LEMMA OneMoveLess ==
  ASSUME NEW m, NEW p, NEW q, NEW r, NEW s, NEW v, HasLess(m, p, q, r, s, v)
  PROVE  LessFits(m, p, r, s, v)
  <1> USE DEF HasLess
  <1>1. /\ Len(m) \in Nat /\ 1 \in 1 .. Len(m)
        /\ \A i \in 1 .. Len(m) : m[i].src \in Allocations \ Temps /\ m[i].dst \in Temps
    BY MovesFacts
  <1>2. v \in Seq(Moves) /\ Len(v) = Len(m) - 1 /\ \A i \in 1 .. Len(m) - 1 : v[i] = m[i + 1]
    BY <1>1, HeadTailProperties
  <1> PICK n \in Nat : n = Len(m) - 1
    BY <1>1
  <1>3. /\ \A i \in 1 .. n : i + 1 \in 1 .. Len(m) /\ i + 1 \in 2 .. Len(m) /\ i + 1 # 1
        /\ \A i, j \in 1 .. n : i # j => i + 1 # j + 1
        /\ \A i \in 2 .. Len(m) : i - 1 \in 1 .. n /\ (i - 1) + 1 = i
        /\ \A i \in 1 .. Len(m) : i = 1 \/ i \in 2 .. Len(m)
    BY <1>1
  <1>4. Len(v) = n /\ \A i \in 1 .. n : v[i] = m[i + 1]
    BY <1>2
  <1>5. /\ \A i, j \in 1 .. Len(m) : i # j => m[i].src # m[j].src /\ m[i].dst # m[j].dst
        /\ DOMAIN p \cap Temps = {m[i].dst : i \in 1 .. Len(m)}
    BY DEF MovesFit
  <1>6. \A i \in 2 .. Len(m) : \E j \in 1 .. n : v[j] = m[i]
    <2>1. TAKE i \in 2 .. Len(m)
    <2>2. v[i - 1] = m[(i - 1) + 1]
      BY <1>3, <1>4
    <2>3. QED
      BY <1>3, <2>2
  <1>7. \A i \in 1 .. n : \E j \in 2 .. Len(m) : v[i] = m[j]
    BY <1>3, <1>4
  <1>8. DOMAIN r \cap Temps = {v[i].dst : i \in 1 .. n}
    <2>1. {v[i].dst : i \in 1 .. n} = {m[i].dst : i \in 2 .. Len(m)}
      <3>1. {v[i].dst : i \in 1 .. n} \subseteq {m[i].dst : i \in 2 .. Len(m)}
        BY <1>7
      <3>2. {m[i].dst : i \in 2 .. Len(m)} \subseteq {v[i].dst : i \in 1 .. n}
        BY <1>6
      <3>3. QED
        BY <3>1, <3>2
    <2>2. {m[i].dst : i \in 1 .. Len(m)} \ {m[1].dst} = {m[i].dst : i \in 2 .. Len(m)}
      <3>1. \A i \in 2 .. Len(m) : m[i].dst # m[1].dst /\ i \in 1 .. Len(m)
        BY <1>1, <1>5
      <3>2. QED
        BY <1>3, <3>1
    <2>3. QED
      BY <1>5, <2>1, <2>2
  <1>9. \A i \in 2 .. Len(m) :
          /\ m[i].src \in DOMAIN r /\ r[m[i].src] = p[m[i].src]
          /\ r[m[i].src].size = r[m[i].dst].size
          /\ Before(s, r[m[i].dst].block, r[m[i].src].block)
    <2>1. TAKE i \in 2 .. Len(m)
    <2>2. /\ i \in 1 .. Len(m) /\ m[i].dst # m[1].dst
          /\ m[i].src \in DOMAIN p /\ p[m[i].src].size = p[m[i].dst].size
          /\ Before(q, p[m[i].dst].block, p[m[i].src].block)
      BY <1>1, <1>5 DEF MovesFit
    <2>3. m[i].dst \in DOMAIN p /\ m[i].src # m[1].dst
      BY <1>1, <1>5, <2>2
    <2>4. /\ m[i].src \in DOMAIN r /\ r[m[i].src] = p[m[i].src]
          /\ m[i].dst \in DOMAIN r /\ r[m[i].dst] = p[m[i].dst]
      BY <2>2, <2>3
    <2>5. QED
      BY <2>2, <2>4 DEF OrderKept
  <1>10. MovesFit(v, 1, r, s)
    <2>1. \A i, j \in 1 .. n : i # j => v[i].src # v[j].src /\ v[i].dst # v[j].dst
      BY <1>3, <1>4, <1>5
    <2>2. \A i \in 1 .. n :
            /\ v[i].src \in DOMAIN r /\ r[v[i].src].size = r[v[i].dst].size
            /\ Before(s, r[v[i].dst].block, r[v[i].src].block)
      BY <1>7, <1>9
    <2>3. QED
      BY <1>4, <1>8, <2>1, <2>2 DEF MovesFit
  <1>11. Bytes(r, SourcesFrom(v, 1)) = Bytes(p, SourcesFrom(m, 2))
    <2>1. SourcesFrom(v, 1) = SourcesFrom(m, 2)
      <3>1. {v[i].src : i \in 1 .. n} \subseteq {m[i].src : i \in 2 .. Len(m)}
        BY <1>7
      <3>2. {m[i].src : i \in 2 .. Len(m)} \subseteq {v[i].src : i \in 1 .. n}
        <4>1. ASSUME NEW i \in 2 .. Len(m) PROVE m[i].src \in {v[j].src : j \in 1 .. n}
          <5>1. PICK j \in 1 .. n : v[j] = m[i]
            BY <1>6
          <5>2. m[i].src = v[j].src
            BY <5>1
          <5>3. QED
            BY <5>2
        <4>2. QED
          BY <4>1
      <3>3. QED
        BY <1>4, <3>1, <3>2 DEF SourcesFrom
    <2>2. \A i \in 2 .. Len(m) : r[m[i].src].size = p[m[i].src].size
      BY <1>9
    <2>3. Bytes(r, SourcesFrom(m, 2)) = Bytes(p, SourcesFrom(m, 2))
      BY <2>2, BytesKept
    <2>4. QED
      BY <2>1, <2>3
  <1>12. QED
    BY <1>2, <1>10, <1>11 DEF LessFits

(* The temporary of the first move is freed. *)
LEMMA ReleaseFits ==
  ASSUME IInv, ~ incrementalSort, ContextFits(ctx, placed, blocks),
         NEW budgetExceeded \in BOOLEAN, Release(budgetExceeded)
  PROVE  IInv' /\ ContextFits(ctx', placed', blocks') /\ incrementalSort' = incrementalSort
  <1> PICK c : c = ctx
    OBVIOUS
  <1> PICK m : m = c.moves
    OBVIOUS
  <1> PICK p : p = placed
    OBVIOUS
  <1> PICK q : q = blocks
    OBVIOUS
  <1> PICK d : d = ctx'
    OBVIOUS
  <1> PICK r : r = placed'
    OBVIOUS
  <1> PICK s : s = blocks'
    OBVIOUS
  <1> PICK v : v = Tail(m)
    OBVIOUS
  <1> PICK g : g = IF Len(m) = 1 THEN "ended" ELSE "begun"
    OBVIOUS
  <1>1. /\ c \in Contexts /\ c.step = "release" /\ m # <<>> /\ Sized(p) /\ m \in Seq(Moves)
        /\ MovesFit(m, 2, p, q) /\ CountsFit(c, p) /\ First(c.step) = 2
        /\ Free(Head(m).dst, budgetExceeded)
    BY AllSized DEF Release, Step, Move, ContextFits, Contexts, First
  <1>2. d = [[c EXCEPT !.moves = v] EXCEPT !.step = g]
    BY DEF Release, Pop
  <1>3. Len(m) \in Nat /\ 1 \in 1 .. Len(m) /\ Head(m) = m[1] /\ m[1].dst \in Temps
    BY <1>1, MovesFacts
  <1>4. PICK t \in Allocations : t = m[1].dst
    BY <1>3, DefragConstants
  <1>5. Free(t, budgetExceeded)
    BY <1>1, <1>3, <1>4
  <1>6. IInv'
    BY <1>5, FreeIInv
  <1>7. /\ DOMAIN placed' = DOMAIN placed \ {t}
        /\ \A z \in DOMAIN placed' : placed'[z] = placed[z]
        /\ OrderKept(blocks, placed', blocks')
        /\ incrementalSort' = incrementalSort
    BY <1>5, FreeKeeps
  <1>8. HasLess(m, p, q, r, s, v)
    BY <1>1, <1>4, <1>7 DEF HasLess
  <1>9. LessFits(m, p, r, s, v)
    BY <1>8, OneMoveLess
  <1>10. /\ d \in Contexts /\ d.moves = v /\ d.step = g /\ g \in {"ended", "begun"}
         /\ d.allocationsMoved = c.allocationsMoved /\ d.bytesMoved = c.bytesMoved
    <2>1. v \in Seq(Moves) /\ g \in {"ended", "begun"} /\ c \in Contexts
      BY <1>1, <1>9 DEF LessFits
    <2>2. PICK u : u = [c EXCEPT !.moves = v]
      OBVIOUS
    <2>3. /\ u \in Contexts /\ u.moves = v
          /\ u.allocationsMoved = c.allocationsMoved /\ u.bytesMoved = c.bytesMoved
      BY <2>1, <2>2 DEF Contexts
    <2>4. d = [u EXCEPT !.step = g]
      BY <1>2, <2>2
    <2>5. QED
      BY <2>1, <2>3, <2>4 DEF Contexts
  <1>11. First(d.step) = 1
    BY <1>10 DEF First
  <1>12. MovesFit(v, 1, r, s) /\ Len(v) = Len(m) - 1
    BY <1>9 DEF LessFits
  <1>13. CountsFit(d, r)
    <2>1. Len(v) - 1 + 1 = Len(m) - 2 + 1
      BY <1>3, <1>12
    <2>2. Bytes(r, SourcesFrom(v, 1)) = Bytes(p, SourcesFrom(m, 2))
      BY <1>9 DEF LessFits
    <2>3. Covered(c, Len(m) - 2 + 1, Bytes(p, SourcesFrom(m, 2)))
      BY <1>1 DEF CountsFit
    <2>4. Covered(d, Len(m) - 2 + 1, Bytes(p, SourcesFrom(m, 2)))
      BY <1>10, <2>3 DEF Covered
    <2>5. QED
      BY <1>10, <1>11, <2>1, <2>2, <2>4 DEF CountsFit
  <1>14. (g = "ended" => v = <<>>) /\ (g = "begun" => v # <<>>)
    <2>1. v \in Seq(Moves)
      BY <1>9 DEF LessFits
    <2>2. (v = <<>>) <=> Len(v) = 0
      BY <2>1, EmptySeq
    <2>3. QED
      BY <1>3, <1>12, <2>2
  <1>15. ContextFits(d, r, s)
    BY <1>10, <1>11, <1>12, <1>13, <1>14 DEF ContextFits
  <1>16. QED
    BY <1>6, <1>7, <1>15

(* Two blocks of the vector change places. *)
LEMMA BlocksSwapped ==
  ASSUME NEW q, NEW T, NEW n, VectorOf(q, T, n), NEW i \in 1 .. n, NEW k \in 1 .. n,
         NEW s, s = [q EXCEPT ![i] = q[k], ![k] = q[i]]
  PROVE  VectorOf(s, T, n)
  <1>1. /\ q \in Seq(BlockIds) /\ Len(q) = n /\ DOMAIN q = 1 .. n /\ n \in Nat
        /\ \A j \in 1 .. n : q[j] \in BlockIds
        /\ \A j, l \in 1 .. n : j # l => q[j] # q[l]
        /\ T = {q[j] : j \in 1 .. n}
    BY LenProperties, ElementOfSeq DEF VectorOf, Distinct, Range
  <1>2. /\ DOMAIN s = 1 .. n /\ s = [j \in 1 .. n |-> s[j]]
        /\ s[k] = q[i] /\ s[i] = q[k]
        /\ \A j \in 1 .. n : j # i /\ j # k => s[j] = q[j]
    BY <1>1
  <1>3. \A j \in 1 .. n : s[j] \in BlockIds
    BY <1>1, <1>2
  <1>4. s \in Seq(BlockIds) /\ Len(s) = n
    <2>1. s \in [1 .. n -> BlockIds]
      BY <1>2, <1>3
    <2>2. QED
      BY <1>1, <2>1, SeqDef, LenProperties
  <1>5. \A j, l \in 1 .. n : j # l => s[j] # s[l]
    BY <1>1, <1>2
  <1>6. {s[j] : j \in 1 .. n} = T
    <2>1. \A j \in 1 .. n : \E l \in 1 .. n : s[j] = q[l]
      BY <1>2
    <2>2. \A j \in 1 .. n : \E l \in 1 .. n : q[j] = s[l]
      BY <1>2
    <2>3. {s[j] : j \in 1 .. n} \subseteq {q[j] : j \in 1 .. n}
      BY <2>1
    <2>4. {q[j] : j \in 1 .. n} \subseteq {s[j] : j \in 1 .. n}
      BY <2>2
    <2>5. QED
      BY <1>1, <2>3, <2>4
  <1>7. QED
    BY <1>2, <1>4, <1>5, <1>6 DEF VectorOf, Distinct, Range

(* A new order of the vector keeps the invariant. *)
LEMMA ReorderedIInv ==
  ASSUME IInv, VectorOf(blocks', InVector, Len(blocks)),
         UNCHANGED <<blockSize, placed, hasEmptyBlock, incrementalSort, doomed>>
  PROVE  IInv'
  <1>1. UNCHANGED <<blockSize, placed, hasEmptyBlock, incrementalSort, doomed>>
    OBVIOUS
  <1>2. /\ InVector' = InVector /\ Len(blocks') = Len(blocks)
        /\ VectorOf(blocks', InVector', Len(blocks'))
    BY DEF VectorOf, InVector
  <1>3. TypeOK'
    BY <1>1, <1>2 DEF IInv, TypeOK, VectorOf, Distinct, InVector
  <1>4. QED
    BY <1>1, <1>2, <1>3 DEF IInv, Recorded, DestroyedWhenEmpty, EmptyFlagHonest,
       EmptyBlocks, IsEmpty, AllocationsIn, CountWithinLimits

(* The end of the pass: counters reset, immovable blocks go forward. *)
LEMMA PassEndFits ==
  ASSUME IInv, ContextFits(ctx, placed, blocks), PassEnd
  PROVE  IInv' /\ ContextFits(ctx', placed', blocks') /\ incrementalSort' = incrementalSort
  <1> PICK c : c = ctx
    OBVIOUS
  <1> PICK p : p = placed
    OBVIOUS
  <1> PICK d : d = ctx'
    OBVIOUS
  <1> PICK s : s = blocks'
    OBVIOUS
  <1> PICK k : k = c.immovable + 1
    OBVIOUS
  <1> PICK b : b = Head(c.immovableBlocks)
    OBVIOUS
  <1> PICK e : e = Tail(c.immovableBlocks)
    OBVIOUS
  <1> PICK F : F = {i \in k .. Len(blocks) : blocks[i] = b}
    OBVIOUS
  <1>1. UNCHANGED <<blockSize, placed, hasEmptyBlock, incrementalSort, doomed>>
    BY DEF PassEnd
  <1>2. /\ c \in Contexts /\ c.step = "ended" /\ c.moves = <<>> /\ ContextFits(c, p, blocks)
    BY DEF PassEnd, Step, ContextFits
  <1>3. /\ DOMAIN p \cap Temps = {}
        /\ c.allocationsMoved = 0 => c.bytesMoved = 0
        /\ c.allocationsMoved <= MaxPassAllocations /\ c.bytesMoved <= MaxPassBytes
    BY <1>2, NoMovesLeft DEF ContextFits, CountsFit, Covered
  <1>4. CASE c.immovableBlocks = <<>>
    <2>1. d = [c EXCEPT !.step = "idle", !.allocationsMoved = 0, !.bytesMoved = 0] /\ UNCHANGED blocks
      BY <1>4 DEF PassEnd
    <2>2. /\ d \in Contexts /\ d.step = "idle" /\ d.moves = <<>>
          /\ d.allocationsMoved = 0 /\ d.bytesMoved = 0
      <3>1. d = [c EXCEPT !.step = "idle", !.allocationsMoved = 0, !.bytesMoved = 0]
        BY <2>1
      <3>2. c \in Contexts /\ c.moves = <<>> /\ 0 \in Nat
        BY <1>2
      <3>3. QED
        BY <3>1, <3>2 DEF Contexts
    <2>3. 0 <= MaxPassAllocations /\ 0 <= MaxPassBytes
      BY DefragConstants
    <2>4. ContextFits(d, p, s)
      BY <1>3, <2>2, <2>3, BareContextFits
    <2>5. IInv'
      BY <1>1, <2>1 DEF IInv, Recorded, TypeOK, DestroyedWhenEmpty,
         EmptyFlagHonest, EmptyBlocks, IsEmpty, AllocationsIn,
         CountWithinLimits, InVector
    <2>6. QED
      BY <1>1, <2>4, <2>5
  <1>5. CASE c.immovableBlocks # <<>>
    <2>1. e \in Seq(BlockIds) /\ k \in Nat /\ k # 0 /\ Len(blocks) \in Nat
      <3>1. c.immovableBlocks \in Seq(BlockIds) /\ c.immovable \in Nat
        BY <1>2 DEF Contexts
      <3>2. QED
        BY <1>5, <3>1, HeadTailProperties, LenProperties DEF IInv, TypeOK
    <2>2. PICK g : g = [c EXCEPT !.immovableBlocks = e]
      OBVIOUS
    <2>3. IF F = {} THEN d = g /\ UNCHANGED blocks
          ELSE /\ blocks' = [blocks EXCEPT ![Min(F)] = blocks[k], ![k] = b]
               /\ d = [g EXCEPT !.immovable = k]
      BY <1>5, <2>2 DEF PassEnd
    <2>4. /\ d \in Contexts /\ d.step = "ended" /\ d.moves = <<>>
          /\ d.allocationsMoved = c.allocationsMoved /\ d.bytesMoved = c.bytesMoved
      <3>1. /\ g \in Contexts /\ g.step = "ended" /\ g.moves = <<>>
            /\ g.allocationsMoved = c.allocationsMoved /\ g.bytesMoved = c.bytesMoved
        BY <1>2, <2>1, <2>2 DEF Contexts
      <3>2. d = g \/ d = [g EXCEPT !.immovable = k]
        BY <2>3
      <3>3. QED
        BY <2>1, <3>1, <3>2 DEF Contexts
    <2>5. ContextFits(d, p, s)
      BY <1>3, <2>4, BareContextFits
    <2>6. VectorOf(blocks, InVector, Len(blocks))
      BY TypeOKVector DEF IInv
    <2>7. VectorOf(blocks', InVector, Len(blocks))
      <3>1. CASE F = {}
        BY <2>3, <2>6, <3>1
      <3>2. CASE F # {}
        <4>1. PICK i : i = Min(F)
          OBVIOUS
        <4>2. F \in SUBSET Nat
          BY <2>1
        <4>3. i \in F
          BY <3>2, <4>1, <4>2, MinExists
        <4>4. i \in 1 .. Len(blocks) /\ k \in 1 .. Len(blocks) /\ blocks[i] = b
          BY <2>1, <4>3
        <4>5. PICK q, T, n : q = blocks /\ T = InVector /\ n = Len(blocks)
          OBVIOUS
        <4>6. s = [q EXCEPT ![i] = q[k], ![k] = q[i]]
          BY <2>3, <3>2, <4>1, <4>4, <4>5
        <4>7. VectorOf(q, T, n) /\ i \in 1 .. n /\ k \in 1 .. n
          BY <2>6, <4>4, <4>5
        <4>8. VectorOf(s, T, n)
          BY <4>6, <4>7, BlocksSwapped
        <4>9. QED
          BY <4>5, <4>8
      <3>3. QED
        BY <3>1, <3>2
    <2>8. IInv'
      BY <1>1, <2>7, ReorderedIInv
    <2>9. QED
      BY <1>1, <2>5, <2>8
  <1>6. QED
    BY <1>4, <1>5

-----------------------------------------------------------------------------
(* What other threads do.                                                  *)
LEMMA OthersKeep ==
  ASSUME IInv, Others
  PROVE  /\ IInv' /\ UNCHANGED <<ctx, incrementalSort>>
         /\ DOMAIN placed' \cap Temps = DOMAIN placed \cap Temps
  <1>1. UNCHANGED ctx
    BY DEF Others
  <1>2. CASE \E a \in Allocations \ (Temps \cup DOMAIN placed), n \in Sizes :
               \/ AllocateFromBlock(a, n)
               \/ \E neverAllocate, canExceedFreeMemory \in BOOLEAN, f \in FreeMemory :
                    AllocateInNewBlock(a, n, neverAllocate, canExceedFreeMemory, f)
    <2>1. PICK a \in Allocations \ (Temps \cup DOMAIN placed), n \in Sizes :
            \/ AllocateFromBlock(a, n)
            \/ \E neverAllocate, canExceedFreeMemory \in BOOLEAN, f \in FreeMemory :
                 AllocateInNewBlock(a, n, neverAllocate, canExceedFreeMemory, f)
      BY <1>2
    <2>2. a \in Allocations \ DOMAIN placed
      OBVIOUS
    <2>3. IInv'
      BY <2>1, <2>2, AllocateFromBlockIInv, AllocateInNewBlockIInv
    <2>4. /\ DOMAIN placed \subseteq DOMAIN placed'
          /\ DOMAIN placed' \subseteq DOMAIN placed \cup {a}
          /\ incrementalSort' = incrementalSort
      BY <2>1, <2>2, AllocateKeeps
    <2>5. QED
      BY <1>1, <2>3, <2>4
  <1>3. CASE \E a \in Allocations \ (Temps \cup Sources), budgetExceeded \in BOOLEAN :
               Free(a, budgetExceeded)
    <2>1. PICK a \in Allocations \ (Temps \cup Sources), budgetExceeded \in BOOLEAN :
            Free(a, budgetExceeded)
      BY <1>3
    <2>2. IInv'
      BY <2>1, FreeIInv
    <2>3. DOMAIN placed' = DOMAIN placed \ {a} /\ incrementalSort' = incrementalSort
      BY <2>1 DEF Free
    <2>4. QED
      BY <1>1, <2>2, <2>3
  <1>4. QED
    BY <1>2, <1>3 DEF Others

(* Other threads leave the moves and the counters as they were. *)
LEMMA OthersFits ==
  ASSUME IInv, ~ incrementalSort, ~ Step("none"), ContextFits(ctx, placed, blocks), Others
  PROVE  ContextFits(ctx', placed', blocks')
  <1> PICK c : c = ctx
    OBVIOUS
  <1> PICK p : p = placed
    OBVIOUS
  <1> PICK q : q = blocks
    OBVIOUS
  <1> PICK r : r = placed'
    OBVIOUS
  <1> PICK s : s = blocks'
    OBVIOUS
  <1>1. ContextFits(c, p, q) /\ c.step # "computing" /\ Sized(p) /\ ctx' = c
    BY AllSized DEF Others, Locked, Step
  <1>2. Sources = SourcesFrom(c.moves, 1)
    <2>1. c.moves \in Seq(Moves)
      BY <1>1 DEF ContextFits, Contexts
    <2>2. DOMAIN c.moves = 1 .. Len(c.moves)
      BY <2>1, LenProperties
    <2>3. QED
      BY <2>2 DEF Sources, SourcesFrom
  <1>3. DOMAIN r \cap Temps = DOMAIN p \cap Temps
    BY OthersKeep
  <1>4. CASE \E a \in Allocations \ (Temps \cup DOMAIN placed), n \in Sizes :
               \/ AllocateFromBlock(a, n)
               \/ \E neverAllocate, canExceedFreeMemory \in BOOLEAN, f \in FreeMemory :
                    AllocateInNewBlock(a, n, neverAllocate, canExceedFreeMemory, f)
    <2>1. PICK a \in Allocations \ (Temps \cup DOMAIN placed), n \in Sizes :
            \/ AllocateFromBlock(a, n)
            \/ \E neverAllocate, canExceedFreeMemory \in BOOLEAN, f \in FreeMemory :
                 AllocateInNewBlock(a, n, neverAllocate, canExceedFreeMemory, f)
      BY <1>4
    <2>2. a \in Allocations \ DOMAIN placed
      OBVIOUS
    <2>3. /\ DOMAIN placed \subseteq DOMAIN placed'
          /\ \A x \in DOMAIN placed : placed'[x] = placed[x]
          /\ OrderKept(blocks, placed', blocks')
      BY <2>1, <2>2, AllocateKeeps
    <2>4. Undisturbed(c, p, q, r, s)
      BY <1>1, <1>3, <2>3 DEF Undisturbed
    <2>5. QED
      BY <1>1, <2>4, ContextKept
  <1>5. CASE \E a \in Allocations \ (Temps \cup Sources), budgetExceeded \in BOOLEAN :
               Free(a, budgetExceeded)
    <2>1. PICK a \in Allocations \ (Temps \cup Sources), budgetExceeded \in BOOLEAN :
            Free(a, budgetExceeded)
      BY <1>5
    <2>2. /\ DOMAIN placed' = DOMAIN placed \ {a}
          /\ \A x \in DOMAIN placed' : placed'[x] = placed[x]
          /\ OrderKept(blocks, placed', blocks')
      BY <2>1, FreeKeeps
    <2>3. a \notin Temps /\ a \notin SourcesFrom(c.moves, 1)
      BY <1>2
    <2>4. Undisturbed(c, p, q, r, s)
      BY <1>1, <1>3, <2>2, <2>3 DEF Undisturbed
    <2>5. QED
      BY <1>1, <2>4, ContextKept
  <1>6. QED
    BY <1>4, <1>5 DEF Others
-----------------------------------------------------------------------------
(* There is no context to begin with. *)
LEMMA DefragInitDInv == DefragInit => DInv
  <1>1. SUFFICES ASSUME DefragInit PROVE DInv
    OBVIOUS
  <1>2. IInv
    BY <1>1, InitIInv DEF DefragInit
  <1>3. ctx = NoContext /\ Step("none")
    BY <1>1 DEF DefragInit, NoContext, Step
  <1>4. DOMAIN placed = {}
    BY <1>1 DEF DefragInit, Init
  <1>5. QED
    BY <1>2, <1>3, <1>4 DEF DInv

(* Every step keeps the invariant. *)
LEMMA DefragNextDInv == DInv /\ [DefragNext]_allVars => DInv'
  <1>1. SUFFICES ASSUME DInv, [DefragNext]_allVars PROVE DInv'
    OBVIOUS
  <1>2. IInv
    BY <1>1 DEF DInv
  <1>3. ~ Step("none") => ~ incrementalSort /\ ContextFits(ctx, placed, blocks)
    BY <1>1 DEF DInv
  <1>4. ContextFits(ctx', placed', blocks') => ctx'.step # "none"
    BY DEF ContextFits, Contexts
  <1>5. IInv' /\ ~ incrementalSort' /\ ContextFits(ctx', placed', blocks') => DInv'
    BY <1>4 DEF DInv, Step
  <1>6. CASE Begin
    <2>1. /\ BeginDefragmentation /\ DOMAIN placed \cap Temps = {}
          /\ ctx' = NewContext
      BY <1>1, <1>6 DEF Begin, DInv
    <2>2. IInv'
      BY <1>2, <2>1, BeginDefragmentationIInv
    <2>3. ~ incrementalSort' /\ placed' = placed
      BY <2>1 DEF BeginDefragmentation
    <2>4. PICK p, q : p = placed' /\ q = blocks'
      OBVIOUS
    <2>5. ContextFits(NewContext, p, q)
      BY <2>1, <2>3, <2>4, NewContextFits
    <2>6. QED
      BY <1>5, <2>1, <2>2, <2>3, <2>4, <2>5
  <1>7. CASE End
    <2>1. /\ ctx.step = "idle" /\ EndDefragmentation /\ ctx' = NoContext
          /\ ContextFits(ctx, placed, blocks)
      BY <1>3, <1>7 DEF End, Step
    <2>2. PICK c, p, q : c = ctx /\ p = placed /\ q = blocks
      OBVIOUS
    <2>3. ContextFits(c, p, q) /\ c.moves = <<>> /\ c.step # "release"
      BY <2>1, <2>2 DEF ContextFits
    <2>4. DOMAIN p \cap Temps = {}
      BY <2>3, NoMovesLeft
    <2>5. IInv'
      BY <1>2, <2>1 DEF EndDefragmentation, IInv, Recorded, TypeOK, DestroyedWhenEmpty,
         EmptyFlagHonest, EmptyBlocks, IsEmpty, AllocationsIn, CountWithinLimits, InVector
    <2>6. placed' = placed
      BY <2>1 DEF EndDefragmentation
    <2>7. ctx'.step = "none"
      BY <2>1 DEF NoContext
    <2>8. QED
      BY <2>1, <2>2, <2>4, <2>5, <2>6, <2>7 DEF DInv, Step
  <1>8. ASSUME UNCHANGED vars
        PROVE  /\ IInv' /\ incrementalSort' = incrementalSort
               /\ placed' = placed /\ blocks' = blocks
    BY <1>2, <1>8 DEF vars, IInv, Recorded, TypeOK, DestroyedWhenEmpty,
       EmptyFlagHonest, EmptyBlocks, IsEmpty, AllocationsIn, CountWithinLimits, InVector
  <1>9. ASSUME UNCHANGED vars, ~ Step("none"), ContextFits(ctx', placed, blocks) PROVE DInv'
    BY <1>3, <1>5, <1>8, <1>9
  <1>10. CASE PassBegin
    <2>1. ~ Step("none") /\ UNCHANGED vars
      BY <1>10 DEF PassBegin, Step
    <2>2. ContextFits(ctx', placed, blocks)
      BY <1>2, <1>3, <1>10, <2>1, PassBeginFits
    <2>3. QED
      BY <1>9, <2>1, <2>2
  <1>11. CASE NextBlock
    <2>1. ~ Step("none") /\ UNCHANGED vars
      BY <1>11 DEF NextBlock, Locked, Step
    <2>2. ContextFits(ctx', placed, blocks)
      BY <1>2, <1>3, <1>11, <2>1, NextBlockFits
    <2>3. QED
      BY <1>9, <2>1, <2>2
  <1>12. CASE NothingToMove
    <2>1. /\ ~ Step("none") /\ UNCHANGED vars /\ ctx.step = "begun" /\ ctx.moves = <<>>
          /\ ctx' = [ctx EXCEPT !.step = "idle"]
      BY <1>12 DEF NothingToMove, Step
    <2>2. PICK c, p, q, d : c = ctx /\ p = placed /\ q = blocks /\ d = ctx'
      OBVIOUS
    <2>3. /\ ContextFits(c, p, q) /\ c \in Contexts /\ c.moves = <<>>
          /\ c.step # "release" /\ c.allocationsMoved = 0
      BY <1>3, <2>1, <2>2 DEF ContextFits
    <2>4. DOMAIN p \cap Temps = {} /\ c.bytesMoved = 0
      BY <2>3, NoMovesLeft
    <2>5. d = [c EXCEPT !.step = "idle"]
      BY <2>1, <2>2
    <2>6. /\ d \in Contexts /\ d.moves = <<>> /\ d.step = "idle"
          /\ d.allocationsMoved = 0 /\ d.bytesMoved = 0
      BY <2>3, <2>4, <2>5 DEF Contexts
    <2>7. 0 <= MaxPassAllocations /\ 0 <= MaxPassBytes
      BY DefragConstants
    <2>8. ContextFits(d, p, q)
      BY <2>4, <2>6, <2>7, BareContextFits
    <2>9. QED
      BY <1>9, <2>1, <2>2, <2>8
  <1>13. CASE Copy
    <2>1. ~ Step("none")
      BY <1>13 DEF Copy, Step
    <2>2. QED
      BY <1>2, <1>3, <1>5, <1>13, <2>1, CopyFits
  <1>14. CASE GiveUp
    <2>1. ~ Step("none") /\ UNCHANGED vars
      BY <1>14 DEF GiveUp, Step
    <2>2. ContextFits(ctx', placed, blocks)
      BY <1>2, <1>3, <1>14, <2>1, GiveUpFits
    <2>3. QED
      BY <1>9, <2>1, <2>2
  <1>15. CASE PassEnd
    <2>1. ~ Step("none")
      BY <1>15 DEF PassEnd, Step
    <2>2. QED
      BY <1>2, <1>3, <1>5, <1>15, <2>1, PassEndFits
  <1>16. CASE \E a \in Allocations \ Temps : Ignore(a) \/ NoMove(a)
    <2>1. PICK a \in Allocations \ Temps : Ignore(a) \/ NoMove(a)
      BY <1>16
    <2>2. ~ Step("none") /\ UNCHANGED vars
      BY <2>1 DEF Ignore, NoMove, Considered, Locked, Step
    <2>3. ContextFits(ctx', placed, blocks)
      BY <1>3, <2>1, <2>2, IgnoreFits, NoMoveFits
    <2>4. QED
      BY <1>9, <2>2, <2>3
  <1>17. CASE \E a \in Allocations \ Temps, t \in Temps \ DOMAIN placed :
                MoveForward(a, t) \/ ReallocWithinBlock(a, t) \/ MoveWithin(a, t)
    <2>1. PICK a \in Allocations \ Temps, t \in Temps \ DOMAIN placed :
            MoveForward(a, t) \/ ReallocWithinBlock(a, t) \/ MoveWithin(a, t)
      BY <1>17
    <2>2. ~ Step("none")
      BY <2>1 DEF MoveForward, ReallocWithinBlock, MoveWithin, Considered, Locked, Step
    <2>3. QED
      BY <1>2, <1>3, <1>5, <2>1, <2>2, MoveMade
  <1>18. CASE \E budgetExceeded \in BOOLEAN : Destroy(budgetExceeded) \/ Release(budgetExceeded)
    <2>1. PICK budgetExceeded \in BOOLEAN : Destroy(budgetExceeded) \/ Release(budgetExceeded)
      BY <1>18
    <2>2. ~ Step("none")
      BY <2>1 DEF Destroy, Release, Step
    <2>3. QED
      BY <1>2, <1>3, <1>5, <2>1, <2>2, DestroyFits, ReleaseFits
  <1>19. CASE Others
    <2>1. /\ IInv' /\ UNCHANGED <<ctx, incrementalSort>>
          /\ DOMAIN placed' \cap Temps = DOMAIN placed \cap Temps
      BY <1>2, <1>19, OthersKeep
    <2>2. CASE Step("none")
      BY <1>1, <2>1, <2>2 DEF DInv, Step
    <2>3. CASE ~ Step("none")
      <3>1. ContextFits(ctx', placed', blocks')
        BY <1>2, <1>3, <1>19, <2>3, OthersFits
      <3>2. QED
        BY <1>3, <1>5, <2>1, <2>3, <3>1
    <2>4. QED
      BY <2>2, <2>3
  <1>20. CASE \E b \in BlockIds : DestroyBlock(b) /\ UNCHANGED ctx
    <2>1. PICK b \in BlockIds : DestroyBlock(b) /\ UNCHANGED ctx
      BY <1>20
    <2>2. IInv'
      BY <1>2, <2>1 DEF DestroyBlock, IInv, Recorded, TypeOK, DestroyedWhenEmpty,
         EmptyFlagHonest, EmptyBlocks, IsEmpty, AllocationsIn,
         CountWithinLimits, InVector
    <2>3. UNCHANGED <<blocks, placed, incrementalSort, ctx>>
      BY <2>1 DEF DestroyBlock
    <2>4. QED
      BY <1>1, <2>2, <2>3 DEF DInv, Step
  <1>21. CASE UNCHANGED allVars
    <2>1. UNCHANGED vars /\ UNCHANGED ctx
      BY <1>21 DEF allVars
    <2>2. QED
      BY <1>1, <1>8, <2>1 DEF DInv, Step
  <1>22. QED
    BY <1>1, <1>6, <1>7, <1>10, <1>11, <1>12, <1>13, <1>14, <1>15, <1>16, <1>17, <1>18,
       <1>19, <1>20, <1>21 DEF DefragNext

(* The invariant of the passes holds always. *)
LEMMA DefragAlwaysDInv == DefragSpec => []DInv
  BY DefragInitDInv, DefragNextDInv, PTL DEF DefragSpec

-----------------------------------------------------------------------------
(* What the invariant says of the moves. *)
LEMMA MovesKnown ==
  ASSUME DInv, ~ Step("none")
  PROVE  /\ ctx \in Contexts /\ ctx.moves \in Seq(Moves) /\ DOMAIN ctx.moves = 1 .. Len(ctx.moves)
         /\ Len(ctx.moves) \in Nat
         /\ MovesFit(ctx.moves, First(ctx.step), placed, blocks)
         /\ CountsFit(ctx, placed)
         /\ Sources = SourcesFrom(ctx.moves, 1)
  <1>1. /\ ctx \in Contexts /\ MovesFit(ctx.moves, First(ctx.step), placed, blocks)
        /\ CountsFit(ctx, placed)
    BY DEF DInv, ContextFits
  <1>2. ctx.moves \in Seq(Moves)
    BY <1>1 DEF Contexts
  <1>3. DOMAIN ctx.moves = 1 .. Len(ctx.moves) /\ Len(ctx.moves) \in Nat
    BY <1>2, LenProperties
  <1>4. Sources = SourcesFrom(ctx.moves, 1)
    BY <1>3 DEF Sources, SourcesFrom
  <1>5. QED
    BY <1>1, <1>2, <1>3, <1>4

(* A pass keeps to its limits, and its counters are those of the moves,    *)
(* whatever moves the user gives up and whatever other threads do between. *)
THEOREM PassAlwaysWithinLimits == DefragSpec => []PassWithinLimits
  <1>1. DInv => PassWithinLimits
    <2>1. SUFFICES ASSUME DInv, ~ Step("none")
          PROVE  /\ ctx.allocationsMoved \in 0 .. MaxPassAllocations
                 /\ ctx.bytesMoved \in 0 .. MaxPassBytes
                 /\ Step("begun") /\ ctx.allocationsMoved = Len(ctx.moves)
                      => ctx.bytesMoved = MovedSizes
                 /\ ctx.allocationsMoved = 0 => ctx.bytesMoved = 0
      BY DEF PassWithinLimits
    <2>2. PICK x, y, n, k :
            /\ x = ctx.allocationsMoved /\ y = ctx.bytesMoved
            /\ n = Len(ctx.moves) - First(ctx.step) + 1
            /\ k = Bytes(placed, SourcesFrom(ctx.moves, First(ctx.step)))
      OBVIOUS
    <2>3. x \in Nat /\ y \in Nat
      BY <2>1, <2>2, MovesKnown DEF Contexts
    <2>4. /\ x <= MaxPassAllocations /\ y <= MaxPassBytes /\ n <= x /\ k <= y
          /\ x = n => y = k
      BY <2>1, <2>2, MovesKnown DEF CountsFit, Covered
    <2>5. n \in Int /\ n >= 0 /\ k \in Nat
      <3>1. First(ctx.step) \in {1, 2} /\ (First(ctx.step) = 2 => ctx.moves # <<>>)
        BY <2>1 DEF First, DInv, ContextFits
      <3>2. ctx.moves # <<>> => Len(ctx.moves) # 0
        BY <2>1, MovesKnown, EmptySeq
      <3>3. n \in Int /\ n >= 0
        BY <2>1, <2>2, <3>1, <3>2, MovesKnown
      <3>4. k \in Nat
        <4>1. PICK m, p, q, f : m = ctx.moves /\ p = placed /\ q = blocks /\ f = First(ctx.step)
          OBVIOUS
        <4>2. m \in Seq(Moves) /\ f \in {1, 2} /\ MovesFit(m, f, p, q) /\ Sized(p)
          BY <2>1, <3>1, <4>1, MovesKnown, AllSized DEF DInv
        <4>3. Bytes(p, SourcesFrom(m, f)) \in Nat
          BY <4>2, BytesKept
        <4>4. QED
          BY <2>2, <4>1, <4>3
      <3>5. QED
        BY <3>3, <3>4
    <2>6. x = 0 => y = 0
      <3>1. ASSUME x = 0 PROVE y = 0
        <4>1. n = 0
          BY <2>4, <2>5, <3>1
        <4>2. \/ First(ctx.step) = 1 /\ Len(ctx.moves) = 0
              \/ First(ctx.step) = 2 /\ Len(ctx.moves) = 1
          <5>1. First(ctx.step) = 1 \/ First(ctx.step) = 2
            BY DEF First
          <5>2. Len(ctx.moves) \in Nat /\ Len(ctx.moves) - First(ctx.step) + 1 = 0
            BY <2>1, <2>2, <4>1, MovesKnown
          <5>3. PICK f, l : f = First(ctx.step) /\ l = Len(ctx.moves)
            OBVIOUS
          <5>4. (f = 1 /\ l = 0) \/ (f = 2 /\ l = 1)
            <6>1. l \in Nat /\ l - f + 1 = 0 /\ f \in {1, 2}
              BY <5>1, <5>2, <5>3
            <6>2. QED
              BY <6>1
          <5>5. QED
            BY <5>3, <5>4
        <4>3. SourcesFrom(ctx.moves, First(ctx.step)) = {}
          <5>1. 1 .. 0 = {} /\ 2 .. 1 = {}
            OBVIOUS
          <5>2. QED
            BY <4>2, <5>1 DEF SourcesFrom
        <4>4. k = 0
          <5>1. PICK p : p = placed
            OBVIOUS
          <5>2. Bytes(p, {}) = 0
            BY FS_EmptySet, BytesRecursion
          <5>3. QED
            BY <2>2, <4>3, <5>1, <5>2
        <4>5. QED
          BY <2>3, <2>4, <3>1, <4>1, <4>4
      <3>2. QED
        BY <3>1
    <2>7. Step("begun") /\ ctx.allocationsMoved = Len(ctx.moves) => ctx.bytesMoved = MovedSizes
      <3>1. ASSUME Step("begun"), ctx.allocationsMoved = Len(ctx.moves)
            PROVE  ctx.bytesMoved = MovedSizes
        <4>1. First(ctx.step) = 1
          BY <3>1 DEF First, Step
        <4>2. n = Len(ctx.moves)
          BY <2>1, <2>2, <4>1, MovesKnown
        <4>3. y = Bytes(placed, Sources)
          BY <2>1, <2>2, <2>4, <3>1, <4>1, <4>2, MovesKnown
        <4>4. MovedSizes = Bytes(placed, Sources)
          BY DEF MovedSizes, Bytes
        <4>5. QED
          BY <2>2, <4>3, <4>4
      <3>2. QED
        BY <3>1
    <2>8. QED
      BY <2>2, <2>3, <2>4, <2>6, <2>7, DefragConstants
  <1>2. QED
    BY DefragAlwaysDInv, <1>1, PTL

(* No temporary outlives its pass, and while it lives it is the second     *)
(* place of one allocation of its size: whichever way each move ends.      *)
THEOREM TempsAlwaysAccounted == DefragSpec => []TempsAccounted
  <1>1. DInv => TempsAccounted
    <2>1. SUFFICES ASSUME DInv PROVE TempsAccounted
      OBVIOUS
    <2>2. TypeOK
      BY <2>1 DEF DInv, IInv
    <2>3. CASE Step("none")
      BY <2>1, <2>2, <2>3 DEF DInv, TempsAccounted
    <2>4. CASE ~ Step("none")
      <3>1. /\ ctx \in Contexts /\ ctx.moves \in Seq(Moves) /\ DOMAIN ctx.moves = 1 .. Len(ctx.moves)
            /\ Len(ctx.moves) \in Nat
            /\ MovesFit(ctx.moves, First(ctx.step), placed, blocks)
        BY <2>1, <2>4, MovesKnown
      <3>2. PICK m, T, l : m = ctx.moves /\ T = DOMAIN placed \cap Temps /\ l = Len(ctx.moves)
        OBVIOUS
      <3>3. /\ m \in Seq(Moves) /\ DOMAIN m = 1 .. l /\ l \in Nat
            /\ T = {m[i].dst : i \in 1 .. l}
            /\ \A i, j \in 1 .. l : i # j => m[i].dst # m[j].dst
        BY <3>1, <3>2 DEF MovesFit
      <3>4. DefragTypeOK
        <4>1. ctx.step \in {"none", "idle", "computing", "begun", "release", "ended"}
          BY <3>1 DEF Contexts
        <4>2. \A i \in DOMAIN ctx.moves : ctx.moves[i] \in [src : Allocations \ Temps, dst : Temps]
          <5>1. \A i \in DOMAIN m : m[i] \in Moves
            BY <3>3
          <5>2. QED
            BY <3>2, <5>1 DEF Moves
        <4>3. ctx.ignored \in 0 .. 2^IgnoredBits - 1
          <5>1. ctx.ignored \in 0 .. Width - 1
            BY <3>1 DEF Contexts
          <5>2. QED
            BY <5>1, Zenon DEF Width
        <4>4. ctx.todo \subseteq Allocations \ Temps
          BY <3>1 DEF Contexts
        <4>5. QED
          BY <2>2, <4>1, <4>2, <4>3, <4>4, Zenon DEF DefragTypeOK
      <3>5. Cardinality(T) = Len(ctx.moves)
        <4> DEFINE F == [i \in 1 .. l |-> m[i].dst]
        <4>1. F \in [1 .. l -> T]
          BY <3>3
        <4>2. F \in Bijection(1 .. l, T)
          BY <3>3, <4>1 DEF Bijection, Injection, IsInjective, Surjection
        <4> HIDE DEF F
        <4>3. ExistsBijection(1 .. l, T)
          BY <4>2 DEF ExistsBijection
        <4>4. Cardinality(T) = l
          BY <3>3, <4>3, FS_NatBijection, FS_CountingElements
        <4>5. QED
          BY <3>2, <4>4
      <3>6. \A i \in DOMAIN ctx.moves :
              \/ i = 1 /\ Step("release")
              \/ /\ ctx.moves[i].src \in DOMAIN placed
                 /\ placed[ctx.moves[i].src].size = placed[ctx.moves[i].dst].size
        <4>1. TAKE i \in DOMAIN ctx.moves
        <4>2. i \in First(ctx.step) .. Len(ctx.moves) \/ (i = 1 /\ ctx.step = "release")
          BY <3>1 DEF First
        <4>3. QED
          BY <3>1, <4>2 DEF MovesFit, Step
      <3>7. T = {ctx.moves[i].dst : i \in DOMAIN ctx.moves}
        BY <3>1, <3>2, <3>3
      <3>8. QED
        BY <2>4, <3>2, <3>4, <3>5, <3>6, <3>7 DEF TempsAccounted
    <2>5. QED
      BY <2>3, <2>4
  <1>2. QED
    BY DefragAlwaysDInv, <1>1, PTL

(* Between the beginning and the end of a pass every move left leads       *)
(* towards the front, although heaps leave the vector and come to it.      *)
THEOREM MovesAlwaysForward == DefragSpec => []MovesForward
  <1>1. DInv => MovesForward
    <2>1. SUFFICES ASSUME DInv, Step("begun"), NEW i \in DOMAIN ctx.moves
          PROVE  Position(placed[ctx.moves[i].dst].block) <=
                   Position(placed[ctx.moves[i].src].block)
      BY DEF MovesForward
    <2>2. ~ Step("none") /\ First(ctx.step) = 1
      BY <2>1 DEF Step, First
    <2>3. i \in 1 .. Len(ctx.moves) /\ MovesFit(ctx.moves, 1, placed, blocks)
      BY <2>1, <2>2, MovesKnown
    <2>4. PICK b, c : b = placed[ctx.moves[i].dst].block /\ c = placed[ctx.moves[i].src].block
      OBVIOUS
    <2>5. PICK k \in DOMAIN blocks, l \in DOMAIN blocks : k <= l /\ blocks[k] = b /\ blocks[l] = c
      BY <2>3, <2>4 DEF MovesFit, Before
    <2>6. \A g, h \in DOMAIN blocks : g # h => blocks[g] # blocks[h]
      BY <2>1 DEF DInv, IInv, TypeOK
    <2>7. Position(b) = k /\ Position(c) = l
      BY <2>5, <2>6 DEF Position
    <2>8. QED
      BY <2>4, <2>5, <2>7
  <1>2. QED
    BY DefragAlwaysDInv, <1>1, PTL

-----------------------------------------------------------------------------
(* The metadata of one heap of the vector, which BlockVector leaves out:   *)
(* the abstract heap that both metadata classes implement keeps its        *)
(* allocations apart, inside and aligned, for every size, margin and set   *)
(* of requests.                                                            *)
CONSTANTS BlockBytes, Margin, Requests, Multiples
VARIABLE live

Metadata == INSTANCE Heap WITH Size <- BlockBytes, DebugMargin <- Margin,
                               AllocSizes <- Requests, Alignments <- Multiples

MetadataInv == Metadata!TypeOK /\ Metadata!Disjoint /\ Metadata!Inside

(* An empty heap satisfies it. *)
LEMMA MetadataInit == Metadata!Init => MetadataInv
  BY DEF Metadata!Init, MetadataInv, Metadata!TypeOK, Metadata!Disjoint, Metadata!Inside

(* One granted request preserves the invariant: the new allocation is at a *)
(* multiple of its alignment, ends inside, and is apart from every other.  *)
LEMMA MetadataAllocate ==
  ASSUME Metadata!HeapAssumption, MetadataInv, NEW n \in Requests, NEW a \in Multiples,
         NEW o \in Nat, Metadata!Allocate(o, n, a)
  PROVE  MetadataInv'
  <1>1. Metadata!TypeOK'
    <2>1. o \in 0 .. BlockBytes
      BY Metadata!HeapAssumption DEF Metadata!HeapAssumption, Metadata!Allocate
    <2>2. QED
      BY <2>1 DEF MetadataInv, Metadata!TypeOK, Metadata!Allocate
  <1>2. DOMAIN live' = DOMAIN live \cup {o}
    BY DEF Metadata!Allocate
  <1>3. \A p \in DOMAIN live : p # o => live'[p] = live[p]
    BY DEF Metadata!Allocate
  <1>4. live'[o] = [size |-> n, alignment |-> a]
    BY DEF Metadata!Allocate
  <1>5. o \notin DOMAIN live
    <2>1. SUFFICES ASSUME o \in DOMAIN live PROVE FALSE
      OBVIOUS
    <2>2. live[o].size \in Nat \ {0} /\ n \in Nat \ {0}
      BY <2>1, Metadata!HeapAssumption
         DEF Metadata!HeapAssumption, MetadataInv, Metadata!TypeOK
    <2>3. \/ o + n + Margin <= o
          \/ o + live[o].size + Margin <= o
      BY <2>1 DEF Metadata!Allocate, Metadata!Vacant
    <2>4. QED
      BY <2>2, <2>3, Metadata!HeapAssumption DEF Metadata!HeapAssumption
  <1>6. Metadata!Disjoint'
    <2>1. SUFFICES ASSUME NEW p \in DOMAIN live', NEW q \in DOMAIN live', p < q
                   PROVE  p + live'[p].size + Margin <= q
      BY DEF Metadata!Disjoint
    <2>2. p \in Nat /\ q \in Nat /\ live'[p].size \in Nat \ {0}
      BY <1>1, Metadata!HeapAssumption DEF Metadata!HeapAssumption, Metadata!TypeOK
    <2>3. CASE p # o /\ q # o
      BY <2>1, <2>3, <1>2, <1>3 DEF MetadataInv, Metadata!Disjoint
    <2>4. CASE p = o
      <3>1. q \in DOMAIN live /\ live[q].size \in Nat \ {0}
        BY <2>1, <2>2, <2>4, <1>2, Metadata!HeapAssumption
           DEF Metadata!HeapAssumption, MetadataInv, Metadata!TypeOK
      <3>2. \/ o + n + Margin <= q
            \/ q + live[q].size + Margin <= o
        BY <3>1 DEF Metadata!Allocate, Metadata!Vacant
      <3>3. QED
        BY <2>1, <2>2, <2>4, <3>1, <3>2, <1>4, Metadata!HeapAssumption
           DEF Metadata!HeapAssumption
    <2>5. CASE q = o /\ p # o
      <3>1. p \in DOMAIN live /\ live'[p] = live[p]
        BY <2>5, <1>2, <1>3
      <3>2. \/ o + n + Margin <= p
            \/ p + live[p].size + Margin <= o
        BY <3>1 DEF Metadata!Allocate, Metadata!Vacant
      <3>3. n \in Nat
        BY Metadata!HeapAssumption DEF Metadata!HeapAssumption
      <3>4. QED
        BY <2>1, <2>2, <2>5, <3>1, <3>2, <3>3, Metadata!HeapAssumption
           DEF Metadata!HeapAssumption
    <2>6. QED
      BY <2>3, <2>4, <2>5
  <1>7. Metadata!Inside'
    BY <1>2, <1>3, <1>4 DEF MetadataInv, Metadata!Inside, Metadata!Allocate
  <1>8. QED
    BY <1>1, <1>6, <1>7 DEF MetadataInv

(* The live allocations of a heap never overlap, keep the margin apart,    *)
(* lie inside the heap and are aligned.                                    *)
THEOREM HeapSafe ==
  ASSUME Metadata!HeapAssumption
  PROVE  Metadata!Spec => [](Metadata!TypeOK /\ Metadata!Disjoint /\ Metadata!Inside)
  <1>1. MetadataInv /\ [Metadata!Next]_live => MetadataInv'
    <2>1. SUFFICES ASSUME MetadataInv, [Metadata!Next]_live PROVE MetadataInv'
      OBVIOUS
    <2>2. CASE \E n \in Requests, a \in Multiples :
                 \E k \in 0 .. BlockBytes \div a : Metadata!Allocate(k * a, n, a)
      <3>1. PICK n \in Requests, a \in Multiples :
                 \E k \in 0 .. BlockBytes \div a : Metadata!Allocate(k * a, n, a)
        BY <2>2
      <3>2. PICK k \in 0 .. BlockBytes \div a : Metadata!Allocate(k * a, n, a)
        BY <3>1
      <3>3. k * a \in Nat
        BY Metadata!HeapAssumption DEF Metadata!HeapAssumption
      <3>4. QED
        BY <2>1, <3>2, <3>3, MetadataAllocate
    <2>3. CASE \E o \in DOMAIN live : Metadata!FreeAllocation(o)
      BY <2>1, <2>3
         DEF Metadata!FreeAllocation, MetadataInv, Metadata!TypeOK, Metadata!Disjoint, Metadata!Inside
    <2>4. CASE Metadata!Clear
      BY <2>4
         DEF Metadata!Clear, MetadataInv, Metadata!TypeOK, Metadata!Disjoint, Metadata!Inside
    <2>5. CASE UNCHANGED live
      BY <2>1, <2>5 DEF MetadataInv, Metadata!TypeOK, Metadata!Disjoint, Metadata!Inside
    <2>6. QED
      BY <2>1, <2>2, <2>3, <2>4, <2>5 DEF Metadata!Next
  <1>2. QED
    BY MetadataInit, <1>1, PTL DEF Metadata!Spec, MetadataInv
=============================================================================
