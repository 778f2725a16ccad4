-------------------------- MODULE Allocator_proofs --------------------------
(***************************************************************************)
(* Proofs about Allocator, for any number of threads, objects and heaps    *)
(* and any calls: NeverAllocate is respected; and when no call has another *)
(* kind of memory to fall back to after its resource could not be created  *)
(* (NoFallback), nothing is lost, everything is released once and the      *)
(* budget is exact.                                                        *)
(*                                                                         *)
(* The budget's counters trail behind the objects, each thread by the      *)
(* updates it has still to make.  So the invariant names the stage each    *)
(* thread is in, with the updates pending there, and says which objects    *)
(* and blocks a counter includes: from the update made when they came to   *)
(* the update made when they go.                                           *)
(*                                                                         *)
(* MapThenSumSet chooses a recursive function.  What it sums is proved     *)
(* without induction: by a smallest counterexample, which a finite set of  *)
(* finite sets has.                                                        *)
(***************************************************************************)
EXTENDS Allocator, FiniteSetTheorems, SequenceTheorems, WellFoundedInduction, TLAPS

(* The bytes of the objects of S; ob is a value that object has. *)
Bytes(ob, S) == MapThenSumSet(LAMBDA o : ob[o].size, S)

(* Among some finite sets there is a smallest one. *)
LEMMA SmallestSet ==
  ASSUME NEW S, IsFiniteSet(S), NEW F \in SUBSET SUBSET S, F # {}
  PROVE  \E T \in F : \A x \in T : T \ {x} \notin F
  <1> DEFINE R == StrictSubsetOrdering(S)
  <1>1. IsWellFoundedOn(R, FiniteSubsetsOf(S))
    BY FS_StrictSubsetOrderingWellFounded
  <1>2. F \subseteq FiniteSubsetsOf(S)
    BY FS_Subset DEF FiniteSubsetsOf
  <1>3. \A T, U \in SUBSET S : U \subseteq T /\ U # T => <<U, T>> \in R
    BY DEF StrictSubsetOrdering
  <1> HIDE DEF R
  <1>4. IsWellFoundedOn(R, F)
    BY <1>1, <1>2, IsWellFoundedOnSubset
  <1>5. PICK T \in F : \A U \in F : ~ (<<U, T>> \in R)
    BY <1>4, WFMin
  <1>6. ASSUME NEW x \in T PROVE T \ {x} \notin F
    <2>1. T \ {x} \in SUBSET S /\ T \in SUBSET S /\ T \ {x} \subseteq T /\ T \ {x} # T
      BY <1>6
    <2>2. <<T \ {x}, T>> \in R
      BY <1>3, <2>1
    <2>3. QED
      BY <1>5, <2>2
  <1>7. QED
    BY <1>6

(* g adds up the sizes of every subset of S. *)
Adds(g, ob, S) ==
  g = [s \in SUBSET S |->
         IF s = {} THEN 0
         ELSE LET x == CHOOSE y \in s : TRUE IN ob[x].size + g[s \ {x}]]

(* There is one: built by the number of elements. *)
LEMMA AddsExists ==
  ASSUME NEW S, IsFiniteSet(S), NEW ob, \A o \in S : ob[o].size \in Int
  PROVE  \E g \in [SUBSET S -> Int] : Adds(g, ob, S)
  <1> DEFINE Small(n) == {s \in SUBSET S : Cardinality(s) <= n}
             Rest(s) == s \ {CHOOSE y \in s : TRUE}
             Step(g, s) == IF s = {} THEN 0 ELSE ob[CHOOSE y \in s : TRUE].size + g[Rest(s)]
             Can(n) == \E g \in [Small(n) -> Int] : \A s \in Small(n) : g[s] = Step(g, s)
             Bad == {n \in Nat : ~ Can(n)}
  <1>0. \A s \in SUBSET S : s # {} =>
          /\ (CHOOSE y \in s : TRUE) \in s /\ Rest(s) \in SUBSET S
          /\ IsFiniteSet(s) /\ Cardinality(s) \in Nat /\ Cardinality(Rest(s)) = Cardinality(s) - 1
          /\ IsFiniteSet(Rest(s)) /\ Cardinality(Rest(s)) \in Nat
    <2>1. TAKE s \in SUBSET S
    <2>2. HAVE s # {}
    <2>3. (CHOOSE y \in s : TRUE) \in s
      BY <2>2
    <2>4. IsFiniteSet(s)
      BY FS_Subset
    <2>5. QED
      BY <2>3, <2>4, FS_RemoveElement, FS_CardinalityType
  <1>1. Bad = {}
    <2>1. SUFFICES ASSUME Bad # {} PROVE FALSE
      OBVIOUS
    <2>2. PICK n \in Nat : n \in Bad /\ \A m \in Nat : m < n => m \notin Bad
      <3> DEFINE R == OpToRel(<, Nat)
      <3>1. IsWellFoundedOn(R, Nat)
        BY NatLessThanWellFounded
      <3>2. \A x, y \in Nat : y < x => <<y, x>> \in R
        BY DEF OpToRel
      <3>3. Bad \subseteq Nat
        OBVIOUS
      <3> HIDE DEF R, Bad
      <3>4. PICK n \in Bad : \A m \in Bad : ~ (<<m, n>> \in R)
        BY <2>1, <3>1, <3>3, WFMin
      <3>5. n \in Nat /\ \A m \in Nat : m < n => m \notin Bad
        BY <3>2, <3>3, <3>4
      <3>6. QED
        BY <3>4, <3>5
    <2>3. CASE n = 0
      <3>1. Small(0) = {{}}
        <4>1. \A s \in SUBSET S : Cardinality(s) <= 0 <=> s = {}
          BY FS_Subset, FS_EmptySet, FS_CardinalityType
        <4>2. QED
          BY <4>1
      <3>2. [s \in Small(0) |-> 0] \in [Small(0) -> Int]
        OBVIOUS
      <3>3. \A s \in Small(0) : [r \in Small(0) |-> 0][s] = Step([r \in Small(0) |-> 0], s)
        BY <3>1
      <3>4. Can(0)
        BY <3>2, <3>3
      <3>5. QED
        BY <2>2, <2>3, <3>4
    <2>4. CASE n # 0
      <3>a. n - 1 \in Nat /\ n - 1 < n
        BY <2>4
      <3>1. n - 1 \in Nat /\ ~ (n - 1 \in Bad)
        BY <2>2, <3>a
      <3>2. PICK g \in [Small(n - 1) -> Int] : \A s \in Small(n - 1) : g[s] = Step(g, s)
        BY <3>1
      <3> DEFINE k == [s \in Small(n) |-> Step(g, s)]
      <3>3. \A s \in Small(n) : s # {} => Rest(s) \in Small(n - 1)
        <4>1. TAKE s \in Small(n)
        <4>2. HAVE s # {}
        <4>3. /\ Rest(s) \in SUBSET S /\ Cardinality(Rest(s)) = Cardinality(s) - 1
              /\ Cardinality(s) \in Nat /\ Cardinality(s) <= n
          BY <1>0, <4>2
        <4>4. \A c \in Nat : c <= n => c - 1 <= n - 1
          OBVIOUS
        <4>5. Cardinality(Rest(s)) <= n - 1
          BY <4>3, <4>4
        <4>6. QED
          BY <4>3, <4>5
      <3>4. Small(n - 1) \subseteq Small(n)
        BY FS_Subset, FS_CardinalityType, <3>1
      <3>5. \A s \in Small(n) : s # {} => ob[CHOOSE y \in s : TRUE].size \in Int
        BY <1>0
      <3>6. k \in [Small(n) -> Int]
        <4>1. ASSUME NEW s \in Small(n) PROVE Step(g, s) \in Int
          <5>1. CASE s = {}
            BY <5>1
          <5>2. CASE s # {}
            <6>1. g[Rest(s)] \in Int
              BY <3>3, <5>2
            <6>2. ob[CHOOSE y \in s : TRUE].size \in Int
              BY <3>5, <5>2
            <6> HIDE DEF Rest
            <6>3. QED
              BY <5>2, <6>1, <6>2
          <5>3. QED
            BY <5>1, <5>2
        <4> HIDE DEF Step
        <4>2. QED
          BY <4>1
      <3>7. \A s \in Small(n - 1) : k[s] = g[s]
        BY <3>2, <3>4
      <3>8. ASSUME NEW s \in Small(n) PROVE k[s] = Step(k, s)
        <4>1. k[s] = Step(g, s)
          OBVIOUS
        <4>2. CASE s = {}
          BY <4>1, <4>2
        <4>3. CASE s # {}
          <5>1. k[Rest(s)] = g[Rest(s)]
            BY <3>3, <3>7, <4>3
          <5> HIDE DEF k, Rest
          <5>2. QED
            BY <4>1, <4>3, <5>1
        <4>4. QED
          BY <4>2, <4>3
      <3> HIDE DEF k
      <3>9. Can(n)
        BY <3>6, <3>8
      <3>10. QED
        BY <2>2, <3>9
    <2>5. QED
      BY <2>3, <2>4
  <1>2. Cardinality(S) \in Nat
    BY FS_CardinalityType
  <1>3. PICK g \in [Small(Cardinality(S)) -> Int] : \A s \in Small(Cardinality(S)) : g[s] = Step(g, s)
    BY <1>1, <1>2
  <1>4. Small(Cardinality(S)) = SUBSET S
    BY FS_Subset
  <1>5. g = [s \in SUBSET S |-> g[s]]
    BY <1>4
  <1>6. \A s \in SUBSET S : g[s] = Step(g, s)
    BY <1>3, <1>4
  <1>7. Adds(g, ob, S)
    BY <1>5, <1>6, Zenon DEF Adds
  <1>8. QED
    BY <1>4, <1>7

(* It does not matter of which larger set a subset is taken. *)
LEMMA AddsAgree ==
  ASSUME NEW S, IsFiniteSet(S), NEW T, NEW ob, NEW g, NEW k,
         Adds(g, ob, S), Adds(k, ob, T), NEW s \in SUBSET S, s \in SUBSET T
  PROVE  g[s] = k[s]
  <1> DEFINE Bad == {u \in SUBSET s : g[u] # k[u]}
  <1>1. SUFFICES ASSUME Bad # {} PROVE FALSE
    BY <1>1
  <1>2. IsFiniteSet(s)
    BY FS_Subset
  <1>3. PICK u \in Bad : \A x \in u : u \ {x} \notin Bad
    BY <1>1, <1>2, SmallestSet
  <1>4. \A r \in SUBSET s : r \in SUBSET S /\ r \in SUBSET T
    OBVIOUS
  <1>5. u # {}
    BY <1>3, <1>4 DEF Adds
  <1> DEFINE x == CHOOSE y \in u : TRUE
  <1>6. x \in u
    BY <1>5
  <1>7. g[u \ {x}] = k[u \ {x}]
    BY <1>3, <1>6
  <1>8. g[u] = ob[x].size + g[u \ {x}] /\ k[u] = ob[x].size + k[u \ {x}]
    BY <1>3, <1>4, <1>5 DEF Adds
  <1>9. QED
    BY <1>3, <1>7, <1>8

(* The sum of the library is that of such a function, so it is taken one   *)
(* element at a time.                                                      *)
LEMMA BytesRecursion ==
  ASSUME NEW S, IsFiniteSet(S), NEW ob, \A o \in S : ob[o].size \in Int
  PROVE  /\ Bytes(ob, S) \in Int
         /\ Bytes(ob, {}) = 0
         /\ S # {} => \E x \in S : Bytes(ob, S) = ob[x].size + Bytes(ob, S \ {x})
  <1>1. \A T : Bytes(ob, T) = (CHOOSE g : Adds(g, ob, T))[T]
    BY DEF Bytes, MapThenSumSet, MapThenFoldSet, Adds
  <1>2. \A T \in SUBSET S : \E g \in [SUBSET T -> Int] : Adds(g, ob, T)
    BY FS_Subset, AddsExists
  <1>3. \A T \in SUBSET S : Adds(CHOOSE g : Adds(g, ob, T), ob, T)
    BY <1>2
  <1>4. \A T \in SUBSET S : Bytes(ob, T) \in Int
    <2>1. TAKE T \in SUBSET S
    <2>2. PICK g \in [SUBSET T -> Int] : Adds(g, ob, T)
      BY <1>2
    <2>3. IsFiniteSet(T)
      BY FS_Subset
    <2>4. (CHOOSE k : Adds(k, ob, T))[T] = g[T]
      BY <1>3, <2>2, <2>3, AddsAgree
    <2>5. QED
      BY <1>1, <2>2, <2>4
  <1>5. Bytes(ob, {}) = 0
    <2> DEFINE g == CHOOSE k : Adds(k, ob, {})
    <2>1. Adds(g, ob, {})
      BY <1>3
    <2> HIDE DEF g
    <2>2. g[{}] = 0
      BY <2>1 DEF Adds
    <2>3. QED
      BY <1>1, <2>2 DEF g
  <1>6. ASSUME S # {} PROVE \E x \in S : Bytes(ob, S) = ob[x].size + Bytes(ob, S \ {x})
    <2> DEFINE x == CHOOSE y \in S : TRUE
               g == CHOOSE k : Adds(k, ob, S)
               h == CHOOSE k : Adds(k, ob, S \ {x})
    <2>1. x \in S /\ S \ {x} \in SUBSET S
      BY <1>6
    <2>2. Adds(g, ob, S) /\ Adds(h, ob, S \ {x})
      BY <1>3
    <2>3. Bytes(ob, S) = g[S] /\ Bytes(ob, S \ {x}) = h[S \ {x}]
      BY <1>1
    <2> HIDE DEF g, h
    <2>4. g[S \ {x}] = h[S \ {x}]
      BY <2>1, <2>2, AddsAgree
    <2>5. g[S] = ob[x].size + g[S \ {x}]
      BY <1>6, <2>2 DEF Adds
    <2>6. QED
      BY <2>1, <2>3, <2>4, <2>5
  <1>7. QED
    BY <1>4, <1>5, <1>6

(* The sum of the sizes of a finite set of objects, taken apart at x. *)
LEMMA BytesOfOthers ==
  ASSUME NEW S, IsFiniteSet(S), NEW ob, \A o \in S : ob[o].size \in Int, NEW x \in S
  PROVE  Bytes(ob, S) = ob[x].size + Bytes(ob, S \ {x})
  <1> DEFINE Splits(T) == \A y \in T : Bytes(ob, T) = ob[y].size + Bytes(ob, T \ {y})
             Bad == {T \in SUBSET S : ~ Splits(T)}
  <1>1. SUFFICES ASSUME Bad # {} PROVE FALSE
    BY <1>1
  <1>2. PICK T \in Bad : \A y \in T : T \ {y} \notin Bad
    BY <1>1, SmallestSet
  <1>3. T \in SUBSET S /\ ~ Splits(T) /\ \A y \in T : Splits(T \ {y})
    BY <1>2
  <1>4. IsFiniteSet(T) /\ \A o \in T : ob[o].size \in Int
    BY <1>3, FS_Subset
  <1>5. PICK y \in T : Bytes(ob, T) # ob[y].size + Bytes(ob, T \ {y})
    BY <1>3
  <1>6. PICK c \in T : Bytes(ob, T) = ob[c].size + Bytes(ob, T \ {c})
    BY <1>4, <1>5, BytesRecursion
  <1>7. c # y
    BY <1>5, <1>6
  <1>8. (T \ {c}) \ {y} = (T \ {y}) \ {c}
    OBVIOUS
  <1>9. /\ Bytes(ob, T \ {c}) = ob[y].size + Bytes(ob, (T \ {c}) \ {y})
        /\ Bytes(ob, T \ {y}) = ob[c].size + Bytes(ob, (T \ {c}) \ {y})
    BY <1>3, <1>7, <1>8, SMTT(30)
  <1>10. Bytes(ob, (T \ {c}) \ {y}) \in Int /\ ob[y].size \in Int /\ ob[c].size \in Int
    <2>1. IsFiniteSet((T \ {c}) \ {y}) /\ (T \ {c}) \ {y} \subseteq T
      BY <1>4, FS_Subset
    <2>2. QED
      BY <1>4, <2>1, BytesRecursion
  <1> HIDE DEF Splits, Bad
  <1>11. QED
    BY <1>5, <1>6, <1>9, <1>10

(* ... or is added. *)
LEMMA BytesOfMore ==
  ASSUME NEW S, IsFiniteSet(S), NEW ob, NEW x, x \notin S, \A o \in S \cup {x} : ob[o].size \in Int
  PROVE  Bytes(ob, S \cup {x}) = Bytes(ob, S) + ob[x].size
  <1>1. IsFiniteSet(S \cup {x}) /\ (S \cup {x}) \ {x} = S
    BY FS_AddElement
  <1>2. Bytes(ob, S \cup {x}) = ob[x].size + Bytes(ob, S)
    BY <1>1, BytesOfOthers
  <1>3. Bytes(ob, S) \in Int /\ ob[x].size \in Int
    BY BytesRecursion
  <1>4. QED
    BY <1>2, <1>3

(* The sum depends on the sizes of its objects only. *)
LEMMA BytesSame ==
  ASSUME NEW S, IsFiniteSet(S), NEW ob, NEW other,
         \A o \in S : ob[o].size \in Int /\ other[o].size = ob[o].size
  PROVE  Bytes(other, S) = Bytes(ob, S)
  <1> DEFINE Bad == {T \in SUBSET S : Bytes(other, T) # Bytes(ob, T)}
  <1>1. SUFFICES ASSUME Bad # {} PROVE FALSE
    BY <1>1
  <1>2. PICK T \in Bad : \A y \in T : T \ {y} \notin Bad
    BY <1>1, SmallestSet
  <1>3. /\ IsFiniteSet(T) /\ T \in SUBSET S
        /\ \A o \in T : ob[o].size \in Int /\ other[o].size \in Int
    BY <1>2, FS_Subset
  <1>4. T # {}
    BY <1>2, <1>3, BytesRecursion
  <1>5. PICK x \in T : Bytes(ob, T) = ob[x].size + Bytes(ob, T \ {x})
    BY <1>3, <1>4, BytesRecursion
  <1>6. Bytes(other, T) = other[x].size + Bytes(other, T \ {x})
    BY <1>3, BytesOfOthers
  <1>7. Bytes(other, T \ {x}) = Bytes(ob, T \ {x})
    BY <1>2, <1>3
  <1>8. QED
    BY <1>2, <1>3, <1>5, <1>6, <1>7

(* Sizes are never negative. *)
LEMMA BytesPositive ==
  ASSUME NEW S, IsFiniteSet(S), NEW ob, \A o \in S : ob[o].size \in Nat
  PROVE  Bytes(ob, S) \in Nat
  <1> DEFINE Bad == {T \in SUBSET S : Bytes(ob, T) \notin Nat}
  <1>1. SUFFICES ASSUME Bad # {} PROVE FALSE
    BY <1>1
  <1>2. PICK T \in Bad : \A y \in T : T \ {y} \notin Bad
    BY <1>1, SmallestSet
  <1>3. /\ IsFiniteSet(T) /\ T \in SUBSET S
        /\ \A o \in T : ob[o].size \in Int
    BY <1>2, FS_Subset
  <1>4. T # {}
    BY <1>2, <1>3, BytesRecursion
  <1>5. PICK x \in T : Bytes(ob, T) = ob[x].size + Bytes(ob, T \ {x})
    BY <1>3, <1>4, BytesRecursion
  <1>6. Bytes(ob, T \ {x}) \in Nat /\ ob[x].size \in Nat
    BY <1>2, <1>3
  <1>7. QED
    BY <1>2, <1>5, <1>6

(* The sums of two sets without a common object. *)
LEMMA BytesOfBoth ==
  ASSUME NEW S, IsFiniteSet(S), NEW T, IsFiniteSet(T), S \cap T = {},
         NEW ob, \A o \in S \cup T : ob[o].size \in Int
  PROVE  Bytes(ob, S \cup T) = Bytes(ob, S) + Bytes(ob, T)
  <1> DEFINE Bad == {U \in SUBSET T : Bytes(ob, S \cup U) # Bytes(ob, S) + Bytes(ob, U)}
  <1>1. SUFFICES ASSUME Bad # {} PROVE FALSE
    BY <1>1
  <1>2. PICK U \in Bad : \A y \in U : U \ {y} \notin Bad
    BY <1>1, SmallestSet
  <1>3. /\ IsFiniteSet(U) /\ IsFiniteSet(S \cup U) /\ U \in SUBSET T
        /\ \A o \in S \cup U : ob[o].size \in Int
    BY <1>2, FS_Subset, FS_Union
  <1>4. Bytes(ob, S) \in Int /\ Bytes(ob, {}) = 0 /\ Bytes(ob, U) \in Int
    BY <1>3, BytesRecursion
  <1>5. U # {}
    <2>1. S \cup {} = S
      OBVIOUS
    <2>2. Bytes(ob, S \cup {}) = Bytes(ob, S) + Bytes(ob, {})
      BY <1>4, <2>1
    <2>3. {} \notin Bad
      BY <2>2
    <2>4. QED
      BY <1>2, <2>3
  <1>6. PICK x \in U : Bytes(ob, U) = ob[x].size + Bytes(ob, U \ {x})
    BY <1>3, <1>5, BytesRecursion
  <1>7. Bytes(ob, S \cup U) = ob[x].size + Bytes(ob, (S \cup U) \ {x})
    BY <1>3, BytesOfOthers
  <1>8. (S \cup U) \ {x} = S \cup (U \ {x})
    BY <1>3
  <1>9. Bytes(ob, S \cup (U \ {x})) = Bytes(ob, S) + Bytes(ob, U \ {x})
    BY <1>2, <1>3
  <1>10. Bytes(ob, U \ {x}) \in Int /\ ob[x].size \in Int
    BY <1>3, FS_Subset, BytesRecursion
  <1> HIDE DEF Bad
  <1>11. Bytes(ob, S \cup U) = Bytes(ob, S) + Bytes(ob, U)
    <2> DEFINE rest == Bytes(ob, U \ {x})
    <2>1. Bytes(ob, S \cup U) = ob[x].size + (Bytes(ob, S) + rest)
      BY <1>7, <1>8, <1>9
    <2>2. Bytes(ob, U) = ob[x].size + rest /\ rest \in Int /\ ob[x].size \in Int
      BY <1>6, <1>10
    <2> HIDE DEF rest
    <2>3. QED
      BY <1>4, <2>1, <2>2
  <1>12. QED
    BY <1>2, <1>11 DEF Bad

(* A part has no more bytes than the whole. *)
LEMMA BytesOfPart ==
  ASSUME NEW S, IsFiniteSet(S), NEW T \in SUBSET S, NEW ob, \A o \in S : ob[o].size \in Nat
  PROVE  Bytes(ob, T) <= Bytes(ob, S)
  <1>1. /\ IsFiniteSet(T) /\ IsFiniteSet(S \ T) /\ T \cap (S \ T) = {} /\ T \cup (S \ T) = S
        /\ \A o \in T \cup (S \ T) : ob[o].size \in Int
    BY FS_Subset
  <1>2. Bytes(ob, T) \in Nat /\ Bytes(ob, S \ T) \in Nat
    BY <1>1, BytesPositive
  <1>3. Bytes(ob, S) = Bytes(ob, T) + Bytes(ob, S \ T)
    BY <1>1, BytesOfBoth
  <1>4. QED
    BY <1>2, <1>3

(* Objects in blocks of p bytes that are not overfull. *)
LEMMA BytesInBlocks ==
  ASSUME NEW S, IsFiniteSet(S), NEW ob, \A o \in S : ob[o].size \in Nat,
         NEW p \in Nat, NEW C, IsFiniteSet(C),
         \A o \in S : ob[o].block \in C,
         \A b \in C : Bytes(ob, {o \in S : ob[o].block = b}) <= p
  PROVE  Bytes(ob, S) <= p * Cardinality(C)
  <1> DEFINE In(D) == {o \in S : ob[o].block \in D}
             Bad == {D \in SUBSET C : ~ (Bytes(ob, In(D)) <= p * Cardinality(D))}
  <1>1. Bad = {}
    <2>1. SUFFICES ASSUME Bad # {} PROVE FALSE
      OBVIOUS
    <2>2. PICK D \in Bad : \A b \in D : D \ {b} \notin Bad
      BY <2>1, SmallestSet
    <2>3. D \in SUBSET C /\ IsFiniteSet(D)
      BY <2>2, FS_Subset
    <2>4. \A E : IsFiniteSet(In(E)) /\ \A o \in In(E) : ob[o].size \in Int
      BY FS_Subset
    <2>5. D # {}
      <3>1. Cardinality({}) = 0
        BY FS_EmptySet
      <3>2. In({}) = {} /\ Bytes(ob, {}) = 0
        BY BytesRecursion
      <3>3. p * 0 = 0
        OBVIOUS
      <3>4. Bytes(ob, In({})) <= p * Cardinality({})
        BY <3>1, <3>2, <3>3
      <3>5. QED
        BY <2>2, <3>4
    <2>6. PICK b \in D : TRUE
      BY <2>5
    <2> DEFINE E == D \ {b}
    <2>7. Bytes(ob, In(E)) <= p * Cardinality(E)
      <3>1. E \in SUBSET C /\ E \notin Bad
        BY <2>2, <2>3
      <3> HIDE DEF In
      <3>2. QED
        BY <3>1
    <2>8. Cardinality(E) \in Nat /\ Cardinality(D) = Cardinality(E) + 1
      <3>1. b \in D /\ IsFiniteSet(E) /\ Cardinality(E) = Cardinality(D) - 1
        BY <2>3, FS_RemoveElement
      <3>2. Cardinality(E) \in Nat /\ Cardinality(D) \in Nat
        BY <2>3, <3>1, FS_CardinalityType
      <3>3. QED
        BY <3>1, <3>2
    <2>9. Bytes(ob, In({b})) <= p
      <3>1. In({b}) = {o \in S : ob[o].block = b}
        OBVIOUS
      <3>2. QED
        BY <2>3, <3>1
    <2>10. Bytes(ob, In(D)) = Bytes(ob, In(E)) + Bytes(ob, In({b}))
      <3>1. In(D) = In(E) \cup In({b}) /\ In(E) \cap In({b}) = {}
        OBVIOUS
      <3>2. IsFiniteSet(In(E)) /\ IsFiniteSet(In({b}))
        BY <2>4
      <3>3. \A o \in In(E) \cup In({b}) : ob[o].size \in Int
        BY <2>4
      <3> DEFINE A == In(E)
                 B == In({b})
      <3>4. A \cup B = In(D) /\ A \cap B = {} /\ IsFiniteSet(A) /\ IsFiniteSet(B)
            /\ \A o \in A \cup B : ob[o].size \in Int
        BY <3>1, <3>2, <3>3
      <3> HIDE DEF A, B
      <3>5. Bytes(ob, A \cup B) = Bytes(ob, A) + Bytes(ob, B)
        BY <3>4, BytesOfBoth
      <3>6. QED
        BY <3>4, <3>5 DEF A, B
    <2>11. Bytes(ob, In(E)) \in Int /\ Bytes(ob, In({b})) \in Int
      BY <2>4, BytesRecursion
    <2>12. \A c \in Nat : p * (c + 1) = p * c + p /\ p * c \in Nat
      OBVIOUS
    <2> HIDE DEF In, E, Bad
    <2>13. Bytes(ob, In(D)) <= p * Cardinality(D)
      BY <2>7, <2>8, <2>9, <2>10, <2>11, <2>12
    <2>14. QED
      BY <2>2, <2>13 DEF Bad
  <1>2. In(C) = S
    OBVIOUS
  <1>3. QED
    BY <1>1, <1>2
-----------------------------------------------------------------------------
(* A resource that cannot be created in the memory it was given has no     *)
(* other kind of memory to fall back to; where it has, its memory is lost. *)
NoFallback ==
  \A r \in Requests :
    r.kind = "resource" => ~ r.canAlias /\ Attempts(r) # <<"placed", "committed">>

AttemptLists ==
  {<<"committed">>, <<"placed">>, <<"committed", "placed">>, <<"placed", "committed">>}

CallSet ==
  [step : {"idle", "freeing", "deleting"}]
  \cup [step : {"trying", "creating"}, attempts : AttemptLists,
        kind : {"resource", "memory"}, size : Nat \ {0},
        neverAllocate : BOOLEAN, canAlias : BOOLEAN]

(* NeverAllocate leaves only the block vector to try. *)
CallsLegal ==
  /\ call \in [Threads -> CallSet]
  /\ \A t \in Threads : call[t].step \in {"trying", "creating"} /\ call[t].neverAllocate
                          => call[t].attempts = <<"placed">>

ObjectSet == [type : {"HEAP", "COMMITTED", "PLACED"}, size : Nat \ {0},
              block : BlockIds \cup {NoObject}]

Types ==
  /\ CallsLegal
  /\ out \in [Threads -> DOMAIN object \cup {NoObject}]
  /\ DOMAIN object \subseteq Objects
  /\ object \in [DOMAIN object -> ObjectSet]
  /\ registered \subseteq OwnHeap
  /\ blocks \subseteq BlockIds
  /\ lock \in Threads \cup {NoThread}
  /\ DOMAIN counting = Threads
  /\ budget \in [blockBytes : Int, allocationBytes : Int]

(* Every object has one owner. *)
Owned ==
  /\ NothingLost
  /\ \A t, u \in Threads : out[t] = out[u] /\ out[t] # NoObject => t = u

Holds(t) == out[t] # NoObject
Placed(t) == Holds(t) /\ object[out[t]].type = "PLACED"
Own(t) == Holds(t) /\ object[out[t]].type # "PLACED"
Size(t) == object[out[t]].size
Block(t) == object[out[t]].block

(* Where a thread is between a call and the deletion of what it returned,  *)
(* and which updates of the budget are then to come.                       *)
EmptyHanded(t) ==
  /\ call[t].step \in {"idle", "trying"} /\ ~ Holds(t) /\ counting[t] = <<>>
  /\ call[t].step = "trying" /\ call[t].kind = "resource" =>
       ~ call[t].canAlias /\ call[t].attempts # <<"placed", "committed">>

HoldsOwn(t) ==
  /\ call[t].step = "idle" /\ Own(t) /\ out[t] \in registered
  /\ counting[t] \in {<<>>, <<AddAllocation(Size(t))>>, CountCommitted(Size(t))}

InNewBlock(t) ==
  /\ counting[t] = <<AddBlock(PreferredBlockSize), AddAllocation(Size(t))>>
  /\ PlacedIn(Block(t)) = {out[t]}

HoldsPlaced(t) ==
  /\ call[t].step \in {"idle", "creating"} /\ Placed(t) /\ Block(t) \in blocks
  /\ \/ counting[t] = <<>>
     \/ lock = t /\ counting[t] = <<AddAllocation(Size(t))>>
     \/ lock = t /\ InNewBlock(t)
  /\ call[t].step = "creating" =>
       call[t].kind = "resource" /\ call[t].attempts = <<"placed">>

Freeing(t) ==
  /\ call[t].step = "freeing" /\ Placed(t) /\ Block(t) \in blocks
  /\ counting[t] \in {<<>>, <<RemoveAllocation(Size(t))>>}

DeletesOwn(t) ==
  /\ call[t].step = "deleting" /\ Own(t) /\ out[t] \notin registered
  /\ counting[t] \in {<<>>, <<RemoveBlock(Size(t))>>, UncountCommitted(Size(t))}

DeletesPlaced(t) ==
  /\ call[t].step = "deleting" /\ Placed(t) /\ Block(t) = NoObject
  /\ counting[t] \in {<<>>, <<RemoveBlock(PreferredBlockSize)>>}

Stage(t) ==
  \/ EmptyHanded(t) \/ HoldsOwn(t) \/ HoldsPlaced(t)
  \/ Freeing(t) \/ DeletesOwn(t) \/ DeletesPlaced(t)

Stages == \A t \in Threads : Stage(t)

(* A counter includes what t has from the update made when it came to the  *)
(* update made when it goes.                                               *)
AwaitsIn(updates, counter) == \E i \in DOMAIN updates : updates[i].counter = counter
Awaits(t, counter) == AwaitsIn(counting[t], counter)
Counts(t, counter) ==
  /\ Holds(t)
  /\ IF call[t].step \in {"idle", "creating"} THEN ~ Awaits(t, counter) ELSE Awaits(t, counter)

Counted == {out[t] : t \in {u \in Threads : Counts(u, "allocationBytes")}}
CountedOwn == {out[t] : t \in {u \in Threads : Own(u) /\ Counts(u, "blockBytes")}}

(* New blocks are not counted yet, those let go still are. *)
AddsBlock(t) == Placed(t) /\ call[t].step \in {"idle", "creating"} /\ Awaits(t, "blockBytes")
Retires(t) == Placed(t) /\ call[t].step = "deleting" /\ Awaits(t, "blockBytes")
CountedBlocks == blocks \ {Block(t) : t \in {u \in Threads : AddsBlock(u)}}
Retiring == {t \in Threads : Retires(t)}

Sums ==
  /\ budget.allocationBytes = Bytes(object, Counted)
  /\ budget.blockBytes =
       PreferredBlockSize * (Cardinality(CountedBlocks) + Cardinality(Retiring))
         + Bytes(object, CountedOwn)

BlocksHoldTheirs == \A b \in blocks : Bytes(object, PlacedIn(b)) <= PreferredBlockSize

IInv == Types /\ Owned /\ Stages /\ Sums /\ BlocksHoldTheirs
-----------------------------------------------------------------------------
(* What the constants are, one by one. *)
LEMMA Assumed ==
  /\ PreferredBlockSize \in Nat \ {0} /\ MaxBlockCount \in Nat
  /\ NoObject \notin Objects /\ NoObject \notin BlockIds /\ NoThread \notin Threads
  /\ IsFiniteSet(Threads) /\ IsFiniteSet(Objects) /\ IsFiniteSet(BlockIds)
  BY AllocatorAssumption

(* What is left of a list of updates. *)
LEMMA Updates ==
  /\ \A c : ~ AwaitsIn(<<>>, c)
  /\ \A u, c : AwaitsIn(<<u>>, c) <=> u.counter = c
  /\ \A u, v, c : AwaitsIn(<<u, v>>, c) <=> u.counter = c \/ v.counter = c
  /\ \A u : <<u>> # <<>> /\ Head(<<u>>) = u /\ Tail(<<u>>) = <<>>
  /\ \A u, v : <<u, v>> # <<>> /\ Head(<<u, v>>) = u /\ Tail(<<u, v>>) = <<v>>
  <1>1. \A c : ~ AwaitsIn(<<>>, c)
    BY DEF AwaitsIn
  <1>2. \A u, c : AwaitsIn(<<u>>, c) <=> u.counter = c
    BY DEF AwaitsIn
  <1>3. \A u, v, c : AwaitsIn(<<u, v>>, c) <=> u.counter = c \/ v.counter = c
    <2>1. TAKE u, v, c
    <2>2. \A i : i \in DOMAIN <<u, v>> <=> i = 1 \/ i = 2
      OBVIOUS
    <2>3. <<u, v>>[1] = u /\ <<u, v>>[2] = v
      OBVIOUS
    <2>4. QED
      BY <2>2, <2>3 DEF AwaitsIn
  <1>4. \A u : <<u>> # <<>> /\ Head(<<u>>) = u /\ Tail(<<u>>) = <<>>
    OBVIOUS
  <1>5. \A u, v : <<u, v>> # <<>> /\ Head(<<u, v>>) = u /\ Tail(<<u, v>>) = <<v>>
    OBVIOUS
  <1>6. QED
    BY <1>1, <1>2, <1>3, <1>4, <1>5

(* Lists of one, joined. *)
LEMMA Joined ==
  ASSUME NEW x, NEW y
  PROVE  /\ <<>> \o <<>> = <<>> /\ <<x>> \o <<>> = <<x>> /\ <<>> \o <<x>> = <<x>>
         /\ <<x>> \o <<y>> = <<x, y>>
  <1>1. <<>> \in Seq({x, y})
    BY EmptySeq
  <1>2. <<x>> \in Seq({x, y}) /\ <<y>> \in Seq({x, y}) /\ <<x, y>> \in Seq({x, y})
    OBVIOUS
  <1>3. <<>> \o <<>> = <<>> /\ <<x>> \o <<>> = <<x>> /\ <<>> \o <<x>> = <<x>>
    BY <1>1, <1>2, ConcatEmptySeq
  <1>4. <<x>> \o <<y>> = <<x, y>>
    <2>1. /\ Len(<<x>>) = 1 /\ Len(<<y>>) = 1 /\ Len(<<x, y>>) = 2
          /\ <<x>>[1] = x /\ <<y>>[1] = y /\ <<x, y>>[1] = x /\ <<x, y>>[2] = y
      OBVIOUS
    <2>2. /\ <<x>> \o <<y>> \in Seq({x, y})
          /\ Len(<<x>> \o <<y>>) = Len(<<x>>) + Len(<<y>>)
          /\ \A i \in 1 .. Len(<<x>>) + Len(<<y>>) :
               (<<x>> \o <<y>>)[i] = IF i <= Len(<<x>>) THEN <<x>>[i] ELSE <<y>>[i - Len(<<x>>)]
      BY <1>2, ConcatProperties
    <2>3. (<<x>> \o <<y>>)[1] = x /\ (<<x>> \o <<y>>)[2] = y /\ Len(<<x>> \o <<y>>) = 2
      BY <2>1, <2>2
    <2>4. \A i \in 1 .. Len(<<x, y>>) : (<<x>> \o <<y>>)[i] = <<x, y>>[i]
      BY <2>1, <2>3
    <2>5. QED
      BY <1>2, <2>1, <2>2, <2>3, <2>4, SeqEqual
  <1>5. QED
    BY <1>3, <1>4

(* What a call tries, in which order. *)
LEMMA AttemptsOf ==
  ASSUME NEW r \in RequestType, Attempts(r) # <<>>
  PROVE  /\ Attempts(r) \in AttemptLists
         /\ r.neverAllocate => Attempts(r) = <<"placed">>
  <1>1. /\ <<>> \o <<>> = <<>>
        /\ <<"committed">> \o <<>> = <<"committed">> /\ <<>> \o <<"committed">> = <<"committed">>
        /\ <<"placed">> \o <<>> = <<"placed">> /\ <<>> \o <<"placed">> = <<"placed">>
        /\ <<"placed">> \o <<"committed">> = <<"placed", "committed">>
        /\ <<"committed">> \o <<"placed">> = <<"committed", "placed">>
    BY Joined
  <1>2. QED
    BY <1>1 DEF Attempts, AttemptLists, UsesCommitted

(* The lists that are tried, one by one. *)
LEMMA AttemptsLeft ==
  ASSUME NEW a \in AttemptLists
  PROVE  /\ Head(a) \in {"committed", "placed"}
         /\ Len(a) # 1 => Tail(a) \in AttemptLists /\ Tail(a) # <<"placed", "committed">>
         /\ Len(a) = 1 <=> a \in {<<"committed">>, <<"placed">>}
         /\ Head(a) = "placed" => a \in {<<"placed">>, <<"placed", "committed">>}
  <1>1. CASE a = <<"committed">>
    BY <1>1 DEF AttemptLists
  <1>2. CASE a = <<"placed">>
    BY <1>2 DEF AttemptLists
  <1>3. CASE a = <<"committed", "placed">>
    BY <1>3 DEF AttemptLists
  <1>4. CASE a = <<"placed", "committed">>
    BY <1>4 DEF AttemptLists
  <1>5. QED
    BY <1>1, <1>2, <1>3, <1>4 DEF AttemptLists
-----------------------------------------------------------------------------
(* What the provers need to know of the objects there are. *)
LEMMA ObjectFacts ==
  ASSUME Types, Owned
  PROVE  /\ IsFiniteSet(DOMAIN object)
         /\ \A o \in DOMAIN object :
              /\ o \in Objects /\ o # NoObject /\ object[o] \in ObjectSet
              /\ object[o].size \in Nat \ {0} /\ object[o].size \in Nat /\ object[o].size \in Int
         /\ \A t \in Threads : Holds(t) => out[t] \in DOMAIN object
         /\ \A t \in Threads : ~ Holds(t) => out[t] = NoObject
         /\ Counted \subseteq DOMAIN object /\ CountedOwn \subseteq DOMAIN object
         /\ IsFiniteSet(Counted) /\ IsFiniteSet(CountedOwn)
         /\ \A b : PlacedIn(b) \subseteq DOMAIN object /\ IsFiniteSet(PlacedIn(b))
         /\ IsFiniteSet(blocks) /\ IsFiniteSet(CountedBlocks) /\ IsFiniteSet(Retiring)
  <1>1. IsFiniteSet(DOMAIN object)
    BY Assumed, FS_Subset DEF Types
  <1>2. \A o \in DOMAIN object :
          /\ o \in Objects /\ o # NoObject /\ object[o] \in ObjectSet
          /\ object[o].size \in Nat \ {0} /\ object[o].size \in Nat /\ object[o].size \in Int
    BY Assumed DEF Types, ObjectSet
  <1>3. \A t \in Threads : (Holds(t) => out[t] \in DOMAIN object) /\ (~ Holds(t) => out[t] = NoObject)
    BY DEF Types, Holds
  <1>4. Counted \subseteq DOMAIN object /\ CountedOwn \subseteq DOMAIN object
    BY <1>3 DEF Counted, CountedOwn, Counts
  <1>5. \A b : PlacedIn(b) \subseteq DOMAIN object
    BY DEF PlacedIn
  <1>6. CountedBlocks \subseteq blocks /\ blocks \subseteq BlockIds /\ Retiring \subseteq Threads
    BY DEF CountedBlocks, Retiring, Types
  <1>7. IsFiniteSet(blocks) /\ IsFiniteSet(CountedBlocks) /\ IsFiniteSet(Retiring)
    BY <1>6, Assumed, FS_Subset
  <1>8. IsFiniteSet(Counted) /\ IsFiniteSet(CountedOwn) /\ \A b : IsFiniteSet(PlacedIn(b))
    BY <1>1, <1>4, <1>5, FS_Subset
  <1>9. QED
    BY <1>1, <1>2, <1>3, <1>4, <1>5, <1>7, <1>8

(* What a step of thread t leaves alone. *)
OnlyStepOf(t) ==
  /\ \A u \in Threads \ {t} :
       /\ call'[u] = call[u] /\ out'[u] = out[u] /\ counting'[u] = counting[u]
       /\ lock = u => lock' = u /\ \A b \in BlockIds : PlacedIn(b)' = PlacedIn(b)
       /\ Placed(u) /\ Block(u) \in blocks => Block(u) \in blocks'
  /\ \A o \in DOMAIN object \ {out[t]} :
       /\ o \in DOMAIN object' /\ object'[o] = object[o]
       /\ o \in registered' <=> o \in registered

(* ... in particular the stages of all other threads. *)
LEMMA OthersStay ==
  ASSUME IInv, NEW t \in Threads, OnlyStepOf(t), NEW u \in Threads, u # t
  PROVE  /\ Stage(u)'
         /\ out'[u] = out[u] /\ (Holds(u) => object'[out[u]] = object[out[u]])
         /\ Own(u)' <=> Own(u)
         /\ \A c : Counts(u, c)' <=> Counts(u, c)
         /\ AddsBlock(u)' <=> AddsBlock(u)
         /\ Retires(u)' <=> Retires(u)
         /\ Block(u)' = Block(u) \/ ~ Holds(u)
  <1>1. call'[u] = call[u] /\ out'[u] = out[u] /\ counting'[u] = counting[u]
    BY DEF OnlyStepOf
  <1>2. Holds(u) => out[u] \in DOMAIN object \ {out[t]}
    BY DEF IInv, Types, Owned, Holds
  <1>3. Holds(u) => object'[out[u]] = object[out[u]] /\ (out[u] \in registered' <=> out[u] \in registered)
    BY <1>2 DEF OnlyStepOf
  <1>4. /\ Holds(u)' <=> Holds(u)
        /\ Own(u)' <=> Own(u)
        /\ Placed(u)' <=> Placed(u)
        /\ Own(u) \/ Placed(u) => Holds(u)
        /\ Placed(u) /\ Block(u) \in blocks => Block(u) \in blocks'
    BY <1>1, <1>3 DEF OnlyStepOf, Holds, Own, Placed
  <1>5. Holds(u) => Size(u)' = Size(u) /\ Block(u)' = Block(u)
    BY <1>1, <1>3 DEF Size, Block
  <1>6. \A c : Awaits(u, c)' <=> Awaits(u, c)
    BY <1>1 DEF Awaits
  <1>7. Stage(u)'
    <2>1. Stage(u)
      BY DEF IInv, Stages
    <2>2. CASE EmptyHanded(u)
      BY <1>1, <1>4, <2>2 DEF Stage, EmptyHanded
    <2>3. CASE HoldsOwn(u)
      BY <1>1, <1>3, <1>4, <1>5, <2>3 DEF Stage, HoldsOwn, AddAllocation, CountCommitted, AddBlock
    <2>4. CASE HoldsPlaced(u)
      <3>1. Block(u)' = Block(u) /\ Size(u)' = Size(u) /\ Block(u) \in blocks' /\ Block(u) \in BlockIds
        BY <1>4, <1>5, <2>4 DEF HoldsPlaced, IInv, Types
      <3>2. lock = u => lock' = u /\ PlacedIn(Block(u))' = PlacedIn(Block(u))
        <4>1. lock = u => lock' = u /\ \A b \in BlockIds : PlacedIn(b)' = PlacedIn(b)
          BY DEF OnlyStepOf
        <4>2. PICK b \in BlockIds : b = Block(u)
          BY <3>1
        <4>3. Block(u)' = b
          BY <3>1, <4>2
        <4>4. PlacedIn(Block(u))' = PlacedIn(b)'
          BY <4>2, <4>3 DEF PlacedIn
        <4>5. QED
          BY <4>1, <4>2, <4>4
      <3>3. lock = u /\ InNewBlock(u) => InNewBlock(u)'
        BY <1>1, <3>1, <3>2 DEF InNewBlock, AddAllocation, AddBlock
      <3>4. QED
        BY <1>1, <1>4, <2>4, <3>1, <3>2, <3>3 DEF Stage, HoldsPlaced, AddAllocation
    <2>5. CASE Freeing(u)
      BY <1>1, <1>4, <1>5, <2>5 DEF Stage, Freeing, RemoveAllocation
    <2>6. CASE DeletesOwn(u)
      BY <1>1, <1>3, <1>4, <1>5, <2>6 DEF Stage, DeletesOwn, RemoveBlock, UncountCommitted, RemoveAllocation
    <2>7. CASE DeletesPlaced(u)
      BY <1>1, <1>4, <1>5, <2>7 DEF Stage, DeletesPlaced, RemoveBlock
    <2>8. QED
      BY <2>1, <2>2, <2>3, <2>4, <2>5, <2>6, <2>7 DEF Stage
  <1>8. QED
    BY <1>1, <1>3, <1>4, <1>5, <1>6, <1>7 DEF Counts, AddsBlock, Retires
-----------------------------------------------------------------------------
(* Every object keeps its owner, and what t has is its own. *)
LEMMA OwnersStay ==
  ASSUME IInv, NEW t \in Threads, OnlyStepOf(t), DOMAIN out' = Threads,
         \A o \in DOMAIN object' : o = out'[t] \/ o \in DOMAIN object \ {out[t]},
         out'[t] = NoObject \/ out'[t] = out[t] \/ out'[t] \notin DOMAIN object
  PROVE  Owned'
  <1>1. \A u \in Threads : u # t => out'[u] = out[u]
    BY DEF OnlyStepOf
  <1>2. NothingLost'
    <2>1. SUFFICES ASSUME NEW o \in DOMAIN object', o # out'[t]
                   PROVE  \E u \in Threads : out'[u] = o
      BY DEF NothingLost
    <2>2. PICK u \in Threads : out[u] = o
      BY <2>1 DEF IInv, Owned, NothingLost
    <2>3. u # t
      BY <2>1, <2>2
    <2>4. QED
      BY <1>1, <2>2, <2>3
  <1>3. ASSUME NEW u \in Threads, NEW v \in Threads, out'[u] = out'[v], out'[u] # NoObject
        PROVE  u = v
    <2>1. \A w \in Threads : w # t /\ out[w] # NoObject => out[w] \in DOMAIN object /\ out[w] # out[t]
      BY DEF IInv, Owned, Types
    <2>2. CASE u = t /\ v # t
      BY <1>1, <1>3, <2>1, <2>2
    <2>3. CASE u # t /\ v = t
      BY <1>1, <1>3, <2>1, <2>3
    <2>4. CASE u # t /\ v # t
      BY <1>1, <1>3, <2>4 DEF IInv, Owned
    <2>5. QED
      BY <2>2, <2>3, <2>4
  <1>4. QED
    BY <1>2, <1>3 DEF Owned

(* The blocks counted, when t neither adds a block nor lets one go. *)
LEMMA BlocksStay ==
  ASSUME IInv, NEW t \in Threads, OnlyStepOf(t), blocks' = blocks,
         AddsBlock(t)' <=> AddsBlock(t), AddsBlock(t) => Block(t)' = Block(t),
         Retires(t)' <=> Retires(t)
  PROVE  CountedBlocks' = CountedBlocks /\ Retiring' = Retiring
  <1>1. \A u \in Threads : /\ AddsBlock(u)' <=> AddsBlock(u)
                           /\ Retires(u)' <=> Retires(u)
                           /\ AddsBlock(u) => Block(u)' = Block(u)
    BY OthersStay DEF AddsBlock, Placed
  <1>2. {Block(u) : u \in {v \in Threads : AddsBlock(v)}}'
          = {Block(u) : u \in {v \in Threads : AddsBlock(v)}}
    BY <1>1
  <1>3. QED
    BY <1>1, <1>2 DEF CountedBlocks, Retiring

(* The sums, when t changes nothing that is counted. *)
LEMMA SumsStay ==
  ASSUME IInv, NEW t \in Threads, OnlyStepOf(t), budget' = budget,
         Counts(t, "allocationBytes")' <=> Counts(t, "allocationBytes"),
         (Own(t) /\ Counts(t, "blockBytes"))' <=> (Own(t) /\ Counts(t, "blockBytes")),
         Counts(t, "allocationBytes") \/ (Own(t) /\ Counts(t, "blockBytes")) =>
           out'[t] = out[t] /\ object'[out[t]].size = object[out[t]].size,
         Cardinality(CountedBlocks') + Cardinality(Retiring')
           = Cardinality(CountedBlocks) + Cardinality(Retiring)
  PROVE  Sums'
  <1>1. Counted' = Counted
    <2>1. \A u \in Threads : /\ Counts(u, "allocationBytes")' <=> Counts(u, "allocationBytes")
                             /\ Counts(u, "allocationBytes") => out'[u] = out[u]
      <3>1. TAKE u \in Threads
      <3>2. CASE u = t
        BY <3>2
      <3>3. CASE u # t
        BY <3>3, OthersStay
      <3>4. QED
        BY <3>2, <3>3
    <2>2. QED
      BY <2>1 DEF Counted
  <1>2. CountedOwn' = CountedOwn
    <2>1. \A u \in Threads :
            /\ (Own(u) /\ Counts(u, "blockBytes"))' <=> (Own(u) /\ Counts(u, "blockBytes"))
            /\ Own(u) /\ Counts(u, "blockBytes") => out'[u] = out[u]
      <3>1. TAKE u \in Threads
      <3>2. CASE u = t
        BY <3>2
      <3>3. CASE u # t
        BY <3>3, OthersStay
      <3>4. QED
        BY <3>2, <3>3
    <2>2. QED
      BY <2>1 DEF CountedOwn
  <1>3. \A o \in Counted \cup CountedOwn : object'[o].size = object[o].size
    <2>1. TAKE o \in Counted \cup CountedOwn
    <2>2. PICK u \in Threads : /\ out[u] = o /\ Holds(u)
                               /\ Counts(u, "allocationBytes") \/ (Own(u) /\ Counts(u, "blockBytes"))
      BY DEF Counted, CountedOwn, Counts
    <2>3. CASE u = t
      BY <2>2, <2>3
    <2>4. CASE u # t
      BY <2>2, <2>4, OthersStay
    <2>5. QED
      BY <2>3, <2>4
  <1>4. /\ IsFiniteSet(Counted) /\ IsFiniteSet(CountedOwn)
        /\ \A o \in Counted \cup CountedOwn : object[o].size \in Int
    BY ObjectFacts DEF IInv
  <1>5. Bytes(object', Counted) = Bytes(object, Counted)
    BY <1>3, <1>4, BytesSame
  <1>6. Bytes(object', CountedOwn) = Bytes(object, CountedOwn)
    BY <1>3, <1>4, BytesSame
  <1>7. QED
    BY <1>1, <1>2, <1>5, <1>6 DEF IInv, Sums

(* The blocks still hold their allocations when none is added to them. *)
LEMMA RoomStays ==
  ASSUME IInv, blocks' \subseteq blocks,
         \A b \in blocks' : /\ PlacedIn(b)' \subseteq PlacedIn(b)
                            /\ \A o \in PlacedIn(b)' : object'[o].size = object[o].size
  PROVE  BlocksHoldTheirs'
  <1>1. SUFFICES ASSUME NEW b \in blocks'
                 PROVE  Bytes(object', PlacedIn(b)') <= PreferredBlockSize
    BY DEF BlocksHoldTheirs
  <1>2. /\ IsFiniteSet(PlacedIn(b)) /\ IsFiniteSet(PlacedIn(b)')
        /\ \A o \in PlacedIn(b) : object[o].size \in Nat /\ object[o].size \in Int
    BY ObjectFacts, FS_Subset DEF IInv
  <1>3. Bytes(object', PlacedIn(b)') = Bytes(object, PlacedIn(b)')
    BY <1>2, BytesSame
  <1>4. Bytes(object, PlacedIn(b)') <= Bytes(object, PlacedIn(b))
    BY <1>2, BytesOfPart
  <1>5. Bytes(object, PlacedIn(b)) <= PreferredBlockSize
    BY DEF IInv, BlocksHoldTheirs
  <1>6. Bytes(object, PlacedIn(b)) \in Int /\ Bytes(object, PlacedIn(b)') \in Int
    <2>1. \A o \in PlacedIn(b)' : object[o].size \in Int
      BY <1>2
    <2>2. QED
      BY <1>2, <2>1, BytesRecursion
  <1>7. QED
    BY <1>3, <1>4, <1>5, <1>6, Assumed

(* A step of t keeps the invariant if what it changes does. *)
LEMMA StepKeeps ==
  ASSUME IInv, NEW t \in Threads, OnlyStepOf(t),
         Types', Owned', Stage(t)', Sums', BlocksHoldTheirs'
  PROVE  IInv'
  BY OthersStay DEF IInv, Stages
-----------------------------------------------------------------------------
(* The calls a thread may be in, one changed. *)
LEMMA CallFacts ==
  ASSUME CallsLegal, NEW t \in Threads
  PROVE  /\ call[t] \in CallSet /\ DOMAIN call = Threads
         /\ \A r : /\ [call EXCEPT ![t] = r][t] = r
                   /\ \A u \in Threads \ {t} : [call EXCEPT ![t] = r][u] = call[u]
                   /\ r \in CallSet => [call EXCEPT ![t] = r] \in [Threads -> CallSet]
         /\ \A s \in {"idle", "freeing", "deleting"} : [step |-> s] \in CallSet
         /\ call[t].step \in {"trying", "creating"} =>
              call[t] \in [step : {"trying", "creating"}, attempts : AttemptLists,
                           kind : {"resource", "memory"}, size : Nat \ {0},
                           neverAllocate : BOOLEAN, canAlias : BOOLEAN]
  <1>1. call[t] \in CallSet /\ DOMAIN call = Threads
    BY DEF CallsLegal
  <1>2. \A r : /\ [call EXCEPT ![t] = r][t] = r
               /\ \A u \in Threads \ {t} : [call EXCEPT ![t] = r][u] = call[u]
    BY <1>1
  <1>3. \A r : r \in CallSet => [call EXCEPT ![t] = r] \in [Threads -> CallSet]
    BY DEF CallsLegal
  <1>4. \A s \in {"idle", "freeing", "deleting"} : [step |-> s] \in CallSet
    BY DEF CallSet
  <1>5. call[t].step \in {"trying", "creating"} =>
          call[t] \in [step : {"trying", "creating"}, attempts : AttemptLists,
                       kind : {"resource", "memory"}, size : Nat \ {0},
                       neverAllocate : BOOLEAN, canAlias : BOOLEAN]
    BY <1>1 DEF CallSet
  <1>6. QED
    BY <1>1, <1>2, <1>3, <1>4, <1>5

(* An update of what t is doing that keeps to the rules. *)
LEMMA CallChanges ==
  ASSUME CallsLegal, NEW t \in Threads, NEW r \in CallSet, call' = [call EXCEPT ![t] = r],
         r.step \in {"trying", "creating"} /\ r.neverAllocate => r.attempts = <<"placed">>
  PROVE  /\ CallsLegal' /\ call'[t] = r
         /\ \A u \in Threads \ {t} : call'[u] = call[u]
  <1>1. /\ call'[t] = r /\ call' \in [Threads -> CallSet]
        /\ \A u \in Threads \ {t} : call'[u] = call[u]
    BY CallFacts
  <1>2. QED
    BY <1>1 DEF CallsLegal

(* After a failed attempt the call is over or tries the rest of its list.  *)
LEMMA AfterFailure ==
  ASSUME CallsLegal, NEW t \in Threads, call[t].step \in {"trying", "creating"}, AttemptFailed(t)
  PROVE  /\ CallsLegal'
         /\ \A u \in Threads \ {t} : call'[u] = call[u]
         /\ Len(call[t].attempts) = 1 => call'[t] = Idle
         /\ call[t].neverAllocate => call'[t] = Idle
         /\ Len(call[t].attempts) # 1 =>
              /\ call'[t].step = "trying" /\ call'[t].attempts # <<"placed", "committed">>
              /\ call'[t].kind = call[t].kind /\ call'[t].canAlias = call[t].canAlias
  <1> DEFINE c == call[t]
             tried == [c EXCEPT !.step = "trying", !.attempts = Tail(c.attempts)]
             r == IF Len(c.attempts) = 1 THEN Idle ELSE tried
  <1>1. c \in [step : {"trying", "creating"}, attempts : AttemptLists,
               kind : {"resource", "memory"}, size : Nat \ {0},
               neverAllocate : BOOLEAN, canAlias : BOOLEAN]
    BY CallFacts
  <1>2. call' = [call EXCEPT ![t] = r]
    BY DEF AttemptFailed
  <1>3. c.neverAllocate => Len(c.attempts) = 1
    <2>1. c.neverAllocate => c.attempts = <<"placed">>
      BY DEF CallsLegal
    <2>2. Len(<<"placed">>) = 1
      OBVIOUS
    <2>3. QED
      BY <2>1, <2>2
  <1>4. Len(c.attempts) # 1 => Tail(c.attempts) \in AttemptLists /\ Tail(c.attempts) # <<"placed", "committed">>
    <2>1. PICK a \in AttemptLists : a = c.attempts
      BY <1>1
    <2>2. Len(a) # 1 => Tail(a) \in AttemptLists /\ Tail(a) # <<"placed", "committed">>
      BY AttemptsLeft
    <2>3. QED
      BY <2>1, <2>2
  <1>5. Len(c.attempts) # 1 =>
          /\ tried \in [step : {"trying", "creating"}, attempts : AttemptLists,
                        kind : {"resource", "memory"}, size : Nat \ {0},
                        neverAllocate : BOOLEAN, canAlias : BOOLEAN]
          /\ tried.step = "trying" /\ tried.attempts = Tail(c.attempts)
          /\ tried.kind = c.kind /\ tried.canAlias = c.canAlias
          /\ tried.neverAllocate = c.neverAllocate
    BY <1>1, <1>4
  <1> HIDE DEF tried
  <1>6. Idle \in CallSet /\ Idle.step = "idle"
    BY DEF Idle, CallSet
  <1>7. /\ r \in CallSet
        /\ r.step \in {"trying", "creating"} /\ r.neverAllocate => r.attempts = <<"placed">>
    BY <1>3, <1>5, <1>6 DEF CallSet
  <1>8. /\ CallsLegal' /\ call'[t] = r
        /\ \A u \in Threads \ {t} : call'[u] = call[u]
    <2> HIDE DEF r
    <2>1. QED
      BY <1>2, <1>7, CallChanges
  <1>9. QED
    BY <1>3, <1>4, <1>5, <1>8

(* A step that changes only where t is, its pending updates and whether    *)
(* its object is registered.                                               *)
LEMMA OnlyMine ==
  ASSUME IInv, NEW t \in Threads, UNCHANGED <<out, object, blocks, lock, budget>>,
         CallsLegal', DOMAIN counting' = Threads,
         \A u \in Threads \ {t} : call'[u] = call[u] /\ counting'[u] = counting[u],
         registered' = registered \/ registered' = registered \ {out[t]},
         Stage(t)', Counts(t, "allocationBytes")' <=> Counts(t, "allocationBytes"),
         Own(t) => (Counts(t, "blockBytes")' <=> Counts(t, "blockBytes")),
         AddsBlock(t)' <=> AddsBlock(t), Retires(t)' <=> Retires(t)
  PROVE  IInv'
  <1>1. \A b : PlacedIn(b)' = PlacedIn(b)
    BY DEF PlacedIn
  <1>2. OnlyStepOf(t)
    BY <1>1 DEF OnlyStepOf
  <1>3. Types'
    BY DEF IInv, Types, OwnHeap
  <1>4. Owned'
    BY DEF IInv, Owned, NothingLost
  <1>5. CountedBlocks' = CountedBlocks /\ Retiring' = Retiring
    BY <1>2, BlocksStay DEF Block
  <1>6. (Own(t) /\ Counts(t, "blockBytes"))' <=> (Own(t) /\ Counts(t, "blockBytes"))
    BY DEF Own, Holds
  <1>7. Sums'
    BY <1>2, <1>5, <1>6, SumsStay
  <1>8. BlocksHoldTheirs'
    BY <1>1 DEF IInv, BlocksHoldTheirs
  <1>9. QED
    BY <1>2, <1>3, <1>4, <1>7, <1>8, StepKeeps
-----------------------------------------------------------------------------
(* A call begins with an order of attempts. *)
LEMMA CallIInv ==
  ASSUME NoFallback, IInv, NEW t \in Threads, NEW r \in Requests, Call(t, r)
  PROVE  IInv'
  <1> DEFINE c == [step |-> "trying", attempts |-> Attempts(r), kind |-> r.kind,
                   size |-> r.size, neverAllocate |-> r.neverAllocate,
                   canAlias |-> r.canAlias]
  <1>1. r \in RequestType
    BY RequestsAssumption
  <1>2. /\ Attempts(r) # <<>> /\ At(t, "idle") /\ out[t] = NoObject
        /\ call' = [call EXCEPT ![t] = c]
        /\ UNCHANGED <<out, object, registered, blocks, lock, counting, budget>>
    BY DEF Call
  <1>3. Attempts(r) \in AttemptLists /\ (r.neverAllocate => Attempts(r) = <<"placed">>)
    BY <1>1, <1>2, AttemptsOf
  <1>4. /\ c \in CallSet /\ c.step = "trying"
        /\ c.kind = "resource" => ~ c.canAlias /\ c.attempts # <<"placed", "committed">>
        /\ c.neverAllocate => c.attempts = <<"placed">>
    BY <1>1, <1>3 DEF CallSet, RequestType, NoFallback
  <1> HIDE DEF c
  <1>5. CallsLegal
    BY DEF IInv, Types
  <1>6. CallsLegal' /\ call'[t] = c /\ \A u \in Threads \ {t} : call'[u] = call[u]
    BY <1>2, <1>4, <1>5, CallChanges
  <1>7. ~ Holds(t) /\ ~ Holds(t)'
    BY <1>2 DEF Holds
  <1>8. Stage(t)'
    BY <1>2, <1>4, <1>6, <1>7 DEF Stage, EmptyHanded, At
  <1>9. /\ \A k : Counts(t, k)' <=> Counts(t, k)
        /\ AddsBlock(t)' <=> AddsBlock(t)
        /\ Retires(t)' <=> Retires(t)
    BY <1>7 DEF Counts, AddsBlock, Retires, Placed
  <1>10. DOMAIN counting' = Threads
    BY <1>2 DEF IInv, Types
  <1>11. QED
    BY <1>2, <1>6, <1>8, <1>9, <1>10, OnlyMine

(* Either kind of memory fails before it is there. *)
LEMMA FailsIInv ==
  ASSUME IInv, NEW t \in Threads, AllocateCommittedFails(t) \/ AllocatePageFails(t)
  PROVE  IInv'
  <1>1. /\ call[t].step = "trying" /\ counting[t] = <<>> /\ AttemptFailed(t)
        /\ out' = out \/ out' = [out EXCEPT ![t] = NoObject]
        /\ UNCHANGED <<object, registered, blocks, lock, counting, budget>>
    BY DEF AllocateCommittedFails, AllocatePageFails, Trying, At
  <1>2. EmptyHanded(t)
    BY <1>1 DEF IInv, Stages, Stage, HoldsOwn, HoldsPlaced, Freeing, DeletesOwn, DeletesPlaced
  <1>3. out' = out
    BY <1>1, <1>2 DEF EmptyHanded, Holds, IInv, Types
  <1>4. CallsLegal
    BY DEF IInv, Types
  <1>5. /\ CallsLegal'
        /\ \A u \in Threads \ {t} : call'[u] = call[u]
        /\ Len(call[t].attempts) = 1 => call'[t] = Idle
        /\ Len(call[t].attempts) # 1 =>
             /\ call'[t].step = "trying" /\ call'[t].attempts # <<"placed", "committed">>
             /\ call'[t].kind = call[t].kind /\ call'[t].canAlias = call[t].canAlias
    BY <1>1, <1>4, AfterFailure
  <1>6. ~ Holds(t) /\ ~ Holds(t)'
    BY <1>2, <1>3 DEF EmptyHanded, Holds
  <1>7. Stage(t)'
    BY <1>1, <1>2, <1>5, <1>6 DEF Stage, EmptyHanded, Idle
  <1>8. /\ \A k : Counts(t, k)' <=> Counts(t, k)
        /\ AddsBlock(t)' <=> AddsBlock(t)
        /\ Retires(t)' <=> Retires(t)
    BY <1>6 DEF Counts, AddsBlock, Retires, Placed
  <1>9. DOMAIN counting' = Threads
    BY <1>1 DEF IInv, Types
  <1>10. QED
    BY <1>1, <1>3, <1>5, <1>7, <1>8, <1>9, OnlyMine

(* The placed resource is created or not: either way its memory is kept,   *)
(* and the call is over.                                                   *)
LEMMA CreatePlacedIInv ==
  ASSUME IInv, NEW t \in Threads, CreatePlacedResource(t) \/ CreatePlacedResourceFails(t)
  PROVE  IInv'
  <1>1. call[t].step = "creating" /\ counting[t] = <<>>
    BY DEF CreatePlacedResource, CreatePlacedResourceFails, At
  <1>2. HoldsPlaced(t)
    BY <1>1 DEF IInv, Stages, Stage, EmptyHanded, HoldsOwn, Freeing, DeletesOwn, DeletesPlaced
  <1>3. UNCHANGED <<out, object, registered, blocks, lock, counting, budget>>
    BY <1>2 DEF CreatePlacedResource, CreatePlacedResourceFails, HoldsPlaced, Placed
  <1>4. CallsLegal
    BY DEF IInv, Types
  <1>5. CallsLegal' /\ call'[t] = Idle /\ \A u \in Threads \ {t} : call'[u] = call[u]
    <2>1. CASE CreatePlacedResource(t)
      <3>1. call' = [call EXCEPT ![t] = Idle] /\ Idle \in CallSet /\ Idle.step = "idle"
        BY <2>1 DEF CreatePlacedResource, Idle, CallSet
      <3>2. QED
        BY <1>4, <3>1, CallChanges
    <2>2. CASE CreatePlacedResourceFails(t)
      <3>1. AttemptFailed(t) /\ call[t].attempts = <<"placed">>
        BY <1>1, <1>2, <2>2 DEF CreatePlacedResourceFails, HoldsPlaced
      <3>2. Len(call[t].attempts) = 1
        BY <3>1
      <3>3. QED
        BY <1>1, <1>4, <3>1, <3>2, AfterFailure
    <2>3. QED
      BY <2>1, <2>2
  <1>6. /\ Placed(t)' <=> Placed(t)
        /\ Holds(t)' <=> Holds(t)
        /\ \A k : Awaits(t, k)' <=> Awaits(t, k)
        /\ Block(t)' = Block(t)
    BY <1>3 DEF Placed, Holds, Awaits, Block
  <1>7. Stage(t)'
    BY <1>1, <1>2, <1>3, <1>5, <1>6 DEF Stage, HoldsPlaced, Idle
  <1>8. call'[t].step = "idle"
    BY <1>5 DEF Idle
  <1>9. /\ \A k : Counts(t, k)' <=> Counts(t, k)
        /\ AddsBlock(t)' <=> AddsBlock(t)
        /\ Retires(t)' <=> Retires(t)
    BY <1>1, <1>6, <1>8 DEF Counts, AddsBlock, Retires
  <1>10. DOMAIN counting' = Threads
    BY <1>3 DEF IInv, Types
  <1>11. QED
    BY <1>3, <1>5, <1>7, <1>9, <1>10, OnlyMine
-----------------------------------------------------------------------------
(* Whoever tries has empty hands; what is tried first tells what is left.  *)
LEMMA WhoTries ==
  ASSUME IInv, NEW t \in Threads, call[t].step = "trying", counting[t] = <<>>
  PROVE  /\ EmptyHanded(t) /\ ~ Holds(t) /\ out[t] = NoObject
         /\ call[t].size \in Nat \ {0} /\ call[t].attempts \in AttemptLists
         /\ call[t].kind = "resource" =>
              ~ call[t].canAlias /\ call[t].attempts # <<"placed", "committed">>
         /\ call[t] \in [step : {"trying", "creating"}, attempts : AttemptLists,
                         kind : {"resource", "memory"}, size : Nat \ {0},
                         neverAllocate : BOOLEAN, canAlias : BOOLEAN]
  <1>1. EmptyHanded(t)
    BY DEF IInv, Stages, Stage, HoldsOwn, HoldsPlaced, Freeing, DeletesOwn, DeletesPlaced
  <1>2. CallsLegal
    BY DEF IInv, Types
  <1>3. call[t] \in [step : {"trying", "creating"}, attempts : AttemptLists,
                     kind : {"resource", "memory"}, size : Nat \ {0},
                     neverAllocate : BOOLEAN, canAlias : BOOLEAN]
    BY <1>2, CallFacts
  <1>4. QED
    BY <1>1, <1>3 DEF EmptyHanded, Holds

(* The Allocation object of a call that got its memory. *)
LEMMA NewObjectFacts ==
  ASSUME Types, Owned, NEW t \in Threads, NEW o \in Objects \ DOMAIN object, out[t] = NoObject,
         NEW type, NEW block, [type |-> type, size |-> call[t].size, block |-> block] \in ObjectSet,
         NewObject(o, t, type, block)
  PROVE  /\ out'[t] = o /\ o # NoObject /\ DOMAIN out' = Threads
         /\ \A u \in Threads \ {t} : out'[u] = out[u]
         /\ DOMAIN object' = DOMAIN object \cup {o}
         /\ object'[o].size = call[t].size
         /\ \A p \in DOMAIN object : p # o /\ object'[p] = object[p]
         /\ object' \in [DOMAIN object' -> ObjectSet]
         /\ out' \in [Threads -> DOMAIN object' \cup {NoObject}]
         /\ DOMAIN object' \subseteq Objects
         /\ Owned'
  <1> DEFINE new == [type |-> type, size |-> call[t].size, block |-> block]
  <1>1. /\ object' = [p \in DOMAIN object \cup {o} |-> IF p = o THEN new ELSE object[p]]
        /\ out' = [out EXCEPT ![t] = o]
    BY DEF NewObject
  <1>2. new \in ObjectSet /\ new.type = type /\ new.size = call[t].size /\ new.block = block
    BY DEF ObjectSet
  <1> HIDE DEF new
  <1>3. o # NoObject /\ out \in [Threads -> DOMAIN object \cup {NoObject}]
    BY Assumed DEF Types
  <1>4. /\ out'[t] = o /\ DOMAIN out' = Threads
        /\ \A u \in Threads \ {t} : out'[u] = out[u]
    BY <1>1, <1>3
  <1>5. /\ DOMAIN object' = DOMAIN object \cup {o}
        /\ object'[o] = new
        /\ \A p \in DOMAIN object : p # o /\ object'[p] = object[p]
    BY <1>1
  <1>6. object' \in [DOMAIN object' -> ObjectSet]
    BY <1>1, <1>2, <1>5 DEF Types
  <1>7. out' \in [Threads -> DOMAIN object' \cup {NoObject}]
    BY <1>1, <1>3, <1>5
  <1>8. Owned'
    <2>1. \A u \in Threads \ {t} : out[u] # o
      BY <1>3 DEF Types
    <2>2. ASSUME NEW p \in DOMAIN object' PROVE \E u \in Threads : out'[u] = p
      <3>1. CASE p = o
        BY <1>4, <3>1
      <3>2. CASE p \in DOMAIN object
        <4>1. PICK u \in Threads : out[u] = p
          BY <3>2 DEF Owned, NothingLost
        <4>2. u # t
          BY <3>2, <4>1, Assumed DEF Types
        <4>3. QED
          BY <1>4, <4>1, <4>2
      <3>3. QED
        BY <1>5, <2>2, <3>1, <3>2
    <2>3. ASSUME NEW u \in Threads, NEW v \in Threads, out'[u] = out'[v], out'[u] # NoObject
          PROVE  u = v
      BY <1>4, <2>1, <2>3 DEF Owned
    <2>4. QED
      BY <2>2, <2>3 DEF Owned, NothingLost
  <1>9. DOMAIN object' \subseteq Objects
    BY <1>5 DEF Types
  <1>10. QED
    BY <1>2, <1>3, <1>4, <1>5, <1>6, <1>7, <1>8, <1>9 DEF new

(* Where the call goes with its memory. *)
LEMMA MemoryFacts ==
  ASSUME CallsLegal, NEW t \in Threads, call[t].step = "trying",
         NEW type, MemoryAllocated(t, type)
  PROVE  /\ CallsLegal' /\ \A u \in Threads \ {t} : call'[u] = call[u]
         /\ IF call[t].kind = "resource" /\ type # "COMMITTED"
              THEN /\ call'[t].step = "creating" /\ call'[t].kind = "resource"
                   /\ call'[t].attempts = call[t].attempts
              ELSE call'[t] = Idle /\ call'[t].step = "idle"
  <1> DEFINE made == [call[t] EXCEPT !.step = "creating"]
             r == IF call[t].kind = "resource" /\ type # "COMMITTED" THEN made ELSE Idle
  <1>1. call' = [call EXCEPT ![t] = r]
    BY DEF MemoryAllocated
  <1>2. call[t].neverAllocate => call[t].attempts = <<"placed">>
    BY DEF CallsLegal
  <1>3. call[t] \in [step : {"trying", "creating"}, attempts : AttemptLists,
                     kind : {"resource", "memory"}, size : Nat \ {0},
                     neverAllocate : BOOLEAN, canAlias : BOOLEAN]
    BY CallFacts
  <1>4. /\ made \in [step : {"trying", "creating"}, attempts : AttemptLists,
                     kind : {"resource", "memory"}, size : Nat \ {0},
                     neverAllocate : BOOLEAN, canAlias : BOOLEAN]
        /\ made.step = "creating" /\ made.attempts = call[t].attempts
        /\ made.kind = call[t].kind /\ made.neverAllocate = call[t].neverAllocate
    BY <1>3
  <1> HIDE DEF made
  <1>5. Idle \in CallSet /\ Idle.step = "idle"
    BY DEF Idle, CallSet
  <1>6. /\ r \in CallSet
        /\ r.step \in {"trying", "creating"} /\ r.neverAllocate => r.attempts = <<"placed">>
    BY <1>2, <1>4, <1>5 DEF CallSet
  <1>7. CallsLegal' /\ call'[t] = r /\ \A u \in Threads \ {t} : call'[u] = call[u]
    <2> HIDE DEF r
    <2>1. QED
      BY <1>1, <1>6, CallChanges
  <1>8. QED
    BY <1>4, <1>5, <1>7
-----------------------------------------------------------------------------
(* Committed memory is registered, and counted later. *)
LEMMA AllocateCommittedIInv ==
  ASSUME IInv, NEW t \in Threads, AllocateCommitted(t)
  PROVE  IInv'
  <1>1. call[t].step = "trying" /\ counting[t] = <<>>
    BY DEF AllocateCommitted, Trying, At
  <1>2. PICK o \in Objects \ DOMAIN object : NewObject(o, t, CommittedType(t), NoObject)
    BY DEF AllocateCommitted
  <1>3. /\ registered' = registered \cup {out'[t]}
        /\ counting' = [counting EXCEPT ![t] = CountCommitted(call[t].size)]
        /\ MemoryAllocated(t, CommittedType(t))
        /\ UNCHANGED <<blocks, lock, budget>>
    BY DEF AllocateCommitted
  <1>4. PICK type : /\ type = CommittedType(t) /\ type \in {"HEAP", "COMMITTED"}
                    /\ ~ (call[t].kind = "resource" /\ type # "COMMITTED")
    BY <1>1, WhoTries DEF CommittedType
  <1>5. Types /\ Owned /\ out[t] = NoObject /\ call[t].size \in Nat \ {0}
    BY <1>1, WhoTries DEF IInv
  <1>6. NewObject(o, t, type, NoObject) /\ MemoryAllocated(t, type)
    BY <1>2, <1>3, <1>4
  <1>7. /\ out'[t] = o /\ o # NoObject
        /\ \A u \in Threads \ {t} : out'[u] = out[u]
        /\ DOMAIN object' = DOMAIN object \cup {o}
        /\ object'[o].type = type /\ object'[o].size = call[t].size
        /\ \A p \in DOMAIN object : p # o /\ object'[p] = object[p]
        /\ object' \in [DOMAIN object' -> ObjectSet]
        /\ out' \in [Threads -> DOMAIN object' \cup {NoObject}]
        /\ DOMAIN object' \subseteq Objects /\ Owned'
    <2>1. [type |-> type, size |-> call[t].size, block |-> NoObject] \in ObjectSet
      BY <1>4, <1>5 DEF ObjectSet
    <2>2. /\ out'[t] = o /\ o # NoObject
          /\ \A u \in Threads \ {t} : out'[u] = out[u]
          /\ DOMAIN object' = DOMAIN object \cup {o}
      BY <1>5, <1>6, <2>1, NewObjectFacts
    <2>3. object'[o].type = type
      BY <1>6 DEF NewObject
    <2>4. object'[o].size = call[t].size
      BY <1>5, <1>6, <2>1, NewObjectFacts
    <2>5. \A p \in DOMAIN object : p # o /\ object'[p] = object[p]
      BY <1>5, <1>6, <2>1, NewObjectFacts
    <2>6. /\ object' \in [DOMAIN object' -> ObjectSet]
          /\ out' \in [Threads -> DOMAIN object' \cup {NoObject}]
      BY <1>5, <1>6, <2>1, NewObjectFacts
    <2>7. DOMAIN object' \subseteq Objects /\ Owned'
      BY <1>5, <1>6, <2>1, NewObjectFacts
    <2>8. QED
      BY <2>2, <2>3, <2>4, <2>5, <2>6, <2>7
  <1>8. /\ \A b \in BlockIds : PlacedIn(b)' = PlacedIn(b)
        /\ OwnHeap' = OwnHeap \cup {o}
    <2>1. \A b : PlacedIn(b)' = PlacedIn(b)
      BY <1>4, <1>7 DEF PlacedIn
    <2>2. OwnHeap' = OwnHeap \cup {o}
      BY <1>4, <1>7 DEF OwnHeap
    <2>3. QED
      BY <2>1, <2>2
  <1>9. CallsLegal' /\ call'[t].step = "idle" /\ \A u \in Threads \ {t} : call'[u] = call[u]
    BY <1>1, <1>4, <1>5, <1>6, MemoryFacts DEF Types
  <1>10. /\ DOMAIN counting' = Threads /\ counting'[t] = CountCommitted(call[t].size)
         /\ \A u \in Threads \ {t} : counting'[u] = counting[u]
    BY <1>3 DEF IInv, Types
  <1>11. Types'
    BY <1>3, <1>5, <1>7, <1>8, <1>9, <1>10 DEF Types
  <1>12. OnlyStepOf(t)
    BY <1>3, <1>7, <1>8, <1>9, <1>10 DEF OnlyStepOf
  <1>13. Holds(t)' /\ Own(t)' /\ ~ Placed(t)' /\ Size(t)' = call[t].size /\ out'[t] \in registered'
    BY <1>3, <1>4, <1>7 DEF Holds, Own, Placed, Size
  <1>14. Stage(t)'
    BY <1>9, <1>10, <1>13 DEF Stage, HoldsOwn, CountCommitted, AddBlock, AddAllocation
  <1>15. Awaits(t, "allocationBytes")' /\ Awaits(t, "blockBytes")'
    BY <1>10, Updates DEF Awaits, CountCommitted, AddBlock, AddAllocation
  <1>16. ~ Holds(t)
    BY <1>5 DEF Holds
  <1>17. /\ ~ Counts(t, "allocationBytes") /\ ~ Counts(t, "allocationBytes")'
         /\ ~ Counts(t, "blockBytes") /\ ~ Counts(t, "blockBytes")'
         /\ ~ AddsBlock(t) /\ ~ AddsBlock(t)' /\ ~ Retires(t) /\ ~ Retires(t)'
    BY <1>9, <1>13, <1>15, <1>16 DEF Counts, AddsBlock, Retires, Placed
  <1>18. CountedBlocks' = CountedBlocks /\ Retiring' = Retiring
    BY <1>3, <1>12, <1>17, BlocksStay
  <1>19. Sums'
    BY <1>3, <1>12, <1>17, <1>18, SumsStay
  <1>20. BlocksHoldTheirs'
    <2>1. \A b \in blocks' : b \in BlockIds /\ PlacedIn(b)' = PlacedIn(b)
      BY <1>3, <1>8 DEF IInv, Types
    <2>2. \A b \in blocks' : \A p \in PlacedIn(b)' : object'[p].size = object[p].size
      BY <1>7, <2>1 DEF PlacedIn
    <2>3. QED
      BY <1>3, <2>1, <2>2, RoomStays
  <1>21. QED
    BY <1>7, <1>11, <1>12, <1>14, <1>19, <1>20, StepKeeps

(* What both ways of placing an allocation in block b have in common; in a *)
(* new block the heap itself is still to be counted, too.                  *)
LEMMA PlacedIInv ==
  ASSUME IInv, NEW t \in Threads, NEW b \in BlockIds, NEW o \in Objects \ DOMAIN object,
         Trying(t, "placed"), lock = NoThread,
         NewObject(o, t, "PLACED", b), MemoryAllocated(t, "PLACED"), lock' = t,
         blocks' = blocks \cup {b}, UNCHANGED <<registered, budget>>,
         NEW pending, counting' = [counting EXCEPT ![t] = pending],
         \/ /\ pending = <<AddAllocation(call[t].size)>>
            /\ b \in blocks /\ Used(b) + call[t].size <= PreferredBlockSize
         \/ /\ pending = <<AddBlock(PreferredBlockSize), AddAllocation(call[t].size)>>
            /\ b \notin blocks /\ PlacedIn(b) = {} /\ call[t].size <= PreferredBlockSize
  PROVE  IInv'
  <1>1. call[t].step = "trying" /\ counting[t] = <<>>
    BY DEF Trying, At
  <1>2. /\ Types /\ Owned /\ out[t] = NoObject /\ call[t].size \in Nat \ {0}
        /\ call[t].attempts \in AttemptLists
        /\ call[t].kind = "resource" => call[t].attempts # <<"placed", "committed">>
    BY <1>1, WhoTries DEF IInv
  <1>3. call[t].kind = "resource" => call[t].attempts = <<"placed">>
    <2>1. Head(call[t].attempts) = "placed"
      BY DEF Trying
    <2>2. call[t].attempts \in {<<"placed">>, <<"placed", "committed">>}
      BY <1>2, <2>1, AttemptsLeft
    <2>3. QED
      BY <1>2, <2>2
  <1>4. /\ out'[t] = o /\ o # NoObject
        /\ \A u \in Threads \ {t} : out'[u] = out[u]
        /\ DOMAIN object' = DOMAIN object \cup {o}
        /\ object'[o].type = "PLACED" /\ object'[o].size = call[t].size /\ object'[o].block = b
        /\ \A p \in DOMAIN object : p # o /\ object'[p] = object[p]
        /\ object' \in [DOMAIN object' -> ObjectSet]
        /\ out' \in [Threads -> DOMAIN object' \cup {NoObject}]
        /\ DOMAIN object' \subseteq Objects /\ Owned'
    <2>1. [type |-> "PLACED", size |-> call[t].size, block |-> b] \in ObjectSet
      BY <1>2 DEF ObjectSet
    <2>2. /\ out'[t] = o /\ o # NoObject
          /\ \A u \in Threads \ {t} : out'[u] = out[u]
          /\ DOMAIN object' = DOMAIN object \cup {o}
      BY <1>2, <2>1, NewObjectFacts
    <2>3. object'[o].type = "PLACED"
      BY DEF NewObject
    <2>4. object'[o].size = call[t].size
      BY <1>2, <2>1, NewObjectFacts
    <2>5. object'[o].block = b
      BY DEF NewObject
    <2>6. \A p \in DOMAIN object : p # o /\ object'[p] = object[p]
      BY <1>2, <2>1, NewObjectFacts
    <2>7. /\ object' \in [DOMAIN object' -> ObjectSet]
          /\ out' \in [Threads -> DOMAIN object' \cup {NoObject}]
      BY <1>2, <2>1, NewObjectFacts
    <2>8. DOMAIN object' \subseteq Objects /\ Owned'
      BY <1>2, <2>1, NewObjectFacts
    <2>9. QED
      BY <2>2, <2>3, <2>4, <2>5, <2>6, <2>7, <2>8
  <1>5. /\ \A c \in BlockIds : PlacedIn(c)' = IF c = b THEN PlacedIn(c) \cup {o} ELSE PlacedIn(c)
        /\ OwnHeap' = OwnHeap
    <2>1. \A c : c # b => PlacedIn(c)' = PlacedIn(c)
      BY <1>4 DEF PlacedIn
    <2>2. PlacedIn(b)' = PlacedIn(b) \cup {o}
      BY <1>4 DEF PlacedIn
    <2>3. OwnHeap' = OwnHeap
      BY <1>4 DEF OwnHeap
    <2>4. QED
      BY <2>1, <2>2, <2>3
  <1>6. /\ CallsLegal' /\ \A u \in Threads \ {t} : call'[u] = call[u]
        /\ call'[t].step \in {"idle", "creating"}
        /\ call'[t].step = "creating" =>
             call'[t].kind = "resource" /\ call'[t].attempts = <<"placed">>
    BY <1>1, <1>2, <1>3, MemoryFacts DEF Types
  <1>7. /\ DOMAIN counting' = Threads /\ counting'[t] = pending
        /\ \A u \in Threads \ {t} : counting'[u] = counting[u]
    BY DEF IInv, Types
  <1>8. Types'
    BY <1>2, <1>4, <1>5, <1>6, <1>7 DEF Types
  <1>9. OnlyStepOf(t)
    BY <1>4, <1>5, <1>6, <1>7, Assumed DEF OnlyStepOf
  <1>10. Holds(t)' /\ Placed(t)' /\ ~ Own(t)' /\ Size(t)' = call[t].size /\ Block(t)' = b
    BY <1>4 DEF Holds, Placed, Own, Size, Block
  <1>11. ~ Holds(t)
    BY <1>2 DEF Holds
  <1>12. Stage(t)'
    <2>1. CASE pending = <<AddAllocation(call[t].size)>>
      BY <1>6, <1>7, <1>10, <2>1 DEF Stage, HoldsPlaced, AddAllocation
    <2>2. CASE /\ pending = <<AddBlock(PreferredBlockSize), AddAllocation(call[t].size)>>
               /\ PlacedIn(b) = {}
      <3>1. PlacedIn(b)' = {o}
        BY <1>5, <2>2
      <3>2. PlacedIn(Block(t))' = {o}
        BY <1>10, <3>1 DEF PlacedIn
      <3>3. InNewBlock(t)'
        BY <1>4, <1>7, <1>10, <2>2, <3>2 DEF InNewBlock, AddBlock, AddAllocation
      <3>4. QED
        BY <1>6, <1>10, <3>3 DEF Stage, HoldsPlaced
    <2>3. QED
      BY <2>1, <2>2
  <1>13. Awaits(t, "allocationBytes")'
    BY <1>7, Updates DEF Awaits, AddAllocation
  <1>14. /\ ~ Counts(t, "allocationBytes") /\ ~ Counts(t, "allocationBytes")'
         /\ ~ Own(t) /\ ~ AddsBlock(t) /\ ~ Retires(t) /\ ~ Retires(t)'
    BY <1>6, <1>10, <1>11, <1>13 DEF Counts, AddsBlock, Retires, Placed, Own
  <1>15. AddsBlock(t)' <=> b \notin blocks
    BY <1>6, <1>7, <1>10, Updates DEF AddsBlock, Awaits, AddAllocation, AddBlock
  <1>16. CountedBlocks' = CountedBlocks /\ Retiring' = Retiring
    <2>1. \A u \in Threads \ {t} : /\ AddsBlock(u)' <=> AddsBlock(u)
                                   /\ Retires(u)' <=> Retires(u)
                                   /\ AddsBlock(u) => Block(u)' = Block(u)
      BY <1>9, OthersStay DEF AddsBlock, Placed
    <2>2. Retiring' = Retiring
      BY <1>14, <2>1 DEF Retiring
    <2> DEFINE new == {Block(u) : u \in {v \in Threads : AddsBlock(v)}}
    <2>3. CASE b \in blocks
      <3>1. new' = new
        BY <1>14, <1>15, <2>1, <2>3
      <3>2. QED
        BY <2>2, <2>3, <3>1 DEF CountedBlocks
    <2>4. CASE b \notin blocks
      <3>1. new' = new \cup {b}
        <4>1. \A x : x \in new' <=> \E u \in Threads : AddsBlock(u)' /\ x = Block(u)'
          OBVIOUS
        <4>2. \A x : x \in new <=> \E u \in Threads : AddsBlock(u) /\ x = Block(u)
          OBVIOUS
        <4> HIDE DEF new
        <4>3. QED
          BY <1>10, <1>14, <1>15, <2>1, <2>4, <4>1, <4>2
      <3>2. QED
        BY <2>2, <2>4, <3>1 DEF CountedBlocks
    <2>5. QED
      BY <2>3, <2>4
  <1>17. Sums'
    BY <1>9, <1>10, <1>14, <1>16, SumsStay
  <1>18. BlocksHoldTheirs'
    <2>1. SUFFICES ASSUME NEW c \in blocks'
                   PROVE  Bytes(object', PlacedIn(c)') <= PreferredBlockSize
      BY DEF BlocksHoldTheirs
    <2>2. /\ c \in BlockIds /\ IsFiniteSet(PlacedIn(c)) /\ PlacedIn(c) \subseteq DOMAIN object
          /\ \A p \in PlacedIn(c) : object[p].size \in Int
      BY <1>2, ObjectFacts DEF Types
    <2>3. Bytes(object', PlacedIn(c)) = Bytes(object, PlacedIn(c))
      BY <1>4, <2>2, BytesSame
    <2>4. CASE c # b
      BY <1>5, <2>2, <2>3, <2>4 DEF IInv, BlocksHoldTheirs
    <2>5. CASE c = b
      <3>1. Bytes(object', PlacedIn(c)') = Bytes(object', PlacedIn(c)) + call[t].size
        <4>1. PlacedIn(c)' = PlacedIn(c) \cup {o} /\ o \notin PlacedIn(c)
          BY <1>5, <2>2, <2>5
        <4>2. \A p \in PlacedIn(c) \cup {o} : object'[p].size \in Int
          BY <1>2, <1>4, <2>2
        <4>3. QED
          BY <1>4, <2>2, <4>1, <4>2, BytesOfMore
      <3>2. CASE b \in blocks /\ Used(b) + call[t].size <= PreferredBlockSize
        BY <2>3, <2>5, <3>1, <3>2 DEF Used, Bytes
      <3>3. CASE PlacedIn(b) = {} /\ call[t].size <= PreferredBlockSize
        <4>1. Bytes(object, PlacedIn(c)) = 0
          BY <2>2, <2>5, <3>3, BytesRecursion
        <4>2. QED
          BY <1>2, <2>3, <3>1, <3>3, <4>1, Assumed
      <3>4. QED
        BY <3>2, <3>3
    <2>6. QED
      BY <2>4, <2>5
  <1>19. QED
    BY <1>4, <1>8, <1>9, <1>12, <1>17, <1>18, StepKeeps

(* AllocatePage in a block that is there. *)
LEMMA AllocateFromBlockIInv ==
  ASSUME IInv, NEW t \in Threads, AllocateFromBlock(t)
  PROVE  IInv'
  <1>1. PICK b \in blocks, o \in Objects \ DOMAIN object :
          Used(b) + call[t].size <= PreferredBlockSize /\ NewObject(o, t, "PLACED", b)
    BY DEF AllocateFromBlock
  <1>2. b \in BlockIds /\ blocks' = blocks \cup {b}
    BY <1>1 DEF AllocateFromBlock, IInv, Types
  <1>3. QED
    BY <1>1, <1>2, PlacedIInv DEF AllocateFromBlock

(* AllocatePage in a block of its own. *)
LEMMA AllocateInNewBlockIInv ==
  ASSUME IInv, NEW t \in Threads, AllocateInNewBlock(t)
  PROVE  IInv'
  <1>1. PICK b \in BlockIds \ (blocks \cup {object[o].block : o \in DOMAIN object}),
             o \in Objects \ DOMAIN object :
          blocks' = blocks \cup {b} /\ NewObject(o, t, "PLACED", b)
    BY DEF AllocateInNewBlock
  <1>2. PlacedIn(b) = {}
    BY <1>1 DEF PlacedIn
  <1>3. QED
    BY <1>1, <1>2, PlacedIInv DEF AllocateInNewBlock
-----------------------------------------------------------------------------
(* The allocation is counted out next, and its heap if it has one. *)
LEMMA ReleaseIInv ==
  ASSUME IInv, NEW t \in Threads, Release(t)
  PROVE  IInv'
  <1>1. /\ call[t].step = "idle" /\ counting[t] = <<>> /\ out[t] # NoObject
        /\ UNCHANGED <<out, object, blocks, lock, budget>>
    BY DEF Release, At
  <1>2. CallsLegal /\ DOMAIN counting = Threads
    BY DEF IInv, Types
  <1>3. /\ Holds(t) /\ Holds(t)' /\ Size(t)' = Size(t) /\ Block(t)' = Block(t)
        /\ Own(t)' <=> Own(t)
        /\ Placed(t)' <=> Placed(t)
    BY <1>1 DEF Holds, Size, Block, Own, Placed
  <1>4. \A c : ~ Awaits(t, c)
    BY <1>1, Updates DEF Awaits
  <1>5. CASE Placed(t)
    <2>1. /\ counting' = [counting EXCEPT ![t] = <<RemoveAllocation(Size(t))>>]
          /\ call' = [call EXCEPT ![t] = [step |-> "freeing"]]
          /\ registered' = registered
      BY <1>5 DEF Release, Placed, Size
    <2>2. HoldsPlaced(t)
      BY <1>1, <1>5 DEF IInv, Stages, Stage, EmptyHanded, HoldsOwn, Own, Placed, Freeing,
         DeletesOwn, DeletesPlaced
    <2>3. /\ DOMAIN counting' = Threads /\ counting'[t] = <<RemoveAllocation(Size(t))>>
          /\ \A u \in Threads \ {t} : counting'[u] = counting[u]
      BY <1>2, <2>1
    <2>4. CallsLegal' /\ call'[t] = [step |-> "freeing"] /\ \A u \in Threads \ {t} : call'[u] = call[u]
      <3>1. [step |-> "freeing"] \in CallSet /\ [step |-> "freeing"].step = "freeing"
        BY DEF CallSet
      <3>2. QED
        BY <1>2, <2>1, <3>1, CallChanges
    <2>5. call'[t].step = "freeing"
      BY <2>4
    <2>6. Freeing(t)'
      BY <1>1, <1>3, <1>5, <2>2, <2>3, <2>5 DEF Freeing, HoldsPlaced, RemoveAllocation
    <2>7. Awaits(t, "allocationBytes")' /\ ~ Awaits(t, "blockBytes")'
      BY <2>3, Updates DEF Awaits, RemoveAllocation
    <2>8. /\ Counts(t, "allocationBytes") /\ Counts(t, "allocationBytes")'
          /\ ~ Own(t) /\ ~ AddsBlock(t) /\ ~ AddsBlock(t)' /\ ~ Retires(t) /\ ~ Retires(t)'
      BY <1>1, <1>3, <1>4, <1>5, <2>5, <2>7 DEF Counts, AddsBlock, Retires, Own, Placed
    <2>9. Stage(t)'
      BY <2>6 DEF Stage
    <2>10. QED
      BY <1>1, <2>1, <2>3, <2>4, <2>8, <2>9, OnlyMine
  <1>6. CASE ~ Placed(t)
    <2>1. /\ counting' = [counting EXCEPT ![t] = UncountCommitted(Size(t))]
          /\ call' = [call EXCEPT ![t] = [step |-> "deleting"]]
          /\ registered' = registered \ {out[t]}
      BY <1>3, <1>6 DEF Release, Placed, Size
    <2>2. Own(t)
      BY <1>3, <1>6 DEF Own, Placed
    <2>3. /\ DOMAIN counting' = Threads /\ counting'[t] = UncountCommitted(Size(t))
          /\ \A u \in Threads \ {t} : counting'[u] = counting[u]
      BY <1>2, <2>1
    <2>4. CallsLegal' /\ call'[t] = [step |-> "deleting"] /\ \A u \in Threads \ {t} : call'[u] = call[u]
      <3>1. [step |-> "deleting"] \in CallSet /\ [step |-> "deleting"].step = "deleting"
        BY DEF CallSet
      <3>2. QED
        BY <1>2, <2>1, <3>1, CallChanges
    <2>5. call'[t].step = "deleting"
      BY <2>4
    <2>6. DeletesOwn(t)'
      BY <1>1, <1>3, <2>1, <2>2, <2>3, <2>5
         DEF DeletesOwn, UncountCommitted, RemoveAllocation, RemoveBlock
    <2>7. Awaits(t, "allocationBytes")' /\ Awaits(t, "blockBytes")'
      BY <2>3, Updates DEF Awaits, UncountCommitted, RemoveAllocation, RemoveBlock
    <2>8. /\ Counts(t, "allocationBytes") /\ Counts(t, "allocationBytes")'
          /\ Counts(t, "blockBytes") /\ Counts(t, "blockBytes")'
          /\ ~ AddsBlock(t) /\ ~ AddsBlock(t)' /\ ~ Retires(t) /\ ~ Retires(t)'
      BY <1>1, <1>3, <1>4, <1>6, <2>5, <2>7 DEF Counts, AddsBlock, Retires
    <2>9. Stage(t)'
      BY <2>6 DEF Stage
    <2>10. QED
      BY <1>1, <2>1, <2>3, <2>4, <2>8, <2>9, OnlyMine
  <1>7. QED
    BY <1>5, <1>6

(* While nobody has the lock there is no block still to be counted. *)
LEMMA NoNewBlock ==
  ASSUME IInv, lock = NoThread
  PROVE  (\A u \in Threads : ~ AddsBlock(u)) /\ CountedBlocks = blocks
  <1>1. ASSUME NEW u \in Threads, AddsBlock(u) PROVE FALSE
    <2>1. HoldsPlaced(u)
      BY <1>1 DEF IInv, Stages, Stage, AddsBlock, EmptyHanded, HoldsOwn, Own, Placed, Freeing,
         DeletesOwn, DeletesPlaced
    <2>2. counting[u] # <<>>
      BY <1>1, Updates DEF AddsBlock, Awaits
    <2>3. QED
      BY <2>1, <2>2, Assumed DEF HoldsPlaced
  <1>2. QED
    BY <1>1 DEF CountedBlocks

(* The allocation leaves its block; a block that has no others may go. *)
LEMMA FreePlacedIInv ==
  ASSUME IInv, NEW t \in Threads, FreePlaced(t)
  PROVE  IInv'
  <1>1. /\ call[t].step = "freeing" /\ counting[t] = <<>> /\ lock = NoThread
        /\ object' = [object EXCEPT ![out[t]].block = NoObject]
        /\ call' = [call EXCEPT ![t] = [step |-> "deleting"]]
        /\ UNCHANGED <<out, registered, lock, budget>>
    BY DEF FreePlaced, At
  <1>2. PICK retired \in {{}} \cup {{b} : b \in blocks} :
          /\ \A b \in retired : PlacedIn(b) \ {out[t]} = {}
          /\ blocks' = blocks \ retired
          /\ counting' = [counting EXCEPT ![t] =
                            IF retired = {} THEN <<>> ELSE <<RemoveBlock(PreferredBlockSize)>>]
    BY DEF FreePlaced, MayRetire
  <1>3. Freeing(t) /\ Types /\ Owned
    BY <1>1 DEF IInv, Stages, Stage, EmptyHanded, HoldsOwn, HoldsPlaced, DeletesOwn, DeletesPlaced
  <1>4. out[t] \in DOMAIN object /\ out[t] # NoObject /\ object[out[t]].type = "PLACED"
    BY <1>3, ObjectFacts DEF Freeing, Placed, Holds
  <1>5. /\ DOMAIN object' = DOMAIN object
        /\ \A o \in DOMAIN object : o # out[t] => object'[o] = object[o]
        /\ object'[out[t]] = [object[out[t]] EXCEPT !.block = NoObject]
    BY <1>1, <1>4
  <1>6. object[out[t]] \in ObjectSet
    BY <1>3, <1>4, ObjectFacts
  <1>7. /\ object'[out[t]] \in ObjectSet /\ object'[out[t]].type = "PLACED"
        /\ object'[out[t]].block = NoObject /\ object'[out[t]].size = object[out[t]].size
    BY <1>4, <1>5, <1>6 DEF ObjectSet
  <1>8. \A o \in DOMAIN object : /\ object'[o] \in ObjectSet
                                 /\ object'[o].type = object[o].type
                                 /\ object'[o].size = object[o].size
    BY <1>3, <1>4, <1>5, <1>7, ObjectFacts
  <1>9. object' \in [DOMAIN object' -> ObjectSet]
    <2>1. object' = [o \in DOMAIN object |-> object'[o]]
      BY <1>1, <1>3 DEF Types
    <2>2. QED
      BY <1>5, <1>8, <2>1
  <1>10. CallsLegal' /\ call'[t].step = "deleting" /\ \A u \in Threads \ {t} : call'[u] = call[u]
    <2>1. [step |-> "deleting"] \in CallSet /\ [step |-> "deleting"].step = "deleting"
      BY DEF CallSet
    <2>2. CallsLegal' /\ call'[t] = [step |-> "deleting"] /\ \A u \in Threads \ {t} : call'[u] = call[u]
      BY <1>1, <1>3, <2>1, CallChanges DEF Types
    <2>3. QED
      BY <2>2
  <1>11. /\ DOMAIN counting' = Threads
         /\ counting'[t] = IF retired = {} THEN <<>> ELSE <<RemoveBlock(PreferredBlockSize)>>
         /\ \A u \in Threads \ {t} : counting'[u] = counting[u]
    BY <1>2, <1>3 DEF Types
  <1>12. OwnHeap' = OwnHeap
    BY <1>5, <1>8 DEF OwnHeap
  <1>13. Types'
    BY <1>1, <1>2, <1>3, <1>5, <1>9, <1>10, <1>11, <1>12 DEF Types
  <1>14. \A b \in BlockIds : PlacedIn(b)' \subseteq PlacedIn(b)
    BY <1>5, <1>7, Assumed DEF PlacedIn
  <1>15. OnlyStepOf(t)
    <2>1. \A u \in Threads \ {t} : lock # u
      BY <1>1, Assumed
    <2>2. ASSUME NEW u \in Threads \ {t}, Placed(u), Block(u) \in blocks
          PROVE  Block(u) \in blocks'
      <3>1. out[u] \in DOMAIN object /\ out[u] # out[t]
        BY <1>3, <2>2, ObjectFacts DEF Placed, Holds, Owned
      <3>2. out[u] \in PlacedIn(Block(u)) \ {out[t]}
        BY <2>2, <3>1 DEF PlacedIn, Placed, Block
      <3>3. QED
        BY <1>2, <2>2, <3>2
    <2>3. QED
      BY <1>1, <1>5, <1>10, <1>11, <2>1, <2>2 DEF OnlyStepOf
  <1>16. Owned'
    <2>1. /\ DOMAIN out' = Threads /\ out'[t] = out[t]
          /\ \A o \in DOMAIN object' : o = out'[t] \/ o \in DOMAIN object \ {out[t]}
      BY <1>1, <1>3, <1>5 DEF Types
    <2>2. QED
      BY <1>15, <2>1, OwnersStay
  <1>17. Holds(t)' /\ Placed(t)' /\ ~ Own(t)' /\ ~ Own(t) /\ Block(t)' = NoObject
    BY <1>1, <1>4, <1>7 DEF Holds, Placed, Own, Block
  <1>18. Stage(t)'
    BY <1>10, <1>11, <1>17 DEF Stage, DeletesPlaced, RemoveBlock
  <1>19. /\ ~ Counts(t, "allocationBytes") /\ ~ Counts(t, "allocationBytes")'
         /\ ~ AddsBlock(t)' /\ ~ Retires(t)
         /\ Retires(t)' <=> retired # {}
    BY <1>1, <1>10, <1>11, <1>17, Updates DEF Counts, AddsBlock, Retires, Awaits, RemoveBlock
  <1>20. CountedBlocks = blocks /\ CountedBlocks' = blocks'
    <2>1. CountedBlocks = blocks /\ \A u \in Threads : ~ AddsBlock(u)
      BY <1>1, NoNewBlock
    <2>2. \A u \in Threads : ~ AddsBlock(u)'
      BY <1>15, <1>19, <2>1, OthersStay
    <2>3. QED
      BY <2>1, <2>2 DEF CountedBlocks
  <1>21. Retiring' = IF retired = {} THEN Retiring ELSE Retiring \cup {t}
    <2>1. \A u \in Threads \ {t} : Retires(u)' <=> Retires(u)
      BY <1>15, OthersStay
    <2>2. QED
      BY <1>19, <2>1 DEF Retiring
  <1>22. Cardinality(CountedBlocks') + Cardinality(Retiring')
           = Cardinality(CountedBlocks) + Cardinality(Retiring)
    <2>1. IsFiniteSet(blocks) /\ IsFiniteSet(Retiring) /\ t \notin Retiring
      BY <1>3, <1>19, ObjectFacts DEF Retiring
    <2>2. CASE retired = {}
      BY <1>2, <1>20, <1>21, <2>2
    <2>3. CASE retired # {}
      <3>1. PICK b \in blocks : retired = {b}
        BY <2>3
      <3>2. Cardinality(blocks \ {b}) = Cardinality(blocks) - 1 /\ Cardinality(blocks) \in Nat
        BY <2>1, FS_RemoveElement, FS_CardinalityType
      <3>3. Cardinality(Retiring \cup {t}) = Cardinality(Retiring) + 1 /\ Cardinality(Retiring) \in Nat
        BY <2>1, FS_AddElement, FS_CardinalityType
      <3>4. QED
        BY <1>2, <1>20, <1>21, <2>3, <3>1, <3>2, <3>3
    <2>4. QED
      BY <2>2, <2>3
  <1>23. Sums'
    BY <1>1, <1>15, <1>17, <1>19, <1>22, SumsStay
  <1>24. BlocksHoldTheirs'
    <2>1. \A b \in blocks' : b \in BlockIds
      BY <1>2, <1>3 DEF Types
    <2>2. \A b \in blocks' : \A p \in PlacedIn(b)' : object'[p].size = object[p].size
      BY <1>5, <1>8 DEF PlacedIn
    <2>3. QED
      BY <1>2, <1>14, <2>1, <2>2, RoomStays
  <1>25. QED
    BY <1>13, <1>15, <1>16, <1>18, <1>23, <1>24, StepKeeps

(* What the object had has gone before it. *)
LEMMA DeleteObjectIInv ==
  ASSUME IInv, NEW t \in Threads, DeleteObject(t)
  PROVE  IInv'
  <1>1. /\ call[t].step = "deleting" /\ counting[t] = <<>>
        /\ object' = [o \in DOMAIN object \ {out[t]} |-> object[o]]
        /\ out' = [out EXCEPT ![t] = NoObject]
        /\ call' = [call EXCEPT ![t] = Idle]
        /\ UNCHANGED <<registered, blocks, lock, counting, budget>>
    BY DEF DeleteObject, At
  <1>2. (DeletesOwn(t) \/ DeletesPlaced(t)) /\ Types /\ Owned
    BY <1>1 DEF IInv, Stages, Stage, EmptyHanded, HoldsOwn, HoldsPlaced, Freeing
  <1>3. Holds(t) /\ out[t] \in DOMAIN object /\ out[t] # NoObject
    BY <1>2, ObjectFacts DEF DeletesOwn, DeletesPlaced, Own, Placed, Holds
  <1>4. out[t] \notin registered
    BY <1>2 DEF DeletesOwn, DeletesPlaced, Placed, Types, OwnHeap
  <1>5. /\ DOMAIN object' = DOMAIN object \ {out[t]}
        /\ \A o \in DOMAIN object' : object'[o] = object[o]
        /\ object' \in [DOMAIN object' -> ObjectSet]
    BY <1>1, <1>2 DEF Types
  <1>6. /\ DOMAIN out' = Threads /\ out'[t] = NoObject
        /\ \A u \in Threads \ {t} : out'[u] = out[u]
    BY <1>1, <1>2 DEF Types
  <1>7. out' \in [Threads -> DOMAIN object' \cup {NoObject}]
    <2>1. \A u \in Threads : out'[u] \in DOMAIN object' \cup {NoObject}
      BY <1>2, <1>5, <1>6 DEF Types, Owned
    <2>2. out' = [u \in Threads |-> out'[u]]
      BY <1>1, <1>2 DEF Types
    <2>3. QED
      BY <2>1, <2>2
  <1>8. CallsLegal' /\ call'[t].step = "idle" /\ \A u \in Threads \ {t} : call'[u] = call[u]
    <2>1. Idle \in CallSet /\ Idle.step = "idle"
      BY DEF CallSet, Idle
    <2>2. CallsLegal' /\ call'[t] = Idle /\ \A u \in Threads \ {t} : call'[u] = call[u]
      BY <1>1, <1>2, <2>1, CallChanges DEF Types
    <2>3. QED
      BY <2>1, <2>2
  <1>9. registered' \subseteq OwnHeap'
    BY <1>1, <1>2, <1>4, <1>5 DEF OwnHeap, Types
  <1>10. Types'
    BY <1>1, <1>2, <1>5, <1>7, <1>8, <1>9 DEF Types
  <1>11. \A b \in BlockIds : PlacedIn(b)' = PlacedIn(b)
    <2>1. \A b \in BlockIds : out[t] \notin PlacedIn(b)
      BY <1>2, Assumed DEF PlacedIn, DeletesOwn, DeletesPlaced, Own, Block
    <2>2. QED
      BY <1>5, <2>1 DEF PlacedIn
  <1>12. OnlyStepOf(t)
    BY <1>1, <1>5, <1>6, <1>8, <1>11 DEF OnlyStepOf
  <1>13. Owned'
    BY <1>5, <1>6, <1>12, OwnersStay
  <1>14. ~ Holds(t)'
    BY <1>6 DEF Holds
  <1>15. Stage(t)'
    BY <1>1, <1>8, <1>14 DEF Stage, EmptyHanded
  <1>16. \A c : ~ Awaits(t, c)
    BY <1>1, Updates DEF Awaits
  <1>17. /\ \A c : ~ Counts(t, c) /\ ~ Counts(t, c)'
         /\ ~ AddsBlock(t) /\ ~ AddsBlock(t)' /\ ~ Retires(t) /\ ~ Retires(t)'
    BY <1>1, <1>14, <1>16 DEF Counts, AddsBlock, Retires, Placed
  <1>18. CountedBlocks' = CountedBlocks /\ Retiring' = Retiring
    BY <1>1, <1>12, <1>17, BlocksStay
  <1>19. Sums'
    BY <1>1, <1>12, <1>17, <1>18, SumsStay
  <1>20. BlocksHoldTheirs'
    <2>1. \A b \in blocks' : b \in BlockIds
      BY <1>1, <1>2 DEF Types
    <2>2. \A b \in blocks' : \A p \in PlacedIn(b)' : object'[p].size = object[p].size
      BY <1>5 DEF PlacedIn
    <2>3. QED
      BY <1>1, <1>11, <2>1, <2>2, RoomStays
  <1>21. QED
    BY <1>10, <1>12, <1>13, <1>15, <1>19, <1>20, StepKeeps
-----------------------------------------------------------------------------
(* What a counter sums, when only what t counts for changes. *)
LEMMA CountedMoves ==
  ASSUME IInv, NEW t \in Threads, OnlyStepOf(t), Holds(t), UNCHANGED <<out, object>>
  PROVE  /\ (Counts(t, "allocationBytes")' <=> Counts(t, "allocationBytes"))
              => Bytes(object', Counted') = Bytes(object, Counted)
         /\ Counts(t, "allocationBytes")' /\ ~ Counts(t, "allocationBytes")
              => Bytes(object', Counted') = Bytes(object, Counted) + Size(t)
         /\ Counts(t, "allocationBytes") /\ ~ Counts(t, "allocationBytes")'
              => Bytes(object', Counted') = Bytes(object, Counted) - Size(t)
  <1>1. \A u \in Threads : out[u] = out[t] => u = t
    BY DEF IInv, Owned, Holds
  <1>2. \A u \in Threads \ {t} : Counts(u, "allocationBytes")' <=> Counts(u, "allocationBytes")
    BY OthersStay
  <1>3. out[t] \in Counted <=> Counts(t, "allocationBytes")
    BY <1>1 DEF Counted
  <1>4. \A o : o \in Counted \ {out[t]} <=> o \in Counted' \ {out[t]}
    BY <1>1, <1>2 DEF Counted
  <1>5. out[t] \in Counted' <=> Counts(t, "allocationBytes")'
    BY <1>1 DEF Counted
  <1>6. /\ IsFiniteSet(Counted) /\ out[t] \in DOMAIN object
        /\ \A o \in Counted \cup {out[t]} : object[o].size \in Int
    BY ObjectFacts DEF IInv
  <1>7. (Counts(t, "allocationBytes")' <=> Counts(t, "allocationBytes")) => Counted' = Counted
    BY <1>3, <1>4, <1>5
  <1>8. ASSUME Counts(t, "allocationBytes")', ~ Counts(t, "allocationBytes")
        PROVE  Bytes(object', Counted') = Bytes(object, Counted) + Size(t)
    <2>1. Counted' = Counted \cup {out[t]} /\ out[t] \notin Counted
      BY <1>3, <1>4, <1>5, <1>8
    <2>2. Bytes(object, Counted \cup {out[t]}) = Bytes(object, Counted) + object[out[t]].size
      BY <1>6, <2>1, BytesOfMore
    <2>3. QED
      BY <2>1, <2>2 DEF Size
  <1>9. ASSUME Counts(t, "allocationBytes"), ~ Counts(t, "allocationBytes")'
        PROVE  Bytes(object', Counted') = Bytes(object, Counted) - Size(t)
    <2>1. Counted' = Counted \ {out[t]} /\ out[t] \in Counted
      BY <1>3, <1>4, <1>5, <1>9
    <2>2. /\ Bytes(object, Counted) = object[out[t]].size + Bytes(object, Counted \ {out[t]})
          /\ object[out[t]].size \in Int
      BY <1>6, <2>1, BytesOfOthers
    <2>3. Bytes(object, Counted \ {out[t]}) \in Int
      <3>1. IsFiniteSet(Counted \ {out[t]}) /\ \A o \in Counted \ {out[t]} : object[o].size \in Int
        BY <1>6, FS_Subset
      <3>2. QED
        BY <3>1, BytesRecursion
    <2>4. QED
      BY <2>1, <2>2, <2>3 DEF Size
  <1>10. QED
    BY <1>7, <1>8, <1>9

(* The same of heaps that are allocations' own. *)
LEMMA CountedOwnMoves ==
  ASSUME IInv, NEW t \in Threads, OnlyStepOf(t), Holds(t), UNCHANGED <<out, object>>
  PROVE  /\ (~ Own(t) \/ (Counts(t, "blockBytes")' <=> Counts(t, "blockBytes")))
              => Bytes(object', CountedOwn') = Bytes(object, CountedOwn)
         /\ Own(t) /\ Counts(t, "blockBytes")' /\ ~ Counts(t, "blockBytes")
              => Bytes(object', CountedOwn') = Bytes(object, CountedOwn) + Size(t)
         /\ Own(t) /\ Counts(t, "blockBytes") /\ ~ Counts(t, "blockBytes")'
              => Bytes(object', CountedOwn') = Bytes(object, CountedOwn) - Size(t)
  <1>1. (\A u \in Threads : out[u] = out[t] => u = t) /\ (Own(t)' <=> Own(t))
    BY DEF IInv, Owned, Holds, Own
  <1>2. \A u \in Threads \ {t} : /\ Own(u)' <=> Own(u)
                                 /\ Counts(u, "blockBytes")' <=> Counts(u, "blockBytes")
    BY OthersStay
  <1>3. out[t] \in CountedOwn <=> Own(t) /\ Counts(t, "blockBytes")
    BY <1>1 DEF CountedOwn
  <1>4. \A o : o \in CountedOwn \ {out[t]} <=> o \in CountedOwn' \ {out[t]}
    BY <1>1, <1>2 DEF CountedOwn
  <1>5. out[t] \in CountedOwn' <=> Own(t) /\ Counts(t, "blockBytes")'
    BY <1>1 DEF CountedOwn
  <1>6. /\ IsFiniteSet(CountedOwn) /\ out[t] \in DOMAIN object
        /\ \A o \in CountedOwn \cup {out[t]} : object[o].size \in Int
    BY ObjectFacts DEF IInv
  <1>7. (~ Own(t) \/ (Counts(t, "blockBytes")' <=> Counts(t, "blockBytes"))) => CountedOwn' = CountedOwn
    BY <1>3, <1>4, <1>5
  <1>8. ASSUME Own(t), Counts(t, "blockBytes")', ~ Counts(t, "blockBytes")
        PROVE  Bytes(object', CountedOwn') = Bytes(object, CountedOwn) + Size(t)
    <2>1. CountedOwn' = CountedOwn \cup {out[t]} /\ out[t] \notin CountedOwn
      BY <1>3, <1>4, <1>5, <1>8
    <2>2. Bytes(object, CountedOwn \cup {out[t]}) = Bytes(object, CountedOwn) + object[out[t]].size
      BY <1>6, <2>1, BytesOfMore
    <2>3. QED
      BY <2>1, <2>2 DEF Size
  <1>9. ASSUME Own(t), Counts(t, "blockBytes"), ~ Counts(t, "blockBytes")'
        PROVE  Bytes(object', CountedOwn') = Bytes(object, CountedOwn) - Size(t)
    <2>1. CountedOwn' = CountedOwn \ {out[t]} /\ out[t] \in CountedOwn
      BY <1>3, <1>4, <1>5, <1>9
    <2>2. /\ Bytes(object, CountedOwn) = object[out[t]].size + Bytes(object, CountedOwn \ {out[t]})
          /\ object[out[t]].size \in Int
      BY <1>6, <2>1, BytesOfOthers
    <2>3. Bytes(object, CountedOwn \ {out[t]}) \in Int
      <3>1. IsFiniteSet(CountedOwn \ {out[t]}) /\ \A o \in CountedOwn \ {out[t]} : object[o].size \in Int
        BY <1>6, FS_Subset
      <3>2. QED
        BY <3>1, BytesRecursion
    <2>4. QED
      BY <2>1, <2>2, <2>3 DEF Size
  <1>10. QED
    BY <1>7, <1>8, <1>9

(* A new block is counted; a block let go no longer is. *)
LEMMA BlocksMove ==
  ASSUME IInv, NEW t \in Threads, OnlyStepOf(t), UNCHANGED <<out, object, blocks>>
  PROVE  /\ AddsBlock(t) /\ ~ AddsBlock(t)' /\ Block(t) \in blocks /\ PlacedIn(Block(t)) = {out[t]}
              => Cardinality(CountedBlocks') = Cardinality(CountedBlocks) + 1
         /\ (AddsBlock(t)' <=> AddsBlock(t)) => CountedBlocks' = CountedBlocks
         /\ Retires(t) /\ ~ Retires(t)'
              => Cardinality(Retiring') = Cardinality(Retiring) - 1
         /\ (Retires(t)' <=> Retires(t)) => Retiring' = Retiring
  <1>1. \A u \in Threads \ {t} : /\ AddsBlock(u)' <=> AddsBlock(u)
                                 /\ Retires(u)' <=> Retires(u)
    BY OthersStay
  <1>2. \A u : Block(u)' = Block(u)
    BY DEF Block
  <1>3. IsFiniteSet(CountedBlocks) /\ IsFiniteSet(Retiring)
    BY ObjectFacts DEF IInv
  <1>4. ASSUME AddsBlock(t), ~ AddsBlock(t)', Block(t) \in blocks, PlacedIn(Block(t)) = {out[t]}
        PROVE  Cardinality(CountedBlocks') = Cardinality(CountedBlocks) + 1
    <2>1. ASSUME NEW u \in Threads \ {t}, AddsBlock(u) PROVE Block(u) # Block(t)
      <3>1. out[u] \in DOMAIN object /\ object[out[u]].type = "PLACED" /\ out[u] # out[t]
        BY <2>1 DEF IInv, Types, Owned, AddsBlock, Placed, Holds
      <3>2. out[u] \in PlacedIn(Block(u))
        BY <3>1 DEF PlacedIn, Block
      <3>3. QED
        BY <1>4, <3>1, <3>2
    <2> DEFINE new == {Block(u) : u \in {v \in Threads : AddsBlock(v)}}
    <2>2. \A b : b \in new <=> \E u \in Threads : AddsBlock(u) /\ b = Block(u)
      OBVIOUS
    <2>3. \A b : b \in new' <=> \E u \in Threads : AddsBlock(u)' /\ b = Block(u)'
      OBVIOUS
    <2>4. CountedBlocks = blocks \ new /\ CountedBlocks' = blocks' \ new'
      BY DEF CountedBlocks
    <2> HIDE DEF new
    <2>5. new = new' \cup {Block(t)} /\ Block(t) \notin new'
      BY <1>1, <1>2, <1>4, <2>1, <2>2, <2>3
    <2>6. CountedBlocks' = CountedBlocks \cup {Block(t)} /\ Block(t) \notin CountedBlocks
      BY <1>4, <2>4, <2>5
    <2>7. QED
      BY <1>3, <2>6, FS_AddElement
  <1>5. (AddsBlock(t)' <=> AddsBlock(t)) => CountedBlocks' = CountedBlocks
    BY <1>1, <1>2 DEF CountedBlocks
  <1>6. ASSUME Retires(t), ~ Retires(t)'
        PROVE  Cardinality(Retiring') = Cardinality(Retiring) - 1
    <2>1. Retiring' = Retiring \ {t} /\ t \in Retiring
      BY <1>1, <1>6 DEF Retiring
    <2>2. QED
      BY <1>3, <2>1, FS_RemoveElement
  <1>7. (Retires(t)' <=> Retires(t)) => Retiring' = Retiring
    BY <1>1 DEF Retiring
  <1>8. QED
    BY <1>4, <1>5, <1>6, <1>7
-----------------------------------------------------------------------------
(* One update of the budget, and all that it leaves alone. *)
LEMMA CountFacts ==
  ASSUME IInv, NEW t \in Threads, Count(t), Holds(t), NEW n \in Int,
         Head(counting[t]) = AddBlock(n) \/ Head(counting[t]) = AddAllocation(n)
  PROVE  /\ OnlyStepOf(t) /\ Types' /\ Owned' /\ BlocksHoldTheirs'
         /\ UNCHANGED <<call, out, object, registered, blocks>>
         /\ counting'[t] = Tail(counting[t])
         /\ lock' = IF lock = t /\ Tail(counting[t]) = <<>> THEN NoThread ELSE lock
         /\ Head(counting[t]) = AddBlock(n) =>
              /\ budget'.blockBytes = budget.blockBytes + n
              /\ budget'.allocationBytes = budget.allocationBytes
         /\ Head(counting[t]) = AddAllocation(n) =>
              /\ budget'.allocationBytes = budget.allocationBytes + n
              /\ budget'.blockBytes = budget.blockBytes
  <1>1. UNCHANGED <<call, out, object, registered, blocks>>
    BY DEF Count
  <1>2. /\ DOMAIN counting' = Threads /\ counting'[t] = Tail(counting[t])
        /\ \A u \in Threads \ {t} : counting'[u] = counting[u]
    <2>1. DOMAIN counting = Threads /\ counting' = [counting EXCEPT ![t] = Tail(counting[t])]
      BY DEF IInv, Types, Count
    <2>2. QED
      BY <2>1
  <1>3. lock' = IF lock = t /\ Tail(counting[t]) = <<>> THEN NoThread ELSE lock
    BY DEF Count
  <1>4. \A b : PlacedIn(b)' = PlacedIn(b)
    BY <1>1 DEF PlacedIn
  <1>5. budget \in [blockBytes : Int, allocationBytes : Int]
    BY DEF IInv, Types
  <1>6. ASSUME Head(counting[t]) = AddBlock(n)
        PROVE  /\ budget' \in [blockBytes : Int, allocationBytes : Int]
               /\ budget'.blockBytes = budget.blockBytes + n
               /\ budget'.allocationBytes = budget.allocationBytes
    <2>1. budget' = [budget EXCEPT !["blockBytes"] = budget["blockBytes"] + n]
      <3>1. Head(counting[t]).counter = "blockBytes" /\ Head(counting[t]).delta = n
        BY <1>6 DEF AddBlock
      <3>2. QED
        BY <3>1 DEF Count
    <2>2. QED
      BY <1>5, <2>1
  <1>7. ASSUME Head(counting[t]) = AddAllocation(n)
        PROVE  /\ budget' \in [blockBytes : Int, allocationBytes : Int]
               /\ budget'.allocationBytes = budget.allocationBytes + n
               /\ budget'.blockBytes = budget.blockBytes
    <2>1. budget' = [budget EXCEPT !["allocationBytes"] = budget["allocationBytes"] + n]
      <3>1. Head(counting[t]).counter = "allocationBytes" /\ Head(counting[t]).delta = n
        BY <1>7 DEF AddAllocation
      <3>2. QED
        BY <3>1 DEF Count
    <2>2. QED
      BY <1>5, <2>1
  <1>8. OnlyStepOf(t)
    BY <1>1, <1>2, <1>3, <1>4 DEF OnlyStepOf
  <1>9. Types'
    <2>1. budget' \in [blockBytes : Int, allocationBytes : Int]
      BY <1>6, <1>7
    <2>2. CallsLegal' /\ OwnHeap' = OwnHeap
      BY <1>1 DEF IInv, Types, CallsLegal, OwnHeap
    <2>3. QED
      BY <1>1, <1>2, <1>3, <2>1, <2>2 DEF IInv, Types
  <1>10. Owned' /\ BlocksHoldTheirs'
    BY <1>1, <1>4 DEF IInv, Owned, NothingLost, BlocksHoldTheirs
  <1>11. QED
    BY <1>1, <1>2, <1>3, <1>6, <1>7, <1>8, <1>9, <1>10

(* What an update of t does not change about what it has. *)
LEMMA SameHeld ==
  ASSUME NEW t, UNCHANGED <<call, out, object>>
  PROVE  /\ Holds(t)' <=> Holds(t)
         /\ Own(t)' <=> Own(t)
         /\ Placed(t)' <=> Placed(t)
         /\ Size(t)' = Size(t) /\ Block(t)' = Block(t)
         /\ call'[t].step = call[t].step
         /\ PlacedIn(Block(t))' = PlacedIn(Block(t))
  BY DEF Holds, Own, Placed, Size, Block, PlacedIn

(* The bytes of an allocation are added or taken away. *)
LEMMA AllocationCounted ==
  ASSUME IInv, NEW t \in Threads, OnlyStepOf(t), Holds(t), UNCHANGED <<out, object, blocks>>,
         budget'.blockBytes = budget.blockBytes,
         \/ /\ budget'.allocationBytes = budget.allocationBytes + Size(t)
            /\ Counts(t, "allocationBytes")' /\ ~ Counts(t, "allocationBytes")
         \/ /\ budget'.allocationBytes = budget.allocationBytes - Size(t)
            /\ Counts(t, "allocationBytes") /\ ~ Counts(t, "allocationBytes")',
         ~ Own(t) \/ (Counts(t, "blockBytes")' <=> Counts(t, "blockBytes")),
         AddsBlock(t)' <=> AddsBlock(t), Retires(t)' <=> Retires(t)
  PROVE  Sums'
  <1>1. CountedBlocks' = CountedBlocks /\ Retiring' = Retiring
    BY BlocksMove
  <1>2. Bytes(object', CountedOwn') = Bytes(object, CountedOwn)
    BY CountedOwnMoves
  <1>3. \/ /\ budget'.allocationBytes = budget.allocationBytes + Size(t)
           /\ Bytes(object', Counted') = Bytes(object, Counted) + Size(t)
        \/ /\ budget'.allocationBytes = budget.allocationBytes - Size(t)
           /\ Bytes(object', Counted') = Bytes(object, Counted) - Size(t)
    BY CountedMoves
  <1>4. QED
    BY <1>1, <1>2, <1>3 DEF IInv, Sums

(* ... or those of an allocation's own heap. *)
LEMMA OwnHeapCounted ==
  ASSUME IInv, NEW t \in Threads, OnlyStepOf(t), Own(t), UNCHANGED <<out, object, blocks>>,
         budget'.allocationBytes = budget.allocationBytes,
         \/ /\ budget'.blockBytes = budget.blockBytes + Size(t)
            /\ Counts(t, "blockBytes")' /\ ~ Counts(t, "blockBytes")
         \/ /\ budget'.blockBytes = budget.blockBytes - Size(t)
            /\ Counts(t, "blockBytes") /\ ~ Counts(t, "blockBytes")',
         Counts(t, "allocationBytes")' <=> Counts(t, "allocationBytes"),
         AddsBlock(t)' <=> AddsBlock(t), Retires(t)' <=> Retires(t)
  PROVE  Sums'
  <1>1. CountedBlocks' = CountedBlocks /\ Retiring' = Retiring
    BY BlocksMove
  <1>2. Holds(t)
    BY DEF Own
  <1>3. Bytes(object', Counted') = Bytes(object, Counted)
    BY <1>2, CountedMoves
  <1>4. \/ /\ budget'.blockBytes = budget.blockBytes + Size(t)
           /\ Bytes(object', CountedOwn') = Bytes(object, CountedOwn) + Size(t)
        \/ /\ budget'.blockBytes = budget.blockBytes - Size(t)
           /\ Bytes(object', CountedOwn') = Bytes(object, CountedOwn) - Size(t)
    BY <1>2, CountedOwnMoves
  <1>5. PICK s, c, w : /\ s = Size(t) /\ w = Bytes(object, CountedOwn)
                       /\ c = PreferredBlockSize * (Cardinality(CountedBlocks) + Cardinality(Retiring))
    OBVIOUS
  <1>6. s \in Int /\ w \in Int /\ c \in Int
    <2>1. s \in Int
      BY <1>2, <1>5, ObjectFacts DEF IInv, Size
    <2>2. w \in Int
      BY <1>5, ObjectFacts, BytesRecursion DEF IInv
    <2>3. Cardinality(CountedBlocks) \in Nat /\ Cardinality(Retiring) \in Nat
      BY ObjectFacts, FS_CardinalityType DEF IInv
    <2>4. QED
      BY <1>5, <2>1, <2>2, <2>3, Assumed
  <1>7. budget.blockBytes = c + w
    BY <1>5 DEF IInv, Sums
  <1>8. budget'.blockBytes = c + Bytes(object', CountedOwn')
    BY <1>4, <1>5, <1>6, <1>7
  <1>9. budget'.allocationBytes = Bytes(object', Counted')
    BY <1>3 DEF IInv, Sums
  <1>10. QED
    BY <1>1, <1>5, <1>8, <1>9 DEF Sums

(* ... or those of a whole block. *)
LEMMA BlockCounted ==
  ASSUME IInv, NEW t \in Threads, OnlyStepOf(t), Placed(t), UNCHANGED <<out, object, blocks>>,
         budget'.allocationBytes = budget.allocationBytes,
         \/ /\ budget'.blockBytes = budget.blockBytes + PreferredBlockSize
            /\ AddsBlock(t) /\ ~ AddsBlock(t)' /\ (Retires(t)' <=> Retires(t))
            /\ Block(t) \in blocks /\ PlacedIn(Block(t)) = {out[t]}
         \/ /\ budget'.blockBytes = budget.blockBytes - PreferredBlockSize
            /\ Retires(t) /\ ~ Retires(t)' /\ (AddsBlock(t)' <=> AddsBlock(t)),
         Counts(t, "allocationBytes")' <=> Counts(t, "allocationBytes")
  PROVE  Sums'
  <1>1. Holds(t) /\ ~ Own(t)
    BY DEF Placed, Own
  <1>2. Bytes(object', Counted') = Bytes(object, Counted)
    BY <1>1, CountedMoves
  <1>3. Bytes(object', CountedOwn') = Bytes(object, CountedOwn)
    BY <1>1, CountedOwnMoves
  <1>4. PICK p, c, r, w : /\ p = PreferredBlockSize /\ w = Bytes(object, CountedOwn)
                          /\ c = Cardinality(CountedBlocks) /\ r = Cardinality(Retiring)
    OBVIOUS
  <1>5. p \in Int /\ c \in Int /\ r \in Int /\ w \in Int
    <2>1. w \in Int
      BY <1>4, ObjectFacts, BytesRecursion DEF IInv
    <2>2. Cardinality(CountedBlocks) \in Nat /\ Cardinality(Retiring) \in Nat
      BY ObjectFacts, FS_CardinalityType DEF IInv
    <2>3. QED
      BY <1>4, <2>1, <2>2, Assumed
  <1>6. p * (c + r + 1) = p * (c + r) + p /\ p * (c + r - 1) = p * (c + r) - p
    BY <1>5
  <1>7. budget.blockBytes = p * (c + r) + w
    BY <1>4 DEF IInv, Sums
  <1>8. budget'.allocationBytes = Bytes(object', Counted')
    BY <1>2 DEF IInv, Sums
  <1>9. CASE /\ budget'.blockBytes = budget.blockBytes + PreferredBlockSize
             /\ AddsBlock(t) /\ ~ AddsBlock(t)' /\ (Retires(t)' <=> Retires(t))
             /\ Block(t) \in blocks /\ PlacedIn(Block(t)) = {out[t]}
    <2>1. Cardinality(CountedBlocks') = c + 1 /\ Retiring' = Retiring
      BY <1>4, <1>9, BlocksMove
    <2>2. PICK x : x = p * (c + r)
      OBVIOUS
    <2>3. x \in Int /\ p * (c + 1 + r) = x + p /\ c + 1 + r = c + r + 1
      BY <1>5, <1>6, <2>2
    <2>4. budget'.blockBytes = p * (c + 1 + r) + w
      BY <1>4, <1>5, <1>7, <1>9, <2>2, <2>3
    <2>5. QED
      BY <1>3, <1>4, <1>8, <2>1, <2>4 DEF Sums
  <1>10. CASE /\ budget'.blockBytes = budget.blockBytes - PreferredBlockSize
              /\ Retires(t) /\ ~ Retires(t)' /\ (AddsBlock(t)' <=> AddsBlock(t))
    <2>1. CountedBlocks' = CountedBlocks /\ Cardinality(Retiring') = r - 1
      BY <1>4, <1>10, BlocksMove
    <2>2. PICK x : x = p * (c + r)
      OBVIOUS
    <2>3. x \in Int /\ p * (c + (r - 1)) = x - p /\ c + (r - 1) = c + r - 1
      BY <1>5, <1>6, <2>2
    <2>4. budget'.blockBytes = p * (c + (r - 1)) + w
      BY <1>4, <1>5, <1>7, <1>10, <2>2, <2>3
    <2>5. QED
      BY <1>3, <1>4, <1>8, <2>1, <2>4 DEF Sums
  <1>11. QED
    BY <1>9, <1>10
-----------------------------------------------------------------------------
(* The next update of the budget, in each of the stages that have one.     *)
LEMMA CountIInv ==
  ASSUME IInv, NEW t \in Threads, Count(t)
  PROVE  IInv'
  <1>1. counting[t] # <<>> /\ Stage(t)
    BY DEF Count, IInv, Stages
  <1>2. Holds(t)
    BY <1>1 DEF Stage, EmptyHanded, HoldsOwn, Own, HoldsPlaced, Placed, Freeing, DeletesOwn, DeletesPlaced
  <1>3. PICK n, p : n = Size(t) /\ p = PreferredBlockSize
    OBVIOUS
  <1>4. n \in Int /\ - n \in Int /\ p \in Int /\ - p \in Int
    BY <1>2, <1>3, Assumed, ObjectFacts DEF IInv, Size
  <1>5. /\ RemoveBlock(n) = AddBlock(- n) /\ RemoveBlock(p) = AddBlock(- p)
        /\ RemoveAllocation(n) = AddAllocation(- n)
    BY DEF RemoveBlock, AddBlock, RemoveAllocation, AddAllocation
  <1>6. /\ \A i : AddBlock(i).counter = "blockBytes" /\ AddAllocation(i).counter = "allocationBytes"
        /\ \A i, j : AddBlock(i) # AddAllocation(j)
    BY DEF AddBlock, AddAllocation
  <1>7. UNCHANGED <<call, out, object, registered, blocks>>
    BY DEF Count
  <1>8. /\ Holds(t)' <=> Holds(t)
        /\ Own(t)' <=> Own(t)
        /\ Placed(t)' <=> Placed(t)
        /\ Size(t)' = Size(t) /\ Block(t)' = Block(t)
        /\ call'[t].step = call[t].step
        /\ PlacedIn(Block(t))' = PlacedIn(Block(t))
    BY <1>7, SameHeld
  <1>9. SUFFICES ASSUME OnlyStepOf(t) /\ Types' /\ Owned' /\ BlocksHoldTheirs'
                 PROVE  Stage(t)' /\ Sums'
    <2>1. OnlyStepOf(t) /\ Types' /\ Owned' /\ BlocksHoldTheirs'
      <3>1. \E m \in {n, - n, p, - p} :
              Head(counting[t]) = AddBlock(m) \/ Head(counting[t]) = AddAllocation(m)
        <4>1. counting[t] \in {<<AddAllocation(n)>>, <<AddBlock(n), AddAllocation(n)>>,
                 <<AddBlock(p), AddAllocation(n)>>, <<AddAllocation(- n)>>, <<AddBlock(- n)>>,
                 <<AddAllocation(- n), AddBlock(- n)>>, <<AddBlock(- p)>>}
          <5>1. CountCommitted(n) = <<AddBlock(n), AddAllocation(n)>>
            BY DEF CountCommitted
          <5>2. UncountCommitted(n) = <<AddAllocation(- n), AddBlock(- n)>>
            BY <1>5 DEF UncountCommitted
          <5>3. CASE EmptyHanded(t)
            BY <1>1, <5>3 DEF EmptyHanded
          <5>4. CASE HoldsOwn(t)
            BY <1>1, <1>3, <5>1, <5>4 DEF HoldsOwn
          <5>5. CASE HoldsPlaced(t)
            BY <1>1, <1>3, <5>5 DEF HoldsPlaced, InNewBlock
          <5>6. CASE Freeing(t)
            BY <1>1, <1>3, <1>5, <5>6 DEF Freeing
          <5>7. CASE DeletesOwn(t)
            BY <1>1, <1>3, <1>5, <5>2, <5>7 DEF DeletesOwn
          <5>8. CASE DeletesPlaced(t)
            BY <1>1, <1>3, <1>5, <5>8 DEF DeletesPlaced
          <5>9. QED
            BY <1>1, <5>3, <5>4, <5>5, <5>6, <5>7, <5>8 DEF Stage
        <4>2. QED
          BY <4>1, Updates
      <3>2. QED
        BY <1>2, <1>4, <3>1, CountFacts
    <2>2. QED
      BY <2>1, StepKeeps
  <1>10. \A m \in Int :
           /\ Head(counting[t]) = AddBlock(m) =>
                /\ budget'.blockBytes = budget.blockBytes + m
                /\ budget'.allocationBytes = budget.allocationBytes
           /\ Head(counting[t]) = AddAllocation(m) =>
                /\ budget'.allocationBytes = budget.allocationBytes + m
                /\ budget'.blockBytes = budget.blockBytes
    BY <1>2, CountFacts
  <1>11. /\ counting'[t] = Tail(counting[t])
         /\ lock' = IF lock = t /\ Tail(counting[t]) = <<>> THEN NoThread ELSE lock
    <2>1. counting' = [counting EXCEPT ![t] = Tail(counting[t])] /\ DOMAIN counting = Threads
      BY DEF Count, IInv, Types
    <2>2. QED
      BY <2>1 DEF Count
  <1>12. /\ budget.blockBytes \in Int /\ budget.allocationBytes \in Int
         /\ \A x \in Int : x + (- n) = x - n /\ x + (- p) = x - p
    BY <1>4 DEF IInv, Types
  <1>13. CASE EmptyHanded(t)
    BY <1>1, <1>13 DEF EmptyHanded
  <1>14. CASE HoldsOwn(t)
    <2>1. call[t].step = "idle" /\ Own(t) /\ ~ Placed(t) /\ ~ AddsBlock(t) /\ ~ AddsBlock(t)'
          /\ ~ Retires(t) /\ ~ Retires(t)' /\ out[t] \in registered
      BY <1>8, <1>14 DEF HoldsOwn, Own, Placed, AddsBlock, Retires
    <2>2. CASE counting[t] = <<AddAllocation(n)>>
      <3>1. Head(counting[t]) = AddAllocation(n) /\ counting'[t] = <<>>
        BY <1>11, <2>2, Updates
      <3>2. /\ budget'.allocationBytes = budget.allocationBytes + Size(t)
            /\ budget'.blockBytes = budget.blockBytes
        BY <1>3, <1>4, <1>10, <3>1
      <3>3. /\ Awaits(t, "allocationBytes") /\ ~ Awaits(t, "blockBytes")
            /\ \A c : ~ Awaits(t, c)'
        BY <1>6, <2>2, <3>1, Updates DEF Awaits
      <3>4. /\ Counts(t, "allocationBytes")' /\ ~ Counts(t, "allocationBytes")
            /\ Counts(t, "blockBytes")' <=> Counts(t, "blockBytes")
        BY <1>2, <1>8, <2>1, <3>3 DEF Counts
      <3>5. Sums'
        BY <1>2, <1>7, <1>9, <2>1, <3>2, <3>4, AllocationCounted
      <3>6. Stage(t)'
        BY <1>7, <1>8, <2>1, <3>1 DEF Stage, HoldsOwn
      <3>7. QED
        BY <3>5, <3>6
    <2>3. CASE counting[t] = <<AddBlock(n), AddAllocation(n)>>
      <3>1. Head(counting[t]) = AddBlock(n) /\ counting'[t] = <<AddAllocation(n)>>
        BY <1>11, <2>3, Updates
      <3>2. /\ budget'.blockBytes = budget.blockBytes + Size(t)
            /\ budget'.allocationBytes = budget.allocationBytes
        BY <1>3, <1>4, <1>10, <3>1
      <3>3. /\ Awaits(t, "allocationBytes") /\ Awaits(t, "blockBytes")
            /\ Awaits(t, "allocationBytes")' /\ ~ Awaits(t, "blockBytes")'
        BY <1>6, <2>3, <3>1, Updates DEF Awaits
      <3>4. /\ Counts(t, "blockBytes")' /\ ~ Counts(t, "blockBytes")
            /\ Counts(t, "allocationBytes")' <=> Counts(t, "allocationBytes")
        BY <1>2, <1>8, <2>1, <3>3 DEF Counts
      <3>5. Sums'
        BY <1>7, <1>9, <2>1, <3>2, <3>4, OwnHeapCounted
      <3>6. Stage(t)'
        <4>1. counting'[t] = <<AddAllocation(Size(t))>>'
          BY <1>3, <1>8, <3>1 DEF AddAllocation
        <4>2. QED
          BY <1>7, <1>8, <2>1, <4>1 DEF Stage, HoldsOwn
      <3>7. QED
        BY <3>5, <3>6
    <2>4. QED
      BY <1>1, <1>3, <1>14, <2>2, <2>3 DEF HoldsOwn, CountCommitted
  <1>15. CASE HoldsPlaced(t)
    <2>1. /\ call[t].step \in {"idle", "creating"} /\ Placed(t) /\ ~ Own(t) /\ Block(t) \in blocks
          /\ ~ Retires(t) /\ ~ Retires(t)' /\ lock = t
          /\ call[t].step = "creating" =>
               call[t].kind = "resource" /\ call[t].attempts = <<"placed">>
      BY <1>1, <1>8, <1>15 DEF HoldsPlaced, Own, Placed, Retires
    <2>2. CASE counting[t] = <<AddAllocation(n)>>
      <3>1. Head(counting[t]) = AddAllocation(n) /\ counting'[t] = <<>>
        BY <1>11, <2>2, Updates
      <3>2. /\ budget'.allocationBytes = budget.allocationBytes + Size(t)
            /\ budget'.blockBytes = budget.blockBytes
        BY <1>3, <1>4, <1>10, <3>1
      <3>3. /\ Awaits(t, "allocationBytes") /\ ~ Awaits(t, "blockBytes")
            /\ \A c : ~ Awaits(t, c)'
        BY <1>6, <2>2, <3>1, Updates DEF Awaits
      <3>4. /\ Counts(t, "allocationBytes")' /\ ~ Counts(t, "allocationBytes")
            /\ ~ AddsBlock(t) /\ ~ AddsBlock(t)'
        BY <1>2, <1>8, <2>1, <3>3 DEF Counts, AddsBlock
      <3>5. Sums'
        BY <1>2, <1>7, <1>9, <2>1, <3>2, <3>4, AllocationCounted
      <3>6. Stage(t)'
        BY <1>7, <1>8, <2>1, <3>1 DEF Stage, HoldsPlaced
      <3>7. QED
        BY <3>5, <3>6
    <2>3. CASE InNewBlock(t)
      <3>1. /\ counting[t] = <<AddBlock(p), AddAllocation(n)>>
            /\ PlacedIn(Block(t)) = {out[t]}
        BY <1>3, <2>3 DEF InNewBlock
      <3>2. Head(counting[t]) = AddBlock(p) /\ counting'[t] = <<AddAllocation(n)>> /\ lock' = t
        <4>1. Head(counting[t]) = AddBlock(p) /\ Tail(counting[t]) = <<AddAllocation(n)>>
              /\ Tail(counting[t]) # <<>>
          BY <3>1, Updates
        <4>2. QED
          BY <1>11, <2>1, <4>1
      <3>3. /\ budget'.blockBytes = budget.blockBytes + PreferredBlockSize
            /\ budget'.allocationBytes = budget.allocationBytes
        BY <1>3, <1>4, <1>10, <3>2
      <3>4. /\ Awaits(t, "allocationBytes") /\ Awaits(t, "blockBytes")
            /\ Awaits(t, "allocationBytes")' /\ ~ Awaits(t, "blockBytes")'
        BY <1>6, <3>1, <3>2, Updates DEF Awaits
      <3>5. /\ Counts(t, "allocationBytes")' <=> Counts(t, "allocationBytes")
            /\ AddsBlock(t) /\ ~ AddsBlock(t)'
        BY <1>2, <1>8, <2>1, <3>4 DEF Counts, AddsBlock
      <3>6. Sums'
        BY <1>7, <1>9, <2>1, <3>1, <3>3, <3>5, BlockCounted
      <3>7. Stage(t)'
        <4>1. counting'[t] = <<AddAllocation(Size(t))>>'
          BY <1>3, <1>8, <3>2 DEF AddAllocation
        <4>2. QED
          BY <1>7, <1>8, <2>1, <3>2, <4>1 DEF Stage, HoldsPlaced
      <3>8. QED
        BY <3>6, <3>7
    <2>4. QED
      BY <1>1, <1>3, <1>15, <2>2, <2>3 DEF HoldsPlaced
  <1>16. CASE Freeing(t)
    <2>1. /\ call[t].step = "freeing" /\ Placed(t) /\ ~ Own(t) /\ Block(t) \in blocks
          /\ ~ Retires(t) /\ ~ Retires(t)' /\ ~ AddsBlock(t) /\ ~ AddsBlock(t)'
      BY <1>8, <1>16 DEF Freeing, Own, Placed, Retires, AddsBlock
    <2>2. counting[t] = <<AddAllocation(- n)>>
      BY <1>1, <1>3, <1>5, <1>16 DEF Freeing
    <2>3. Head(counting[t]) = AddAllocation(- n) /\ counting'[t] = <<>>
      BY <1>11, <2>2, Updates
    <2>4. /\ budget'.allocationBytes = budget.allocationBytes - Size(t)
          /\ budget'.blockBytes = budget.blockBytes
      BY <1>3, <1>4, <1>10, <1>12, <2>3
    <2>5. /\ Awaits(t, "allocationBytes") /\ \A c : ~ Awaits(t, c)'
      BY <1>6, <2>2, <2>3, Updates DEF Awaits
    <2>6. Counts(t, "allocationBytes") /\ ~ Counts(t, "allocationBytes")'
      BY <1>2, <1>8, <2>1, <2>5 DEF Counts
    <2>7. Sums'
      BY <1>2, <1>7, <1>9, <2>1, <2>4, <2>6, AllocationCounted
    <2>8. Stage(t)'
      BY <1>7, <1>8, <2>1, <2>3 DEF Stage, Freeing
    <2>9. QED
      BY <2>7, <2>8
  <1>17. CASE DeletesOwn(t)
    <2>1. /\ call[t].step = "deleting" /\ Own(t) /\ ~ Placed(t) /\ out[t] \notin registered
          /\ ~ Retires(t) /\ ~ Retires(t)' /\ ~ AddsBlock(t) /\ ~ AddsBlock(t)'
      BY <1>8, <1>17 DEF DeletesOwn, Own, Placed, Retires, AddsBlock
    <2>2. CASE counting[t] = <<AddAllocation(- n), AddBlock(- n)>>
      <3>1. Head(counting[t]) = AddAllocation(- n) /\ counting'[t] = <<AddBlock(- n)>>
        BY <1>11, <2>2, Updates
      <3>2. /\ budget'.allocationBytes = budget.allocationBytes - Size(t)
            /\ budget'.blockBytes = budget.blockBytes
        BY <1>3, <1>4, <1>10, <1>12, <3>1
      <3>3. /\ Awaits(t, "allocationBytes") /\ Awaits(t, "blockBytes")
            /\ ~ Awaits(t, "allocationBytes")' /\ Awaits(t, "blockBytes")'
        BY <1>6, <2>2, <3>1, Updates DEF Awaits
      <3>4. /\ Counts(t, "allocationBytes") /\ ~ Counts(t, "allocationBytes")'
            /\ Counts(t, "blockBytes")' <=> Counts(t, "blockBytes")
        BY <1>2, <1>8, <2>1, <3>3 DEF Counts
      <3>5. Sums'
        BY <1>2, <1>7, <1>9, <2>1, <3>2, <3>4, AllocationCounted
      <3>6. Stage(t)'
        <4>1. counting'[t] = <<RemoveBlock(Size(t))>>'
          BY <1>3, <1>8, <3>1 DEF AddBlock, RemoveBlock
        <4>2. QED
          BY <1>7, <1>8, <2>1, <4>1 DEF Stage, DeletesOwn
      <3>7. QED
        BY <3>5, <3>6
    <2>3. CASE counting[t] = <<AddBlock(- n)>>
      <3>1. Head(counting[t]) = AddBlock(- n) /\ counting'[t] = <<>>
        BY <1>11, <2>3, Updates
      <3>2. /\ budget'.blockBytes = budget.blockBytes - Size(t)
            /\ budget'.allocationBytes = budget.allocationBytes
        BY <1>3, <1>4, <1>10, <1>12, <3>1
      <3>3. /\ ~ Awaits(t, "allocationBytes") /\ Awaits(t, "blockBytes")
            /\ \A c : ~ Awaits(t, c)'
        BY <1>6, <2>3, <3>1, Updates DEF Awaits
      <3>4. /\ Counts(t, "blockBytes") /\ ~ Counts(t, "blockBytes")'
            /\ Counts(t, "allocationBytes")' <=> Counts(t, "allocationBytes")
        BY <1>2, <1>8, <2>1, <3>3 DEF Counts
      <3>5. Sums'
        BY <1>7, <1>9, <2>1, <3>2, <3>4, OwnHeapCounted
      <3>6. Stage(t)'
        BY <1>7, <1>8, <2>1, <3>1 DEF Stage, DeletesOwn
      <3>7. QED
        BY <3>5, <3>6
    <2>4. QED
      BY <1>1, <1>3, <1>5, <1>17, <2>2, <2>3 DEF DeletesOwn, UncountCommitted
  <1>18. CASE DeletesPlaced(t)
    <2>1. /\ call[t].step = "deleting" /\ Placed(t) /\ Block(t) = NoObject
          /\ ~ AddsBlock(t) /\ ~ AddsBlock(t)'
      BY <1>8, <1>18 DEF DeletesPlaced, AddsBlock
    <2>2. counting[t] = <<AddBlock(- p)>>
      BY <1>1, <1>3, <1>5, <1>18 DEF DeletesPlaced
    <2>3. Head(counting[t]) = AddBlock(- p) /\ counting'[t] = <<>>
      BY <1>11, <2>2, Updates
    <2>4. /\ budget'.blockBytes = budget.blockBytes - PreferredBlockSize
          /\ budget'.allocationBytes = budget.allocationBytes
      BY <1>3, <1>4, <1>10, <1>12, <2>3
    <2>5. /\ Awaits(t, "blockBytes") /\ ~ Awaits(t, "allocationBytes")
          /\ \A c : ~ Awaits(t, c)'
      BY <1>6, <2>2, <2>3, Updates DEF Awaits
    <2>6. /\ Counts(t, "allocationBytes")' <=> Counts(t, "allocationBytes")
          /\ Retires(t) /\ ~ Retires(t)'
      BY <1>2, <1>8, <2>1, <2>5 DEF Counts, Retires
    <2>7. Sums'
      BY <1>7, <1>9, <2>1, <2>4, <2>6, BlockCounted
    <2>8. Stage(t)'
      BY <1>7, <1>8, <2>1, <2>3 DEF Stage, DeletesPlaced
    <2>9. QED
      BY <2>7, <2>8
  <1>19. QED
    BY <1>1, <1>13, <1>14, <1>15, <1>16, <1>17, <1>18 DEF Stage
-----------------------------------------------------------------------------
(* At first there is nothing at all. *)
LEMMA InitIInv ==
  ASSUME Init
  PROVE  IInv
  <1>1. /\ DOMAIN object = {} /\ object \in [DOMAIN object -> ObjectSet]
        /\ \A t \in Threads : call[t] = Idle /\ out[t] = NoObject /\ counting[t] = <<>>
        /\ \A t \in Threads : call[t].step = "idle"
        /\ budget.blockBytes = 0 /\ budget.allocationBytes = 0
    BY DEF Init, Idle
  <1>2. Types
    <2>1. Idle \in CallSet /\ Idle.step = "idle"
      BY DEF Idle, CallSet
    <2>2. CallsLegal
      BY <2>1 DEF Init, CallsLegal
    <2>3. out \in [Threads -> DOMAIN object \cup {NoObject}]
      BY DEF Init
    <2>4. budget \in [blockBytes : Int, allocationBytes : Int]
      BY DEF Init
    <2>5. QED
      BY <1>1, <2>2, <2>3, <2>4 DEF Init, Types, OwnHeap
  <1>3. \A t \in Threads : ~ Holds(t) /\ ~ Own(t) /\ ~ Placed(t)
    BY <1>1 DEF Holds, Own, Placed
  <1>4. Owned
    BY <1>1 DEF Owned, NothingLost
  <1>5. Stages
    BY <1>1, <1>3 DEF Stages, Stage, EmptyHanded
  <1>6. Counted = {} /\ CountedOwn = {} /\ CountedBlocks = {} /\ Retiring = {}
    BY <1>3 DEF Counted, CountedOwn, CountedBlocks, Retiring, Counts, AddsBlock, Retires, Init
  <1>7. Bytes(object, {}) = 0
    BY FS_EmptySet, BytesRecursion
  <1>8. Sums
    <2>1. Cardinality({}) = 0
      BY FS_EmptySet
    <2>2. PreferredBlockSize * (0 + 0) + 0 = 0
      BY Assumed
    <2>3. QED
      BY <1>1, <1>6, <1>7, <2>1, <2>2 DEF Sums
  <1>9. BlocksHoldTheirs
    BY DEF BlocksHoldTheirs, Init
  <1>10. QED
    BY <1>2, <1>4, <1>5, <1>8, <1>9 DEF IInv

(* Every step keeps the invariant. *)
LEMMA NextIInv ==
  ASSUME NoFallback, IInv, [Next]_vars
  PROVE  IInv'
  <1>1. CASE UNCHANGED vars
    <2>1. UNCHANGED <<call, out, object, registered, blocks, lock, counting, budget>>
      BY <1>1 DEF vars
    <2>2. Types'
      BY <2>1 DEF IInv, Types, CallsLegal, OwnHeap
    <2>3. Owned'
      BY <2>1 DEF IInv, Owned, NothingLost
    <2>4. \A b : PlacedIn(b)' = PlacedIn(b)
      BY <2>1 DEF PlacedIn
    <2>5. \A t \in Threads : OnlyStepOf(t)
      BY <2>1, <2>4 DEF OnlyStepOf
    <2>6. Stages'
      <3>1. SUFFICES ASSUME NEW t \in Threads PROVE Stage(t)'
        BY DEF Stages
      <3>2. /\ Holds(t)' <=> Holds(t)
            /\ Own(t)' <=> Own(t)
            /\ Placed(t)' <=> Placed(t)
            /\ Size(t)' = Size(t) /\ Block(t)' = Block(t)
            /\ PlacedIn(Block(t))' = PlacedIn(Block(t))
        BY <2>1, SameHeld
      <3>3. Stage(t)
        BY DEF IInv, Stages
      <3>4. CASE EmptyHanded(t)
        BY <2>1, <3>2, <3>4 DEF Stage, EmptyHanded
      <3>5. CASE HoldsOwn(t)
        BY <2>1, <3>2, <3>5 DEF Stage, HoldsOwn, CountCommitted, AddBlock, AddAllocation
      <3>6. CASE HoldsPlaced(t)
        BY <2>1, <3>2, <3>6 DEF Stage, HoldsPlaced, InNewBlock, AddBlock, AddAllocation
      <3>7. CASE Freeing(t)
        BY <2>1, <3>2, <3>7 DEF Stage, Freeing, RemoveAllocation
      <3>8. CASE DeletesOwn(t)
        BY <2>1, <3>2, <3>8 DEF Stage, DeletesOwn, UncountCommitted, RemoveBlock, RemoveAllocation
      <3>9. CASE DeletesPlaced(t)
        BY <2>1, <3>2, <3>9 DEF Stage, DeletesPlaced, RemoveBlock
      <3>10. QED
        BY <3>3, <3>4, <3>5, <3>6, <3>7, <3>8, <3>9 DEF Stage
    <2>7. Counted' = Counted /\ CountedOwn' = CountedOwn
          /\ CountedBlocks' = CountedBlocks /\ Retiring' = Retiring
      BY <2>1 DEF Counted, CountedOwn, CountedBlocks, Retiring, Counts, AddsBlock, Retires,
         Own, Placed, Holds, Awaits, Block
    <2>8. Sums' /\ BlocksHoldTheirs'
      BY <2>1, <2>4, <2>7 DEF IInv, Sums, BlocksHoldTheirs
    <2>9. QED
      BY <2>2, <2>3, <2>6, <2>8 DEF IInv
  <1>2. CASE Next
    <2>1. PICK t \in Threads :
            \/ Count(t)
            \/ \E r \in Requests : Call(t, r)
            \/ AllocateCommitted(t) \/ AllocateCommittedFails(t)
            \/ AllocateFromBlock(t) \/ AllocateInNewBlock(t) \/ AllocatePageFails(t)
            \/ CreatePlacedResource(t) \/ CreatePlacedResourceFails(t)
            \/ Release(t) \/ FreePlaced(t) \/ DeleteObject(t)
      BY <1>2 DEF Next
    <2>2. CASE Count(t)
      BY <2>2, CountIInv
    <2>3. CASE \E r \in Requests : Call(t, r)
      BY <2>3, CallIInv
    <2>4. CASE AllocateCommitted(t)
      BY <2>4, AllocateCommittedIInv
    <2>5. CASE AllocateCommittedFails(t) \/ AllocatePageFails(t)
      BY <2>5, FailsIInv
    <2>6. CASE AllocateFromBlock(t)
      BY <2>6, AllocateFromBlockIInv
    <2>7. CASE AllocateInNewBlock(t)
      BY <2>7, AllocateInNewBlockIInv
    <2>8. CASE CreatePlacedResource(t) \/ CreatePlacedResourceFails(t)
      BY <2>8, CreatePlacedIInv
    <2>9. CASE Release(t)
      BY <2>9, ReleaseIInv
    <2>10. CASE FreePlaced(t)
      BY <2>10, FreePlacedIInv
    <2>11. CASE DeleteObject(t)
      BY <2>11, DeleteObjectIInv
    <2>12. QED
      BY <2>1, <2>2, <2>3, <2>4, <2>5, <2>6, <2>7, <2>8, <2>9, <2>10, <2>11
  <1>3. QED
    BY <1>1, <1>2

(* IInv holds in every reachable state. *)
LEMMA AlwaysIInv ==
  ASSUME NoFallback
  PROVE  Spec => []IInv
  BY InitIInv, NextIInv, PTL DEF Spec
-----------------------------------------------------------------------------
(* Whatever failed on the way, every Allocation object is reachable        *)
(* through its caller's pointer and can be released.                       *)
THEOREM NothingEverLost ==
  ASSUME NoFallback
  PROVE  Spec => []NothingLost
  <1>1. IInv => NothingLost
    BY DEF IInv, Owned
  <1>2. QED
    BY <1>1, AlwaysIInv, PTL

(* An allocation is released once, and a block never goes while something  *)
(* is placed in it.                                                        *)
THEOREM AlwaysReleasedOnce ==
  ASSUME NoFallback
  PROVE  Spec => []ReleasedOnce
  <1>1. ASSUME IInv PROVE ReleasedOnce
    <2>1. TypeOK
      <3>1. ASSUME NEW t \in Threads
            PROVE  \/ call[t] \in [step : {"idle", "freeing", "deleting"}]
                   \/ /\ call[t].step \in {"trying", "creating"}
                      /\ call[t].attempts \in Seq({"committed", "placed"}) \ {<<>>}
                      /\ call[t].size \in Nat
        <4>1. call[t] \in CallSet
          BY <1>1 DEF IInv, Types, CallsLegal
        <4>2. \A a \in AttemptLists : a \in Seq({"committed", "placed"}) /\ a # <<>>
          <5> DEFINE kinds == {"committed", "placed"}
          <5>1. \A x, y \in kinds : /\ <<x>> \in Seq(kinds) /\ <<x>> # <<>>
                                    /\ <<x, y>> \in Seq(kinds) /\ <<x, y>> # <<>>
            <6> HIDE DEF kinds
            <6>1. QED
              OBVIOUS
          <5>2. "committed" \in kinds /\ "placed" \in kinds
            OBVIOUS
          <5> HIDE DEF kinds
          <5>3. /\ <<"committed">> \in Seq(kinds) /\ <<"placed">> \in Seq(kinds)
                /\ <<"committed", "placed">> \in Seq(kinds) /\ <<"placed", "committed">> \in Seq(kinds)
            BY <5>1, <5>2
          <5>4. /\ <<"committed">> # <<>> /\ <<"placed">> # <<>>
                /\ <<"committed", "placed">> # <<>> /\ <<"placed", "committed">> # <<>>
            BY <5>1, <5>2
          <5>5. \A a \in AttemptLists : a \in Seq(kinds) /\ a # <<>>
            BY <5>3, <5>4 DEF AttemptLists
          <5>6. QED
            BY <5>5 DEF kinds
        <4>3. CASE call[t] \in [step : {"idle", "freeing", "deleting"}]
          BY <4>3
        <4>4. CASE call[t] \notin [step : {"idle", "freeing", "deleting"}]
          <5>1. /\ call[t].step \in {"trying", "creating"} /\ call[t].attempts \in AttemptLists
                /\ call[t].size \in Nat
            BY <4>1, <4>4 DEF CallSet
          <5>2. call[t].attempts \in Seq({"committed", "placed"}) \ {<<>>}
            BY <4>2, <5>1
          <5>3. QED
            BY <5>1, <5>2
        <4>5. QED
          BY <4>3, <4>4
      <3>2. /\ out \in [Threads -> DOMAIN object \cup {NoObject}] /\ DOMAIN object \subseteq Objects
            /\ registered \subseteq OwnHeap /\ blocks \subseteq BlockIds
            /\ lock \in Threads \cup {NoThread}
        BY <1>1 DEF IInv, Types
      <3>3. QED
        BY <3>1, <3>2 DEF TypeOK
    <2>2. PlacedInLiveBlocks
      <3>1. SUFFICES ASSUME NEW o \in DOMAIN object,
                            object[o].type = "PLACED", object[o].block # NoObject
                     PROVE  object[o].block \in blocks
        BY DEF PlacedInLiveBlocks
      <3>2. PICK t \in Threads : out[t] = o
        BY <1>1 DEF IInv, Owned, NothingLost
      <3>3. Placed(t) /\ ~ Own(t) /\ Holds(t) /\ Block(t) # NoObject
        BY <1>1, <3>1, <3>2, ObjectFacts DEF IInv, Placed, Own, Holds, Block
      <3>4. HoldsPlaced(t) \/ Freeing(t)
        BY <1>1, <3>3 DEF IInv, Stages, Stage, EmptyHanded, HoldsOwn, DeletesOwn, DeletesPlaced
      <3>5. QED
        BY <3>2, <3>4 DEF HoldsPlaced, Freeing, Block
    <2>3. ASSUME NEW t \in Threads, At(t, "idle"), out[t] # NoObject
          PROVE  \/ out[t] \in registered
                 \/ object[out[t]].type = "PLACED" /\ object[out[t]].block \in blocks
      <3>1. HoldsOwn(t) \/ HoldsPlaced(t)
        BY <1>1, <2>3 DEF IInv, Stages, Stage, EmptyHanded, Freeing, DeletesOwn, DeletesPlaced,
           At, Holds
      <3>2. QED
        BY <3>1 DEF HoldsOwn, HoldsPlaced, Placed, Block
    <2>4. QED
      BY <2>1, <2>2, <2>3 DEF ReleasedOnce
  <1>2. QED
    BY <1>1, AlwaysIInv, PTL

(* What is counted as allocated is counted as a heap's, too. *)
LEMMA HeapCountedFirst ==
  ASSUME IInv, NEW o \in Counted
  PROVE  IF object[o].type = "PLACED" THEN object[o].block \in CountedBlocks ELSE o \in CountedOwn
  <1>1. PICK t \in Threads : out[t] = o /\ Counts(t, "allocationBytes")
    BY DEF Counted
  <1>2. Holds(t) /\ Stage(t)
    BY <1>1 DEF Counts, IInv, Stages
  <1>3. /\ AddBlock(Size(t)).counter = "blockBytes" /\ AddAllocation(Size(t)).counter = "allocationBytes"
        /\ RemoveBlock(Size(t)).counter = "blockBytes"
        /\ RemoveBlock(PreferredBlockSize).counter = "blockBytes"
        /\ AddBlock(PreferredBlockSize).counter = "blockBytes"
        /\ RemoveAllocation(Size(t)).counter = "allocationBytes"
    BY DEF AddBlock, AddAllocation, RemoveBlock, RemoveAllocation
  <1>4. CASE object[o].type # "PLACED"
    <2>1. Own(t) /\ ~ Placed(t)
      BY <1>1, <1>2, <1>4 DEF Own, Placed
    <2>2. Counts(t, "blockBytes")
      <3>1. CASE HoldsOwn(t)
        <4>1. call[t].step = "idle" /\ ~ Awaits(t, "allocationBytes")
          BY <1>1, <3>1 DEF HoldsOwn, Counts
        <4>2. counting[t] = <<>>
          BY <1>3, <3>1, <4>1, Updates DEF HoldsOwn, Awaits, CountCommitted
        <4>3. ~ Awaits(t, "blockBytes")
          BY <4>2, Updates DEF Awaits
        <4>4. QED
          BY <1>2, <4>1, <4>3 DEF Counts
      <3>2. CASE DeletesOwn(t)
        <4>1. call[t].step = "deleting" /\ Awaits(t, "allocationBytes")
          BY <1>1, <3>2 DEF DeletesOwn, Counts
        <4>2. counting[t] = UncountCommitted(Size(t))
          BY <1>3, <3>2, <4>1, Updates DEF DeletesOwn, Awaits
        <4>3. Awaits(t, "blockBytes")
          BY <1>3, <4>2, Updates DEF Awaits, UncountCommitted
        <4>4. QED
          BY <1>2, <4>1, <4>3 DEF Counts
      <3>3. QED
        BY <1>2, <2>1, <3>1, <3>2 DEF Stage, EmptyHanded, HoldsPlaced, Freeing, DeletesPlaced
    <2>3. QED
      BY <1>1, <1>4, <2>1, <2>2 DEF CountedOwn
  <1>5. CASE object[o].type = "PLACED"
    <2>1. Placed(t) /\ ~ Own(t)
      BY <1>1, <1>2, <1>5 DEF Own, Placed
    <2>2. Block(t) \in blocks /\ ~ AddsBlock(t)
      <3>1. CASE HoldsPlaced(t)
        <4>1. ~ Awaits(t, "allocationBytes") /\ Block(t) \in blocks
          BY <1>1, <3>1 DEF HoldsPlaced, Counts
        <4>2. counting[t] = <<>>
          <5>1. /\ AwaitsIn(<<AddAllocation(Size(t))>>, "allocationBytes")
                /\ AwaitsIn(<<AddBlock(PreferredBlockSize), AddAllocation(Size(t))>>, "allocationBytes")
            BY <1>3, Updates
          <5>2. ~ AwaitsIn(counting[t], "allocationBytes")
            BY <4>1 DEF Awaits
          <5>3. /\ counting[t] # <<AddAllocation(Size(t))>>
                /\ counting[t] # <<AddBlock(PreferredBlockSize), AddAllocation(Size(t))>>
            BY <5>1, <5>2
          <5>4. QED
            BY <3>1, <5>3 DEF HoldsPlaced, InNewBlock
        <4>3. ~ Awaits(t, "blockBytes")
          BY <4>2, Updates DEF Awaits
        <4>4. QED
          BY <4>1, <4>3 DEF AddsBlock
      <3>2. CASE Freeing(t)
        BY <3>2 DEF Freeing, AddsBlock
      <3>3. CASE DeletesPlaced(t)
        <4>1. Awaits(t, "allocationBytes")
          BY <1>1, <3>3 DEF DeletesPlaced, Counts
        <4>2. QED
          BY <1>3, <3>3, <4>1, Updates DEF DeletesPlaced, Awaits
      <3>4. QED
        BY <1>2, <2>1, <3>1, <3>2, <3>3 DEF Stage, EmptyHanded, HoldsOwn, DeletesOwn
    <2>3. ASSUME NEW u \in Threads, AddsBlock(u) PROVE Block(u) # Block(t)
      <3>1. Placed(u) /\ Holds(u) /\ ~ Own(u) /\ call[u].step \in {"idle", "creating"}
            /\ Awaits(u, "blockBytes") /\ Stage(u)
        BY <2>3 DEF AddsBlock, Placed, Own, IInv, Stages
      <3>2. HoldsPlaced(u)
        BY <3>1 DEF Stage, EmptyHanded, HoldsOwn, Freeing, DeletesOwn, DeletesPlaced
      <3>3. AddAllocation(Size(u)).counter = "allocationBytes"
        BY DEF AddAllocation
      <3>4. InNewBlock(u)
        <4>1. /\ ~ AwaitsIn(<<AddAllocation(Size(u))>>, "blockBytes")
              /\ ~ AwaitsIn(<<>>, "blockBytes")
          BY <3>3, Updates
        <4>2. AwaitsIn(counting[u], "blockBytes")
          BY <3>1 DEF Awaits
        <4>3. counting[u] # <<>> /\ counting[u] # <<AddAllocation(Size(u))>>
          BY <4>1, <4>2
        <4>4. QED
          BY <3>2, <4>3 DEF HoldsPlaced
      <3>5. PlacedIn(Block(u)) = {out[u]} /\ u # t
        BY <2>2, <2>3, <3>4 DEF InNewBlock
      <3>6. out[t] \in DOMAIN object /\ out[t] # out[u]
        BY <1>2, <3>5 DEF IInv, Owned, Types, Holds
      <3>7. Block(u) = Block(t) => out[t] \in PlacedIn(Block(u))
        BY <1>1, <1>5, <3>6 DEF PlacedIn, Block
      <3>8. QED
        BY <3>5, <3>6, <3>7
    <2>4. QED
      BY <1>1, <1>5, <2>2, <2>3 DEF CountedBlocks, Block
  <1>6. QED
    BY <1>4, <1>5

(* ... so the bytes allocated never exceed those of the heaps. *)
LEMMA IInvWithin ==
  ASSUME IInv
  PROVE  AllocationsWithinBlocks
  <1> DEFINE InBlocks == {o \in Counted : object[o].type = "PLACED"}
             Alone == Counted \ InBlocks
  <1>1. /\ IsFiniteSet(Counted) /\ IsFiniteSet(CountedOwn) /\ IsFiniteSet(CountedBlocks)
        /\ IsFiniteSet(Retiring)
        /\ \A o \in Counted \cup CountedOwn : object[o].size \in Nat /\ object[o].size \in Int
    BY ObjectFacts DEF IInv
  <1>2. IsFiniteSet(InBlocks) /\ IsFiniteSet(Alone)
    BY <1>1, FS_Subset
  <1>3. Bytes(object, Counted) = Bytes(object, InBlocks) + Bytes(object, Alone)
    <2>1. InBlocks \cup Alone = Counted /\ InBlocks \cap Alone = {}
      OBVIOUS
    <2>2. \A o \in InBlocks \cup Alone : object[o].size \in Int
      BY <1>1
    <2> HIDE DEF InBlocks, Alone
    <2>3. QED
      BY <1>2, <2>1, <2>2, BytesOfBoth
  <1>4. Bytes(object, Alone) <= Bytes(object, CountedOwn)
    <2>1. Alone \in SUBSET CountedOwn
      BY HeapCountedFirst
    <2>2. QED
      BY <1>1, <2>1, BytesOfPart
  <1>5. Bytes(object, InBlocks) <= PreferredBlockSize * Cardinality(CountedBlocks)
    <2>1. \A o \in InBlocks : object[o].size \in Nat /\ object[o].block \in CountedBlocks
      BY <1>1, HeapCountedFirst
    <2>2. ASSUME NEW b \in CountedBlocks
          PROVE  Bytes(object, {o \in InBlocks : object[o].block = b}) <= PreferredBlockSize
      <3> DEFINE Here == {o \in InBlocks : object[o].block = b}
      <3>1. b \in blocks /\ Here \in SUBSET PlacedIn(b)
        BY ObjectFacts DEF CountedBlocks, PlacedIn, IInv
      <3>2. IsFiniteSet(PlacedIn(b)) /\ IsFiniteSet(Here)
            /\ \A o \in PlacedIn(b) : object[o].size \in Nat /\ object[o].size \in Int
        <4>1. IsFiniteSet(PlacedIn(b)) /\ PlacedIn(b) \subseteq DOMAIN object
              /\ \A o \in PlacedIn(b) : object[o].size \in Nat /\ object[o].size \in Int
          BY ObjectFacts DEF IInv
        <4>2. QED
          BY <3>1, <4>1, FS_Subset
      <3> HIDE DEF Here
      <3>3. Bytes(object, Here) <= Bytes(object, PlacedIn(b))
        BY <3>1, <3>2, BytesOfPart
      <3>4. Bytes(object, PlacedIn(b)) <= PreferredBlockSize
        BY <3>1 DEF IInv, BlocksHoldTheirs
      <3>5. Bytes(object, Here) \in Int /\ Bytes(object, PlacedIn(b)) \in Int
        <4>1. \A o \in Here : object[o].size \in Int
          BY <3>1, <3>2
        <4>2. QED
          BY <3>2, <4>1, BytesRecursion
      <3>6. Bytes(object, Here) <= PreferredBlockSize
        BY <3>3, <3>4, <3>5, Assumed
      <3>7. QED
        BY <3>6 DEF Here
    <2> HIDE DEF InBlocks
    <2>3. QED
      BY <1>1, <1>2, <2>1, <2>2, Assumed, BytesInBlocks
  <1>6. /\ Bytes(object, Counted) \in Nat /\ Bytes(object, InBlocks) \in Nat
        /\ Bytes(object, Alone) \in Nat /\ Bytes(object, CountedOwn) \in Nat
    <2>1. \A o \in InBlocks : object[o].size \in Nat
      BY <1>1
    <2>2. \A o \in Alone : object[o].size \in Nat
      BY <1>1
    <2> HIDE DEF InBlocks, Alone
    <2>3. QED
      BY <1>1, <1>2, <2>1, <2>2, BytesPositive
  <1> HIDE DEF InBlocks, Alone
  <1>7. PICK p, c, r : /\ p = PreferredBlockSize /\ c = Cardinality(CountedBlocks)
                       /\ r = Cardinality(Retiring)
    OBVIOUS
  <1>8. p \in Nat /\ c \in Nat /\ r \in Nat
    BY <1>1, <1>7, Assumed, FS_CardinalityType
  <1>9. p * (c + r) = p * c + p * r /\ p * r \in Nat /\ p * c \in Nat
    BY <1>8
  <1>10. PICK w, k : w = p * c /\ k = p * r
    OBVIOUS
  <1>11. budget.blockBytes = w + k + Bytes(object, CountedOwn) /\ w \in Nat /\ k \in Nat
    BY <1>7, <1>9, <1>10 DEF IInv, Sums
  <1>12. Bytes(object, InBlocks) <= w
    BY <1>5, <1>7, <1>10
  <1>13. budget.allocationBytes = Bytes(object, Counted)
    BY DEF IInv, Sums
  <1>14. QED
    BY <1>3, <1>4, <1>6, <1>11, <1>12, <1>13 DEF AllocationsWithinBlocks
-----------------------------------------------------------------------------
(* Between the calls the counters are the sizes there are. *)
LEMMA IInvIdle ==
  ASSUME IInv, AllIdle
  PROVE  /\ budget.allocationBytes = Bytes(object, DOMAIN object)
         /\ budget.blockBytes = Cardinality(blocks) * PreferredBlockSize + Bytes(object, OwnHeap)
  <1>1. \A t \in Threads : call[t].step = "idle" /\ counting[t] = <<>>
    BY DEF AllIdle, Idle
  <1>2. \A t \in Threads : ~ AwaitsIn(counting[t], "allocationBytes") /\ ~ AwaitsIn(counting[t], "blockBytes")
    BY <1>1, Updates
  <1>3. \A t \in Threads : ~ AddsBlock(t) /\ ~ Retires(t)
    BY <1>1, <1>2 DEF AddsBlock, Retires, Awaits
  <1>4. \A t \in Threads : Holds(t) => Counts(t, "allocationBytes") /\ Counts(t, "blockBytes")
    BY <1>1, <1>2 DEF Counts, Awaits
  <1>5. Counted = DOMAIN object
    <2>1. ASSUME NEW o \in DOMAIN object PROVE o \in Counted
      <3>1. PICK t \in Threads : out[t] = o
        BY DEF IInv, Owned, NothingLost
      <3>2. Holds(t)
        BY <3>1, ObjectFacts DEF IInv, Holds
      <3>3. QED
        BY <1>4, <3>1, <3>2 DEF Counted
    <2>2. Counted \subseteq DOMAIN object
      BY ObjectFacts DEF IInv
    <2>3. QED
      BY <2>1, <2>2
  <1>6. CountedOwn = OwnHeap
    <2>1. ASSUME NEW o \in OwnHeap PROVE o \in CountedOwn
      <3>1. PICK t \in Threads : out[t] = o
        BY DEF IInv, Owned, NothingLost, OwnHeap
      <3>2. Holds(t) /\ Own(t)
        BY <3>1, ObjectFacts DEF IInv, Holds, Own, OwnHeap
      <3>3. QED
        BY <1>4, <3>1, <3>2 DEF CountedOwn
    <2>2. \A o \in CountedOwn : o \in OwnHeap
      BY ObjectFacts DEF IInv, CountedOwn, Own, OwnHeap
    <2>3. QED
      BY <2>1, <2>2
  <1>7. CountedBlocks = blocks /\ Retiring = {}
    BY <1>3 DEF CountedBlocks, Retiring
  <1>8. PICK p, c : p = PreferredBlockSize /\ c = Cardinality(blocks)
    OBVIOUS
  <1>9. p \in Int /\ c \in Int
    BY <1>8, Assumed, ObjectFacts, FS_CardinalityType DEF IInv
  <1>10. Cardinality(Retiring) = 0
    BY <1>7, FS_EmptySet
  <1>11. p * (c + 0) = c * p
    BY <1>9
  <1>12. QED
    BY <1>5, <1>6, <1>7, <1>8, <1>10, <1>11 DEF IInv, Sums

(* The counters stay in order, and are exact whenever no call is under     *)
(* way, though nothing locks them together.                                *)
THEOREM BudgetAlwaysExact ==
  ASSUME NoFallback
  PROVE  Spec => []BudgetExact
  <1>1. ASSUME IInv PROVE BudgetExact
    <2>1. AllocationsWithinBlocks
      BY <1>1, IInvWithin
    <2>2. ASSUME AllIdle
          PROVE  /\ budget.allocationBytes =
                      MapThenSumSet(LAMBDA o : object[o].size, DOMAIN object)
                 /\ budget.blockBytes =
                      Cardinality(blocks) * PreferredBlockSize
                        + MapThenSumSet(LAMBDA o : object[o].size, OwnHeap)
      BY <1>1, <2>2, IInvIdle DEF Bytes
    <2>3. QED
      BY <2>1, <2>2 DEF BudgetExact
  <1>2. QED
    BY <1>1, AlwaysIInv, PTL
-----------------------------------------------------------------------------
(* What a thread is doing follows the rules, whatever is asked.            *)
LEMMA CallsStayLegal ==
  ASSUME CallsLegal, NEW t \in Threads,
         \/ Count(t)
         \/ \E r \in Requests : Call(t, r)
         \/ AllocateCommitted(t) \/ AllocateCommittedFails(t)
         \/ AllocateFromBlock(t) \/ AllocateInNewBlock(t) \/ AllocatePageFails(t)
         \/ CreatePlacedResource(t) \/ CreatePlacedResourceFails(t)
         \/ Release(t) \/ FreePlaced(t) \/ DeleteObject(t)
  PROVE  CallsLegal' /\ \A u \in Threads \ {t} : call'[u] = call[u]
  <1>1. CASE Count(t)
    BY <1>1 DEF Count, CallsLegal
  <1>2. CASE \E r \in Requests : Call(t, r)
    <2>1. PICK r \in Requests : Call(t, r)
      BY <1>2
    <2> DEFINE c == [step |-> "trying", attempts |-> Attempts(r), kind |-> r.kind,
                     size |-> r.size, neverAllocate |-> r.neverAllocate,
                     canAlias |-> r.canAlias]
    <2>2. r \in RequestType /\ Attempts(r) # <<>> /\ call' = [call EXCEPT ![t] = c]
      BY <2>1, RequestsAssumption DEF Call
    <2>3. Attempts(r) \in AttemptLists /\ (r.neverAllocate => Attempts(r) = <<"placed">>)
      BY <2>2, AttemptsOf
    <2>4. c \in CallSet /\ (c.neverAllocate => c.attempts = <<"placed">>)
      BY <2>2, <2>3 DEF CallSet, RequestType
    <2> HIDE DEF c
    <2>5. QED
      BY <2>2, <2>4, CallChanges
  <1>3. CASE \/ AllocateCommittedFails(t) \/ AllocatePageFails(t) \/ CreatePlacedResourceFails(t)
    <2>1. AttemptFailed(t) /\ call[t].step \in {"trying", "creating"}
      BY <1>3 DEF AllocateCommittedFails, AllocatePageFails, CreatePlacedResourceFails, Trying, At
    <2>2. QED
      BY <2>1, AfterFailure
  <1>4. CASE AllocateCommitted(t) \/ AllocateFromBlock(t) \/ AllocateInNewBlock(t)
    <2>1. call[t].step = "trying" /\ \E type : MemoryAllocated(t, type)
      BY <1>4 DEF AllocateCommitted, AllocateFromBlock, AllocateInNewBlock, Trying, At
    <2>2. QED
      BY <2>1, MemoryFacts
  <1>5. CASE CreatePlacedResource(t) \/ DeleteObject(t)
    <2>1. call' = [call EXCEPT ![t] = Idle] /\ Idle \in CallSet /\ Idle.step = "idle"
      BY <1>5 DEF CreatePlacedResource, DeleteObject, Idle, CallSet
    <2>2. QED
      BY <2>1, CallChanges
  <1>6. CASE Release(t) \/ FreePlaced(t)
    <2>1. \E s \in {"freeing", "deleting"} : call' = [call EXCEPT ![t] = [step |-> s]]
      BY <1>6 DEF Release, FreePlaced
    <2>2. PICK s \in {"freeing", "deleting"} : call' = [call EXCEPT ![t] = [step |-> s]]
      BY <2>1
    <2>3. [step |-> s] \in CallSet /\ [step |-> s].step \in {"freeing", "deleting"}
      BY DEF CallSet
    <2>4. QED
      BY <2>2, <2>3, CallChanges
  <1>7. QED
    BY <1>1, <1>2, <1>3, <1>4, <1>5, <1>6

(* A NeverAllocate call creates no heap, in the block vector or of its     *)
(* own, whatever is asked.                                                 *)
THEOREM NeverAllocateAlwaysRespected == Spec => NeverAllocateRespected
  <1> DEFINE Respected ==
        \A t \in Threads :
          call[t].step = "trying" /\ call[t].neverAllocate /\ call'[t] # call[t]
            => blocks' \subseteq blocks /\ OwnHeap' \subseteq OwnHeap
  <1>1. Init => CallsLegal
    BY DEF Init, CallsLegal, Idle, CallSet
  <1>2. ASSUME CallsLegal, [Next]_vars PROVE CallsLegal'
    <2>1. CASE Next
      BY <1>2, <2>1, CallsStayLegal DEF Next
    <2>2. CASE UNCHANGED vars
      BY <1>2, <2>2 DEF vars, CallsLegal
    <2>3. QED
      BY <1>2, <2>1, <2>2
  <1>3. ASSUME CallsLegal, Next PROVE Respected
    <2>1. SUFFICES ASSUME NEW t \in Threads, call[t].step = "trying",
                          call[t].neverAllocate, call'[t] # call[t]
                   PROVE  blocks' \subseteq blocks /\ OwnHeap' \subseteq OwnHeap
      OBVIOUS
    <2>2. call[t].attempts = <<"placed">>
      BY <1>3, <2>1 DEF CallsLegal
    <2>3. Head(call[t].attempts) # "committed"
      BY <2>2
    <2>4. PICK u \in Threads :
            \/ Count(u)
            \/ \E r \in Requests : Call(u, r)
            \/ AllocateCommitted(u) \/ AllocateCommittedFails(u)
            \/ AllocateFromBlock(u) \/ AllocateInNewBlock(u) \/ AllocatePageFails(u)
            \/ CreatePlacedResource(u) \/ CreatePlacedResourceFails(u)
            \/ Release(u) \/ FreePlaced(u) \/ DeleteObject(u)
      BY <1>3 DEF Next
    <2>5. u = t
      <3>1. \A v \in Threads \ {u} : call'[v] = call[v]
        BY <1>3, <2>4, CallsStayLegal
      <3>2. QED
        BY <2>1, <3>1
    <2>6. CASE AllocateFromBlock(t)
      <3>1. PICK b \in blocks, o \in Objects \ DOMAIN object : NewObject(o, t, "PLACED", b)
        BY <2>6 DEF AllocateFromBlock
      <3>2. \A p \in DOMAIN object' : object'[p].type = "PLACED" \/ (p \in DOMAIN object /\ object'[p] = object[p])
        BY <3>1 DEF NewObject
      <3>3. QED
        BY <2>6, <3>2 DEF AllocateFromBlock, OwnHeap
    <2>7. CASE AllocatePageFails(t) \/ AllocateCommittedFails(t)
      BY <2>7 DEF AllocatePageFails, AllocateCommittedFails, OwnHeap
    <2>8. ~ Count(t)
      BY <2>1 DEF Count
    <2>9. ~ AllocateCommitted(t) /\ ~ AllocateInNewBlock(t)
      BY <2>1, <2>3 DEF AllocateCommitted, AllocateInNewBlock, Trying
    <2>10. /\ ~ \E r \in Requests : Call(t, r)
           /\ ~ CreatePlacedResource(t) /\ ~ CreatePlacedResourceFails(t)
           /\ ~ Release(t) /\ ~ FreePlaced(t) /\ ~ DeleteObject(t)
      BY <2>1 DEF Call, CreatePlacedResource, CreatePlacedResourceFails, Release, FreePlaced,
         DeleteObject, At
    <2>11. QED
      BY <2>4, <2>5, <2>6, <2>7, <2>8, <2>9, <2>10
  <1>4. ASSUME CallsLegal, [Next]_vars PROVE [Respected]_vars
    BY <1>3, <1>4
  <1>5. QED
    BY <1>1, <1>2, <1>4, PTL DEF Spec, NeverAllocateRespected
=============================================================================
