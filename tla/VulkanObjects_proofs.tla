------------------------- MODULE VulkanObjects_proofs -------------------------
(***************************************************************************)
(* What VulkanObjects keeps of memory is exact for any number of handles,  *)
(* memories, heaps and types: each memory is mapped while, and as often as *)
(* the resources on it say; an object or a memory exists while a resource  *)
(* or a heap owns it; and no call breaks its valid usage.                  *)
(*                                                                         *)
(* A lemma about a fold over a set (the sum of the maps, the destruction   *)
(* of all that is left) is proved from a smallest subset of which it would *)
(* be false.                                                               *)
(***************************************************************************)
EXTENDS VulkanObjects, FiniteSetTheorems, WellFoundedInduction, TLAPS

(* A set of finite sets that is not empty has a smallest.                  *)
LEMMA SmallestSet ==
  ASSUME NEW S, IsFiniteSet(S), NEW F \in SUBSET SUBSET S, F # {}
  PROVE  \E T \in F : \A x \in T : T \ {x} \notin F
  <1> DEFINE R == StrictSubsetOrdering(S)
  <1>1. IsWellFoundedOn(R, FiniteSubsetsOf(S))
    BY FS_StrictSubsetOrderingWellFounded
  <1>2. F \subseteq FiniteSubsetsOf(S)
    BY FS_Subset DEF FiniteSubsetsOf
  <1>3. \A T \in SUBSET S : \A x \in T : <<T \ {x}, T>> \in R
    BY DEF StrictSubsetOrdering
  <1> HIDE DEF R
  <1>4. IsWellFoundedOn(R, F)
    BY <1>1, <1>2, IsWellFoundedOnSubset
  <1>5. PICK T \in F : \A U \in F : ~ (<<U, T>> \in R)
    BY <1>4, WFMin
  <1>6. QED
    BY <1>3, <1>5

(* What the library's folds do with one more element: they add its maps,   *)
(* destroy the resource that it is, or free the memory.                    *)
Op(what, of, x, value) ==
  CASE what = "sum" -> of[x].maps + value
    [] what = "destroy" -> Memory!Destroyed(value, x)
    [] OTHER -> Memory!MemoryFreed(value, x)

Chosen(s) == CHOOSE x \in s : TRUE
Folds(what, of, base, S, g) ==
  g = [s \in SUBSET S |-> IF s = {} THEN base ELSE Op(what, of, Chosen(s), g[s \ {Chosen(s)}])]
Fold(what, of, base, S) == (CHOOSE g : Folds(what, of, base, S, g))[S]

(* The sums and folds the model takes from the library are Fold.           *)
LEMMA FoldsOfLibrary ==
  /\ \A of, S : Memory!MapThenSumSet(LAMBDA x : of[x].maps, S) = Fold("sum", of, 0, S)
  /\ \A base, S : LET destroy(s, v) == Memory!Destroyed(v, s)
                  IN Memory!FoldSet(destroy, base, S) = Fold("destroy", <<>>, base, S)
  /\ \A base, S : LET release(m, v) == Memory!MemoryFreed(v, m)
                  IN Memory!FoldSet(release, base, S) = Fold("free", <<>>, base, S)
  BY DEF Memory!MapThenSumSet, Memory!MapThenFoldSet, Memory!FoldSet, Fold, Folds, Chosen, Op

(* A fold over a set is one over its subsets.                              *)
LEMMA FoldsWithin ==
  ASSUME NEW what, NEW of, NEW base, NEW S, NEW g, Folds(what, of, base, S, g), NEW T \in SUBSET S
  PROVE  Folds(what, of, base, T, [s \in SUBSET T |-> g[s]])
  <1> DEFINE h == [s \in SUBSET T |-> g[s]]
  <1>1. \A s \in SUBSET S : g[s] = IF s = {} THEN base ELSE Op(what, of, Chosen(s), g[s \ {Chosen(s)}])
    BY DEF Folds
  <1>2. ASSUME NEW s \in SUBSET T
        PROVE  h[s] = IF s = {} THEN base ELSE Op(what, of, Chosen(s), h[s \ {Chosen(s)}])
    <2>1. s \in SUBSET S /\ s \ {Chosen(s)} \in SUBSET T /\ h[s] = g[s]
      OBVIOUS
    <2>2. h[s \ {Chosen(s)}] = g[s \ {Chosen(s)}]
      BY <2>1
    <2> HIDE DEF h
    <2> QED
      BY <1>1, <2>1, <2>2
  <1>3. h = [s \in SUBSET T |-> h[s]]
    OBVIOUS
  <1> HIDE DEF h
  <1>4. h = [s \in SUBSET T |-> IF s = {} THEN base ELSE Op(what, of, Chosen(s), h[s \ {Chosen(s)}])]
    BY <1>2, <1>3, Zenon
  <1> QED
    BY <1>4 DEF Folds, h

(* It does not matter over which larger set.                               *)
LEMMA FoldsAgree ==
  ASSUME NEW what, NEW of, NEW base, NEW S, IsFiniteSet(S), NEW g, NEW h,
         Folds(what, of, base, S, g), Folds(what, of, base, S, h)
  PROVE  g[S] = h[S]
  <1> DEFINE Bad == {T \in SUBSET S : g[T] # h[T]}
  <1>1. SUFFICES ASSUME Bad # {} PROVE FALSE
    BY <1>1
  <1>2. PICK T \in Bad : \A x \in T : T \ {x} \notin Bad
    BY <1>1, SmallestSet
  <1>3. /\ g[T] = IF T = {} THEN base ELSE Op(what, of, Chosen(T), g[T \ {Chosen(T)}])
        /\ h[T] = IF T = {} THEN base ELSE Op(what, of, Chosen(T), h[T \ {Chosen(T)}])
    BY <1>2, Zenon DEF Folds
  <1>4. T # {} => Chosen(T) \in T
    BY DEF Chosen
  <1>5. T # {} => g[T \ {Chosen(T)}] = h[T \ {Chosen(T)}]
    BY <1>2, <1>4
  <1> QED
    BY <1>2, <1>3, <1>5

(* A finite set can be folded, one element at a time.                      *)
LEMMA FoldTaken ==
  ASSUME NEW what, NEW of, NEW base, NEW S, IsFiniteSet(S)
  PROVE  /\ S = {} => Fold(what, of, base, S) = base
         /\ S # {} => \E x \in S : Fold(what, of, base, S) = Op(what, of, x, Fold(what, of, base, S \ {x}))
  <1> DEFINE Can(T) == \E g : Folds(what, of, base, T, g)
             F(T) == Fold(what, of, base, T)
             Bad == {T \in SUBSET S : ~ Can(T)}
  <1>1. ASSUME NEW T \in SUBSET S, Can(T) PROVE \A U \in SUBSET T : Can(U)
    BY <1>1, FoldsWithin
  <1>2. ASSUME NEW T \in SUBSET S, NEW g, Folds(what, of, base, T, g) PROVE \A U \in SUBSET T : g[U] = F(U)
    <2>1. TAKE U \in SUBSET T
    <2>2. Folds(what, of, base, U, [s \in SUBSET U |-> g[s]])
      BY <1>2, FoldsWithin
    <2>3. Folds(what, of, base, U, CHOOSE h : Folds(what, of, base, U, h))
      BY <2>2
    <2>4. IsFiniteSet(U)
      BY FS_Subset
    <2>5. [s \in SUBSET U |-> g[s]][U] = (CHOOSE h : Folds(what, of, base, U, h))[U]
      BY <2>2, <2>3, <2>4, FoldsAgree
    <2> QED
      BY <2>5 DEF Fold
  <1>3. ASSUME NEW T \in SUBSET S, Can(T), T # {}
        PROVE  F(T) = Op(what, of, Chosen(T), F(T \ {Chosen(T)}))
    <2>1. PICK g : Folds(what, of, base, T, g)
      BY <1>3
    <2>2. g[T] = F(T) /\ g[T \ {Chosen(T)}] = F(T \ {Chosen(T)})
      BY <1>2, <2>1
    <2>3. g[T] = Op(what, of, Chosen(T), g[T \ {Chosen(T)}])
      BY <1>3, <2>1, Zenon DEF Folds
    <2> QED
      BY <2>2, <2>3
  <1>4. ASSUME NEW T \in SUBSET S, Can(T), T = {} PROVE F(T) = base
    <2>1. PICK g : Folds(what, of, base, T, g)
      BY <1>4
    <2>2. g[T] = F(T)
      BY <1>2, <2>1
    <2>3. g[T] = base
      BY <1>4, <2>1 DEF Folds
    <2> QED
      BY <2>2, <2>3
  <1>5. Bad = {}
    <2>1. SUFFICES ASSUME Bad # {} PROVE FALSE
      OBVIOUS
    <2>2. Bad \in SUBSET SUBSET S
      OBVIOUS
    <2>3. PICK T \in Bad : \A x \in T : T \ {x} \notin Bad
      BY <2>1, <2>2, SmallestSet
    <2> DEFINE g == [s \in SUBSET T |-> IF s = {} THEN base ELSE Op(what, of, Chosen(s), F(s \ {Chosen(s)}))]
    <2>4. ASSUME NEW s \in SUBSET T, s # T PROVE g[s] = F(s) /\ s \in SUBSET S
      <3>1. PICK x \in T : x \notin s
        BY <2>4
      <3>2. Can(T \ {x}) /\ T \ {x} \in SUBSET S
        BY <2>3
      <3>3. Can(s) /\ s \in SUBSET S
        <4>1. s \in SUBSET (T \ {x})
          BY <3>1
        <4> HIDE DEF Can
        <4> QED
          BY <1>1, <3>2, <4>1
      <3> HIDE DEF Can, F
      <3>4. s = {} => g[s] = base
        OBVIOUS
      <3>5. s # {} => g[s] = Op(what, of, Chosen(s), F(s \ {Chosen(s)}))
        OBVIOUS
      <3> HIDE DEF g
      <3> QED
        BY <1>3, <1>4, <3>3, <3>4, <3>5
    <2>5. \A s \in SUBSET T : s # {} => s \ {Chosen(s)} \in SUBSET T /\ s \ {Chosen(s)} # T
      BY DEF Chosen
    <2>6. ASSUME NEW s \in SUBSET T
          PROVE  g[s] = IF s = {} THEN base ELSE Op(what, of, Chosen(s), g[s \ {Chosen(s)}])
      <3>1. CASE s = {}
        BY <3>1
      <3>2. CASE s # {}
        <4>1. g[s] = Op(what, of, Chosen(s), F(s \ {Chosen(s)}))
          BY <3>2
        <4>2. g[s \ {Chosen(s)}] = F(s \ {Chosen(s)})
          BY <2>4, <2>5, <3>2
        <4> HIDE DEF g, F
        <4> QED
          BY <3>2, <4>1, <4>2
      <3> QED
        BY <3>1, <3>2
    <2>7. g = [s \in SUBSET T |-> g[s]]
      OBVIOUS
    <2> HIDE DEF g
    <2>8. g = [s \in SUBSET T |-> IF s = {} THEN base ELSE Op(what, of, Chosen(s), g[s \ {Chosen(s)}])]
      BY <2>6, <2>7, Zenon
    <2>9. Can(T)
      BY <2>8 DEF Folds
    <2> QED
      BY <2>3, <2>9
  <1>6. Can(S) /\ S \in SUBSET S
    BY <1>5
  <1>7. S # {} => Chosen(S) \in S
    BY DEF Chosen
  <1> HIDE DEF Can
  <1> QED
    BY <1>3, <1>4, <1>6, <1>7

(* The maps of the resources in S, in all. *)
Sum(of, S) == Fold("sum", of, 0, S)

(* The sum is taken one resource at a time.                                *)
LEMMA SumTaken ==
  ASSUME NEW of, NEW S, IsFiniteSet(S)
  PROVE  /\ Sum(of, {}) = 0
         /\ S # {} => \E x \in S : Sum(of, S) = of[x].maps + Sum(of, S \ {x})
  <1>1. S # {} => \E x \in S : Sum(of, S) = Op("sum", of, x, Sum(of, S \ {x}))
    BY FoldTaken DEF Sum
  <1>2. Sum(of, {}) = 0
    BY FoldTaken, FS_EmptySet DEF Sum
  <1>3. \A x, n : Op("sum", of, x, n) = of[x].maps + n
    BY DEF Op
  <1> HIDE DEF Sum
  <1> QED
    BY <1>1, <1>2, <1>3

(* A sum of counts is a count. *)
LEMMA SumIsNat ==
  ASSUME NEW of, NEW S, IsFiniteSet(S), \A x \in S : of[x].maps \in Nat
  PROVE  Sum(of, S) \in Nat
  <1> DEFINE Bad == {T \in SUBSET S : Sum(of, T) \notin Nat}
  <1>1. SUFFICES ASSUME Bad # {} PROVE FALSE
    BY <1>1
  <1>2. PICK T \in Bad : \A y \in T : T \ {y} \notin Bad
    BY <1>1, SmallestSet
  <1>3. IsFiniteSet(T) /\ T \in SUBSET S
    BY <1>2, FS_Subset
  <1>4. T # {}
    <2>1. Sum(of, {}) = 0 /\ Sum(of, T) \notin Nat
      BY <1>2, SumTaken
    <2> HIDE DEF Bad
    <2> QED
      BY <2>1
  <1>5. PICK x \in T : Sum(of, T) = of[x].maps + Sum(of, T \ {x})
    BY <1>3, <1>4, SumTaken
  <1>6. Sum(of, T \ {x}) \in Nat /\ of[x].maps \in Nat
    BY <1>2, <1>3
  <1> QED
    BY <1>2, <1>5, <1>6

(* Any resource may be taken out.                                          *)
LEMMA SumWithout ==
  ASSUME NEW of, NEW S, IsFiniteSet(S), \A x \in S : of[x].maps \in Nat, NEW x \in S
  PROVE  Sum(of, S) = of[x].maps + Sum(of, S \ {x})
  <1> DEFINE Splits(T) == \A y \in T : Sum(of, T) = of[y].maps + Sum(of, T \ {y})
             Bad == {T \in SUBSET S : ~ Splits(T)}
  <1>1. SUFFICES ASSUME Bad # {} PROVE FALSE
    BY <1>1
  <1>2. PICK T \in Bad : \A y \in T : T \ {y} \notin Bad
    BY <1>1, SmallestSet
  <1>3. T \in SUBSET S /\ ~ Splits(T) /\ \A y \in T : Splits(T \ {y})
    BY <1>2
  <1>4. IsFiniteSet(T) /\ \A y \in T : of[y].maps \in Nat
    BY <1>3, FS_Subset
  <1>5. PICK y \in T : Sum(of, T) # of[y].maps + Sum(of, T \ {y})
    BY <1>3
  <1>6. PICK c \in T : Sum(of, T) = of[c].maps + Sum(of, T \ {c})
    BY <1>4, <1>5, SumTaken
  <1>7. c # y
    BY <1>5, <1>6
  <1>8. (T \ {c}) \ {y} = (T \ {y}) \ {c}
    OBVIOUS
  <1>9. /\ Sum(of, T \ {c}) = of[y].maps + Sum(of, (T \ {c}) \ {y})
        /\ Sum(of, T \ {y}) = of[c].maps + Sum(of, (T \ {c}) \ {y})
    BY <1>3, <1>7, <1>8, SMTT(30)
  <1>10. Sum(of, (T \ {c}) \ {y}) \in Nat /\ of[y].maps \in Nat /\ of[c].maps \in Nat
    <2>1. IsFiniteSet((T \ {c}) \ {y}) /\ (T \ {c}) \ {y} \subseteq T
      BY <1>4, FS_Subset
    <2> QED
      BY <1>4, <2>1, SumIsNat
  <1> HIDE DEF Splits, Bad
  <1> QED
    BY <1>5, <1>6, <1>9, <1>10

(* The sum depends on the maps of its resources only.                      *)
LEMMA SumSame ==
  ASSUME NEW of, NEW other, NEW S, IsFiniteSet(S),
         \A x \in S : of[x].maps \in Nat /\ other[x].maps = of[x].maps
  PROVE  Sum(other, S) = Sum(of, S)
  <1> DEFINE Bad == {T \in SUBSET S : Sum(other, T) # Sum(of, T)}
  <1>1. SUFFICES ASSUME Bad # {} PROVE FALSE
    BY <1>1
  <1>2. PICK T \in Bad : \A y \in T : T \ {y} \notin Bad
    BY <1>1, SmallestSet
  <1>3. /\ IsFiniteSet(T) /\ T \in SUBSET S
        /\ \A y \in T : of[y].maps \in Nat /\ other[y].maps \in Nat
    BY <1>2, FS_Subset
  <1>4. T # {}
    BY <1>2, <1>3, SumTaken
  <1>5. PICK x \in T : Sum(of, T) = of[x].maps + Sum(of, T \ {x})
    BY <1>3, <1>4, SumTaken
  <1>6. Sum(other, T) = other[x].maps + Sum(other, T \ {x})
    BY <1>3, SumWithout
  <1>7. Sum(other, T \ {x}) = Sum(of, T \ {x})
    BY <1>2, <1>3
  <1> QED
    BY <1>2, <1>3, <1>5, <1>6, <1>7

(* Resources without maps add nothing.                                     *)
LEMMA SumOfNone ==
  ASSUME NEW of, NEW S, IsFiniteSet(S), \A x \in S : of[x].maps = 0
  PROVE  Sum(of, S) = 0
  <1> DEFINE Bad == {T \in SUBSET S : Sum(of, T) # 0}
  <1>1. SUFFICES ASSUME Bad # {} PROVE FALSE
    BY <1>1
  <1>2. PICK T \in Bad : \A y \in T : T \ {y} \notin Bad
    BY <1>1, SmallestSet
  <1>3. IsFiniteSet(T) /\ T \in SUBSET S
    BY <1>2, FS_Subset
  <1>4. T # {}
    BY <1>2, <1>3, SumTaken
  <1>5. PICK x \in T : Sum(of, T) = of[x].maps + Sum(of, T \ {x})
    BY <1>3, <1>4, SumTaken
  <1>6. Sum(of, T \ {x}) = 0 /\ of[x].maps = 0
    BY <1>2, <1>3
  <1> QED
    BY <1>2, <1>5, <1>6

(* A set of which no more than one element is left, as the sum counts it.  *)
LEMMA SumOfSome ==
  ASSUME NEW of, NEW S, IsFiniteSet(S), \A x \in S : of[x].maps \in Nat, NEW x \in S
  PROVE  Sum(of, S) >= of[x].maps /\ (Sum(of, S) > 0 => \E y \in S : of[y].maps > 0)
  <1>1. Sum(of, S) = of[x].maps + Sum(of, S \ {x})
    BY SumWithout
  <1>2. IsFiniteSet(S \ {x}) /\ \A y \in S \ {x} : of[y].maps \in Nat
    BY FS_Subset
  <1>3. Sum(of, S \ {x}) \in Nat /\ of[x].maps \in Nat
    BY <1>2, SumIsNat
  <1>4. ASSUME Sum(of, S) > 0, ~ \E y \in S : of[y].maps > 0 PROVE FALSE
    <2>1. \A y \in S : of[y].maps = 0
      BY <1>4
    <2>2. Sum(of, S) = 0
      BY <2>1, SumOfNone
    <2> QED
      BY <1>4, <2>2
  <1> QED
    BY <1>1, <1>3, <1>4
-----------------------------------------------------------------------------
(* What is known of the driver's objects "v" while the resources in D and  *)
(* the heaps in K of a live device remain.                                 *)
IsState(v) ==
  /\ v = [objects |-> v.objects, memory |-> v.memory, mapped |-> v.mapped, mappings |-> v.mappings,
          misuse |-> v.misuse, dead |-> v.dead]
  /\ v.dead = FALSE

Record ==
  [object : Objects, memory : Memories \cup {None}, offset : Nat, size : Nat, visible : BOOLEAN,
   ownsObject : BOOLEAN, ownsMemory : BOOLEAN, maps : 0 .. MaxMaps]

(* A resource is committed, placed in a heap or the host's.                *)
Sorted(s, given) ==
  \/ s.ownsObject /\ s.ownsMemory /\ s.memory \in Memories \ given
  \/ s.ownsObject /\ ~ s.ownsMemory /\ s.memory \in given
  \/ ~ s.ownsObject /\ ~ s.ownsMemory /\ s.memory = None /\ s.maps = 0

Given(hs, K) == {hs[h] : h \in K}

Remaining(rs, D, hs, K) ==
  /\ IsFiniteSet(D) /\ IsFiniteSet(K)
  /\ \A r \in D : rs[r] \in Record /\ Sorted(rs[r], Given(hs, K))
  /\ \A h \in K : hs[h] \in Memories
  /\ \A r, q \in D : rs[r].ownsObject /\ rs[q].ownsObject /\ rs[r].object = rs[q].object => r = q
  /\ \A r, q \in D : rs[r].ownsMemory /\ rs[q].ownsMemory /\ rs[r].memory = rs[q].memory => r = q
  /\ \A h, k \in K : hs[h] = hs[k] => h = k
  /\ \A r \in D : rs[r].ownsObject => rs[r].object \notin HostObjects

OwnedObjects(rs, D) == {rs[r].object : r \in {q \in D : rs[q].ownsObject}}
OwnedMemory(rs, D) == {rs[r].memory : r \in {q \in D : rs[q].ownsMemory}}

Belongs(v, rs, D, hs, K) ==
  /\ v.objects = HostObjects \cup OwnedObjects(rs, D)
  /\ DOMAIN v.memory = OwnedMemory(rs, D) \cup Given(hs, K)
  /\ v.memory = [m \in DOMAIN v.memory |-> v.memory[m]]
  /\ \A m \in DOMAIN v.memory : v.memory[m] \in [size : Nat, type : Types]

Users(rs, D, m) == {r \in D : rs[r].memory = m}
Held(rs, D, m) == Sum(rs, Users(rs, D, m))

Counted(v, rs, D) ==
  \A m : /\ (m \in DOMAIN v.mappings) <=> (Held(rs, D, m) > 0)
         /\ m \in DOMAIN v.mappings => v.mappings[m] = Held(rs, D, m)
         /\ (m \in v.mapped) <=> (Held(rs, D, m) > 0)

Exact(v, rs, D, hs, K) ==
  /\ IsState(v) /\ v.misuse = {}
  /\ Remaining(rs, D, hs, K) /\ Belongs(v, rs, D, hs, K) /\ Counted(v, rs, D)

(* What a memory's resources hold is a number.                             *)
LEMMA HeldIsNat ==
  ASSUME NEW rs, NEW D, IsFiniteSet(D), \A r \in D : rs[r] \in Record, NEW m
  PROVE  /\ IsFiniteSet(Users(rs, D, m)) /\ \A r \in Users(rs, D, m) : r \in D /\ rs[r].maps \in Nat
         /\ Held(rs, D, m) \in Nat
  <1>1. IsFiniteSet(Users(rs, D, m))
    BY FS_Subset DEF Users
  <1>2. \A r \in D : rs[r].maps \in Nat
    BY ResourcesAssumption DEF Record
  <1>3. \A r \in Users(rs, D, m) : r \in D /\ rs[r].maps \in Nat
    BY <1>2 DEF Users
  <1> QED
    BY <1>1, <1>3, SumIsNat DEF Held

(* Memory that is mapped belongs to a resource.                            *)
LEMMA HeldBySome ==
  ASSUME NEW rs, NEW D, IsFiniteSet(D), \A r \in D : rs[r] \in Record, NEW m, Held(rs, D, m) > 0
  PROVE  \E r \in D : rs[r].memory = m /\ rs[r].maps > 0
  <1>1. /\ IsFiniteSet(Users(rs, D, m)) /\ \A r \in Users(rs, D, m) : r \in D /\ rs[r].maps \in Nat
        /\ Held(rs, D, m) \in Nat
    BY HeldIsNat
  <1>2. Users(rs, D, m) # {}
    <2>1. Sum(rs, {}) = 0
      BY SumTaken, FS_EmptySet
    <2> QED
      BY <2>1 DEF Held
  <1>3. \E r \in Users(rs, D, m) : rs[r].maps > 0
    BY <1>1, <1>2, SumOfSome DEF Held
  <1> QED
    BY <1>3 DEF Users

(* Only the resource's own memory loses what it held.                      *)
LEMMA HeldWithout ==
  ASSUME NEW rs, NEW D, IsFiniteSet(D), \A r \in D : rs[r] \in Record, NEW r \in D, NEW m
  PROVE  /\ rs[r].memory = m => Held(rs, D, m) = rs[r].maps + Held(rs, D \ {r}, m)
         /\ rs[r].memory # m => Held(rs, D \ {r}, m) = Held(rs, D, m)
  <1>1. IsFiniteSet(Users(rs, D, m)) /\ \A q \in Users(rs, D, m) : rs[q].maps \in Nat
    BY HeldIsNat
  <1>2. CASE rs[r].memory = m
    <2>1. r \in Users(rs, D, m) /\ Users(rs, D \ {r}, m) = Users(rs, D, m) \ {r}
      BY <1>2 DEF Users
    <2>2. Sum(rs, Users(rs, D, m)) = rs[r].maps + Sum(rs, Users(rs, D, m) \ {r})
      BY <1>1, <2>1, SumWithout
    <2> QED
      BY <1>2, <2>1, <2>2 DEF Held
  <1>3. CASE rs[r].memory # m
    <2>1. Users(rs, D \ {r}, m) = Users(rs, D, m)
      BY <1>3 DEF Users
    <2> QED
      BY <1>3, <2>1 DEF Held
  <1> QED
    BY <1>2, <1>3

(* Resources without memory hold nothing.                                  *)
LEMMA HeldWithoutIdle ==
  ASSUME NEW rs, NEW D, IsFiniteSet(D), \A r \in D : rs[r] \in Record,
         \A r \in D : rs[r].memory = None => rs[r].maps = 0,
         NEW E \in SUBSET D, \A r \in E : rs[r].memory = None, NEW m
  PROVE  Held(rs, D \ E, m) = Held(rs, D, m)
  <1>1. CASE m = None
    <2>1. Held(rs, D, m) = 0
      <3>1. IsFiniteSet(Users(rs, D, m)) /\ \A r \in Users(rs, D, m) : rs[r].maps = 0
        <4>1. IsFiniteSet(Users(rs, D, m))
          BY HeldIsNat
        <4>2. \A r \in Users(rs, D, m) : rs[r].maps = 0
          BY <1>1 DEF Users
        <4> QED
          BY <4>1, <4>2
      <3> QED
        BY <3>1, SumOfNone DEF Held
    <2>2. Held(rs, D \ E, m) = 0
      <3>1. IsFiniteSet(D \ E)
        BY FS_Subset
      <3>2. IsFiniteSet(Users(rs, D \ E, m)) /\ \A r \in Users(rs, D \ E, m) : rs[r].maps = 0
        <4>1. IsFiniteSet(Users(rs, D \ E, m))
          BY <3>1, HeldIsNat
        <4>2. \A r \in Users(rs, D \ E, m) : rs[r].maps = 0
          BY <1>1 DEF Users
        <4> QED
          BY <4>1, <4>2
      <3> QED
        BY <3>2, SumOfNone DEF Held
    <2> QED
      BY <2>1, <2>2
  <1>2. CASE m # None
    <2>1. Users(rs, D \ E, m) = Users(rs, D, m)
      BY <1>2 DEF Users
    <2> QED
      BY <2>1 DEF Held
  <1> QED
    BY <1>1, <1>2

(* What is held depends on the memory and the maps alone.                  *)
LEMMA HeldSame ==
  ASSUME NEW rs, NEW new, NEW D, IsFiniteSet(D), \A r \in D : rs[r] \in Record,
         \A r \in D : new[r].memory = rs[r].memory /\ new[r].maps = rs[r].maps, NEW m
  PROVE  Held(new, D, m) = Held(rs, D, m)
  <1>1. Users(new, D, m) = Users(rs, D, m)
    BY DEF Users
  <1>2. IsFiniteSet(Users(rs, D, m)) /\ \A r \in Users(rs, D, m) : r \in D /\ rs[r].maps \in Nat
    BY HeldIsNat
  <1>3. Sum(new, Users(rs, D, m)) = Sum(rs, Users(rs, D, m))
    BY <1>2, SumSame
  <1> QED
    BY <1>1, <1>3 DEF Held

(* No resource counts for none.                                            *)
LEMMA HeldByNone ==
  \A rs, m : Held(rs, {}, m) = 0
  <1>1. \A rs, m : Users(rs, {}, m) = {}
    BY DEF Users
  <1>2. \A rs : Sum(rs, {}) = 0
    BY SumTaken, FS_EmptySet
  <1> QED
    BY <1>1, <1>2 DEF Held
-----------------------------------------------------------------------------
(* A state is known by its parts.                                          *)
LEMMA RemainingParts ==
  ASSUME NEW rs, NEW D, NEW hs, NEW K, Remaining(rs, D, hs, K)
  PROVE  /\ IsFiniteSet(D) /\ IsFiniteSet(K)
         /\ \A r \in D : rs[r] \in Record /\ Sorted(rs[r], Given(hs, K))
         /\ \A r \in D : rs[r].memory = None => rs[r].maps = 0
         /\ \A r \in D : rs[r].maps \in Nat /\ (rs[r].ownsMemory => rs[r].ownsObject)
  <1>1. \A r \in D : rs[r].maps \in Nat
    BY ResourcesAssumption DEF Remaining, Record
  <1>2. None \notin Memories /\ Given(hs, K) \subseteq Memories
    BY ResourcesAssumption DEF Remaining, Given
  <1>3. \A r \in D : rs[r].memory = None => rs[r].maps = 0
    BY <1>2 DEF Remaining, Sorted
  <1> QED
    BY <1>1, <1>3 DEF Remaining, Sorted
-----------------------------------------------------------------------------
(* A resource that is unmapped takes what it holds from the count.         *)
LEMMA UnmappedExact ==
  ASSUME NEW v, NEW rs, NEW D, NEW hs, NEW K, Exact(v, rs, D, hs, K), NEW r \in D
  PROVE  LET u == Memory!Unmapped(v, rs[r])
         IN /\ IsState(u) /\ u.objects = v.objects /\ u.memory = v.memory /\ u.misuse = {}
            /\ Counted(u, rs, D \ {r})
  <1> DEFINE m == rs[r].memory
             n == rs[r].maps
             u == Memory!Unmapped(v, rs[r])
             H(x) == Held(rs, D, x)
             G(x) == Held(rs, D \ {r}, x)
  <1>1. Remaining(rs, D, hs, K) /\ Counted(v, rs, D) /\ IsState(v) /\ v.misuse = {}
    BY DEF Exact
  <1>2. /\ IsFiniteSet(D) /\ \A q \in D : rs[q] \in Record
        /\ n \in Nat /\ (m = None => n = 0)
    BY <1>1, RemainingParts
  <1>3. \A x : H(x) \in Nat /\ G(x) \in Nat
    <2>1. IsFiniteSet(D \ {r}) /\ \A q \in D \ {r} : rs[q] \in Record
      BY <1>2, FS_Subset
    <2> QED
      BY <1>2, <2>1, HeldIsNat
  <1>4. H(m) = n + G(m) /\ \A x : x # m => G(x) = H(x)
    BY <1>2, HeldWithout
  <1>5. \A x : /\ (x \in DOMAIN v.mappings) <=> (H(x) > 0)
               /\ x \in DOMAIN v.mappings => v.mappings[x] = H(x)
               /\ (x \in v.mapped) <=> (H(x) > 0)
    BY <1>1 DEF Counted
  <1> HIDE DEF H, G, m, n
  <1>6. CASE m = None \/ n = 0 \/ m \notin DOMAIN v.mappings
    <2>1. u = v
      BY <1>6 DEF Memory!Unmapped, m, n
    <2>2. n = 0
      <3>1. m \notin DOMAIN v.mappings => n = 0
        BY <1>2, <1>3, <1>4, <1>5
      <3> QED
        BY <1>2, <1>6, <3>1
    <2>3. \A x : G(x) = H(x)
      <3>1. G(m) = H(m)
        BY <1>3, <1>4, <2>2
      <3> QED
        BY <1>4, <3>1
    <2>4. Counted(v, rs, D \ {r})
      BY <1>5, <2>3 DEF Counted, G, H
    <2> QED
      BY <1>1, <2>1, <2>4
  <1>7. CASE ~ (m = None \/ n = 0 \/ m \notin DOMAIN v.mappings)
    <2>1. v.mappings[m] = n + G(m) /\ m \in v.mapped /\ m \in DOMAIN v.mappings
      BY <1>4, <1>5, <1>7
    <2>2. Memory!Released(v, rs[r]) = n
      BY <1>2, <1>3, <2>1 DEF Memory!Released, m, n
    <2>3. v.mappings[m] - Memory!Released(v, rs[r]) = G(m)
      BY <1>2, <1>3, <2>1, <2>2
    <2>4. CASE G(m) > 0
      <3>1. u = [v EXCEPT !.mappings[m] = G(m)]
        BY <1>7, <2>3, <2>4 DEF Memory!Unmapped, m, n
      <3>2. /\ IsState(u) /\ u.objects = v.objects /\ u.memory = v.memory /\ u.misuse = {}
            /\ u.mapped = v.mapped /\ u.mappings = [v.mappings EXCEPT ![m] = G(m)]
        BY <1>1, <3>1 DEF IsState
      <3>3. \A x : /\ (x \in DOMAIN u.mappings) <=> (G(x) > 0)
                   /\ x \in DOMAIN u.mappings => u.mappings[x] = G(x)
                   /\ (x \in u.mapped) <=> (G(x) > 0)
        <4> HIDE DEF u
        <4>1. TAKE x
        <4>2. CASE x = m
          BY <1>2, <1>3, <1>4, <1>5, <2>1, <2>4, <3>2, <4>2
        <4>3. CASE x # m
          BY <1>4, <1>5, <3>2, <4>3
        <4> QED
          BY <4>2, <4>3
      <3> HIDE DEF u
      <3>4. Counted(u, rs, D \ {r})
        BY <3>3 DEF Counted, G
      <3> QED
        BY <3>2, <3>4 DEF u
    <2>5. CASE ~ G(m) > 0
      <3>1. u = [v EXCEPT !.mappings = Memory!Drop(@, m), !.mapped = @ \ {m},
                          !.misuse = @ \cup Memory!Wrong(v.dead, m \in v.mapped, "unmapped twice")]
        BY <1>7, <2>3, <2>5 DEF Memory!Unmapped, m, n
      <3>2. Memory!Wrong(v.dead, m \in v.mapped, "unmapped twice") = {}
        BY <1>1, <2>1 DEF Memory!Wrong, IsState
      <3>3. /\ IsState(u) /\ u.objects = v.objects /\ u.memory = v.memory /\ u.misuse = {}
            /\ u.mapped = v.mapped \ {m}
            /\ u.mappings = [x \in DOMAIN v.mappings \ {m} |-> v.mappings[x]]
        BY <1>1, <3>1, <3>2 DEF IsState, Memory!Drop
      <3>4. \A x : /\ (x \in DOMAIN u.mappings) <=> (G(x) > 0)
                   /\ x \in DOMAIN u.mappings => u.mappings[x] = G(x)
                   /\ (x \in u.mapped) <=> (G(x) > 0)
        <4> HIDE DEF u
        <4>1. TAKE x
        <4>2. CASE x = m
          BY <2>5, <3>3, <4>2
        <4>3. CASE x # m
          BY <1>4, <1>5, <3>3, <4>3
        <4> QED
          BY <4>2, <4>3
      <3> HIDE DEF u
      <3>5. Counted(u, rs, D \ {r})
        BY <3>4 DEF Counted, G
      <3> QED
        BY <3>3, <3>5 DEF u
    <2> QED
      BY <2>4, <2>5
  <1> QED
    BY <1>6, <1>7

(* Fewer resources are left with nothing that they did not have.           *)
LEMMA RemainingWithout ==
  ASSUME NEW rs, NEW D, NEW hs, NEW K, Remaining(rs, D, hs, K), NEW E \in SUBSET D
  PROVE  Remaining(rs, D \ E, hs, K)
  <1>1. IsFiniteSet(D \ E)
    BY FS_Subset DEF Remaining
  <1> QED
    BY <1>1 DEF Remaining

(* A destroyed resource's object is freed once, and its memory if it was   *)
(* its own.                                                                *)
LEMMA DestroyedOwner ==
  ASSUME NEW v, NEW rs, NEW D, NEW hs, NEW K, Exact(v, rs, D, hs, K),
         NEW r \in D, rs[r].ownsObject
  PROVE  Exact(Memory!Destroyed(v, rs[r]), rs, D \ {r}, hs, K)
  <1> DEFINE s == rs[r]
             u == Memory!Unmapped(v, s)
             g == Memory!ObjectDestroyed(u, s.object)
             w == Memory!Destroyed(v, s)
  <1>1. /\ IsState(u) /\ u.objects = v.objects /\ u.memory = v.memory /\ u.misuse = {}
        /\ Counted(u, rs, D \ {r})
    BY UnmappedExact
  <1>2. Remaining(rs, D, hs, K) /\ Belongs(v, rs, D, hs, K)
    BY DEF Exact
  <1>3. s.object \in v.objects /\ s.object \notin HostObjects
    BY <1>2 DEF Belongs, OwnedObjects, Remaining
  <1>4. OwnedObjects(rs, D \ {r}) = OwnedObjects(rs, D) \ {s.object}
    BY <1>2 DEF OwnedObjects, Remaining
  <1>5. w = IF s.ownsMemory THEN Memory!MemoryFreed(g, s.memory) ELSE g
    BY DEF Memory!Destroyed
  <1> HIDE DEF u
  <1>6. Memory!Wrong(u.dead, s.object \in u.objects, "destroyed twice") = {}
    BY <1>1, <1>3 DEF Memory!Wrong, IsState
  <1>7. /\ IsState(g) /\ g.objects = v.objects \ {s.object} /\ g.memory = v.memory /\ g.misuse = {}
        /\ g.mapped = u.mapped /\ g.mappings = u.mappings
    <2>1. g = [u EXCEPT !.objects = @ \ {s.object},
                        !.misuse = @ \cup Memory!Wrong(u.dead, s.object \in u.objects, "destroyed twice")]
      BY DEF Memory!ObjectDestroyed
    <2> HIDE DEF g
    <2> QED
      BY <1>1, <1>6, <2>1 DEF IsState
  <1> HIDE DEF g, w
  <1>8. g.objects = HostObjects \cup OwnedObjects(rs, D \ {r})
    BY <1>2, <1>3, <1>4, <1>7 DEF Belongs
  <1>9. Remaining(rs, D \ {r}, hs, K)
    BY <1>2, RemainingWithout
  <1>10. CASE ~ s.ownsMemory
    <2>1. w = g
      BY <1>5, <1>10
    <2>2. OwnedMemory(rs, D \ {r}) = OwnedMemory(rs, D)
      BY <1>10 DEF OwnedMemory
    <2>3. Belongs(w, rs, D \ {r}, hs, K)
      BY <1>2, <1>7, <1>8, <2>1, <2>2 DEF Belongs
    <2>4. Counted(w, rs, D \ {r})
      BY <1>1, <1>7, <2>1 DEF Counted
    <2> QED
      BY <1>7, <1>9, <2>1, <2>3, <2>4 DEF Exact, w
  <1>11. CASE s.ownsMemory
    <2> DEFINE m == s.memory
    <2>1. w = Memory!MemoryFreed(g, m)
      BY <1>5, <1>11
    <2>2. m \in DOMAIN v.memory
      BY <1>2, <1>11 DEF Belongs, OwnedMemory
    <2>3. m \in Memories \ Given(hs, K)
      BY <1>2, <1>11 DEF Remaining, Sorted
    <2>4. OwnedMemory(rs, D \ {r}) = OwnedMemory(rs, D) \ {m}
      BY <1>2, <1>11 DEF OwnedMemory, Remaining
    <2>5. Held(rs, D \ {r}, m) = 0
      <3>1. \A q \in D \ {r} : rs[q].memory # m
        <4>1. TAKE q \in D \ {r}
        <4>2. Sorted(rs[q], Given(hs, K)) /\ (rs[q].ownsMemory => rs[q].memory # m)
          BY <1>2, <1>11 DEF Remaining
        <4> QED
          BY <2>3, <4>2, ResourcesAssumption DEF Sorted
      <3>2. Users(rs, D \ {r}, m) = {}
        BY <3>1 DEF Users
      <3> QED
        BY <3>2, SumTaken, FS_EmptySet DEF Held
    <2>6. Memory!Wrong(g.dead, m \in DOMAIN g.memory, "freed twice") = {}
      BY <1>7, <2>2 DEF Memory!Wrong, IsState
    <2>7. /\ IsState(w) /\ w.objects = g.objects /\ w.misuse = {} /\ w.mappings = g.mappings
          /\ w.mapped = g.mapped \ {m}
          /\ w.memory = [x \in DOMAIN v.memory \ {m} |-> v.memory[x]]
      BY <1>7, <2>1, <2>6 DEF IsState, Memory!MemoryFreed, Memory!Drop
    <2>8. m \notin g.mapped
      BY <1>1, <1>7, <2>5 DEF Counted
    <2>9. Counted(w, rs, D \ {r})
      <3>1. w.mapped = u.mapped /\ w.mappings = u.mappings
        BY <1>7, <2>7, <2>8
      <3> QED
        BY <1>1, <3>1 DEF Counted
    <2>10. Belongs(w, rs, D \ {r}, hs, K)
      <3>1. DOMAIN w.memory = OwnedMemory(rs, D \ {r}) \cup Given(hs, K)
        BY <1>2, <2>3, <2>4, <2>7 DEF Belongs
      <3>2. /\ w.memory = [x \in DOMAIN w.memory |-> w.memory[x]]
            /\ \A x \in DOMAIN w.memory : w.memory[x] \in [size : Nat, type : Types]
        BY <1>2, <2>7 DEF Belongs
      <3>3. w.objects = HostObjects \cup OwnedObjects(rs, D \ {r})
        BY <1>8, <2>7
      <3> QED
        BY <3>1, <3>2, <3>3 DEF Belongs
    <2> QED
      BY <1>9, <2>7, <2>9, <2>10 DEF Exact, w
  <1> QED
    BY <1>10, <1>11

(* Whichever resource is destroyed, under however many handles the host's  *)
(* object is known.                                                        *)
LEMMA DestroyedExact ==
  ASSUME NEW v, NEW rs, NEW D, NEW hs, NEW K, Exact(v, rs, D, hs, K),
         NEW s, NEW E \in SUBSET D, E # {}, \A r \in E : rs[r] = s
  PROVE  Exact(Memory!Destroyed(v, s), rs, D \ E, hs, K)
  <1>1. PICK r \in E : rs[r] = s
    OBVIOUS
  <1>2. Remaining(rs, D, hs, K) /\ Belongs(v, rs, D, hs, K) /\ Counted(v, rs, D)
    BY DEF Exact
  <1>3. CASE s.ownsObject
    <2>1. E = {r}
      BY <1>1, <1>2, <1>3 DEF Remaining
    <2> QED
      BY <1>1, <1>3, <2>1, DestroyedOwner
  <1>4. CASE ~ s.ownsObject
    <2>1. ~ s.ownsMemory /\ s.memory = None
      BY <1>1, <1>2, <1>4 DEF Remaining, Sorted
    <2>2. Memory!Destroyed(v, s) = v
      BY <1>4, <2>1 DEF Memory!Destroyed, Memory!Unmapped
    <2>3. \A m : Held(rs, D \ E, m) = Held(rs, D, m)
      <3>1. /\ IsFiniteSet(D) /\ \A q \in D : rs[q] \in Record
            /\ \A q \in D : rs[q].memory = None => rs[q].maps = 0
            /\ \A q \in E : rs[q].memory = None
        BY <1>2, <2>1, RemainingParts
      <3> QED
        BY <3>1, HeldWithoutIdle
    <2>4. Counted(v, rs, D \ E)
      BY <1>2, <2>3 DEF Counted
    <2>5. \A q \in E : ~ rs[q].ownsObject /\ ~ rs[q].ownsMemory
      BY <1>4, <2>1
    <2>6. OwnedObjects(rs, D \ E) = OwnedObjects(rs, D) /\ OwnedMemory(rs, D \ E) = OwnedMemory(rs, D)
      BY <2>5 DEF OwnedObjects, OwnedMemory
    <2>7. Belongs(v, rs, D \ E, hs, K)
      BY <1>2, <2>6 DEF Belongs
    <2>8. Remaining(rs, D \ E, hs, K)
      BY <1>2, RemainingWithout
    <2> QED
      BY <2>2, <2>4, <2>7, <2>8 DEF Exact
  <1> QED
    BY <1>3, <1>4

(* A heap that nothing is placed in any more gives its memory back.        *)
LEMMA FreedExact ==
  ASSUME NEW v, NEW rs, NEW D, NEW hs, NEW K, Exact(v, rs, D, hs, K),
         NEW h \in K, \A r \in D : rs[r].memory # hs[h]
  PROVE  Exact(Memory!MemoryFreed(v, hs[h]), rs, D, hs, K \ {h})
  <1> DEFINE m == hs[h]
             w == Memory!MemoryFreed(v, m)
  <1>1. Remaining(rs, D, hs, K) /\ Belongs(v, rs, D, hs, K) /\ Counted(v, rs, D) /\ IsState(v) /\ v.misuse = {}
    BY DEF Exact
  <1>2. m \in DOMAIN v.memory
    BY <1>1 DEF Belongs, Given
  <1>3. Given(hs, K \ {h}) = Given(hs, K) \ {m}
    BY <1>1 DEF Given, Remaining
  <1>4. Memory!Wrong(v.dead, m \in DOMAIN v.memory, "freed twice") = {}
    BY <1>1, <1>2 DEF Memory!Wrong, IsState
  <1>5. /\ IsState(w) /\ w.objects = v.objects /\ w.misuse = {} /\ w.mappings = v.mappings
        /\ w.mapped = v.mapped \ {m}
        /\ w.memory = [x \in DOMAIN v.memory \ {m} |-> v.memory[x]]
    <2>1. w = [v EXCEPT !.memory = Memory!Drop(@, m), !.mapped = @ \ {m},
                        !.misuse = @ \cup Memory!Wrong(v.dead, m \in DOMAIN v.memory, "freed twice")]
      BY DEF Memory!MemoryFreed
    <2> HIDE DEF w
    <2> QED
      BY <1>1, <1>4, <2>1 DEF IsState, Memory!Drop
  <1>6. m \notin v.mapped
    <2>1. Users(rs, D, m) = {}
      BY DEF Users
    <2>2. Held(rs, D, m) = 0
      BY <2>1, SumTaken, FS_EmptySet DEF Held
    <2> QED
      BY <1>1, <2>2 DEF Counted
  <1> HIDE DEF w
  <1>7. Counted(w, rs, D)
    <2>1. w.mapped = v.mapped
      BY <1>5, <1>6
    <2> QED
      BY <1>1, <1>5, <2>1 DEF Counted
  <1>8. \A r \in D : rs[r].ownsMemory => rs[r].memory # m
    OBVIOUS
  <1>9. Belongs(w, rs, D, hs, K \ {h})
    <2>1. m \notin OwnedMemory(rs, D)
      BY <1>8 DEF OwnedMemory
    <2>2. DOMAIN w.memory = OwnedMemory(rs, D) \cup Given(hs, K \ {h})
      BY <1>1, <1>3, <1>5, <2>1 DEF Belongs
    <2>3. /\ w.memory = [x \in DOMAIN w.memory |-> w.memory[x]]
          /\ \A x \in DOMAIN w.memory : w.memory[x] \in [size : Nat, type : Types]
      BY <1>1, <1>5 DEF Belongs
    <2> QED
      BY <1>1, <1>5, <2>2, <2>3 DEF Belongs
  <1>10. Remaining(rs, D, hs, K \ {h})
    <2>1. IsFiniteSet(K \ {h})
      BY <1>1, FS_Subset DEF Remaining
    <2>2. \A r \in D : Sorted(rs[r], Given(hs, K \ {h}))
      BY <1>1, <1>3 DEF Remaining, Sorted
    <2> QED
      BY <1>1, <2>1, <2>2 DEF Remaining
  <1> QED
    BY <1>5, <1>7, <1>9, <1>10 DEF Exact, w
-----------------------------------------------------------------------------
(* What is left is known of registries that agree on it.                   *)
LEMMA ExactSame ==
  ASSUME NEW v, NEW rs, NEW D, NEW hs, NEW K, Exact(v, rs, D, hs, K),
         NEW ns, \A r \in D : ns[r] = rs[r], NEW ks, \A h \in K : ks[h] = hs[h]
  PROVE  Exact(v, ns, D, ks, K)
  <1>1. /\ IsState(v) /\ v.misuse = {}
        /\ Remaining(rs, D, hs, K) /\ Belongs(v, rs, D, hs, K) /\ Counted(v, rs, D)
    BY DEF Exact
  <1>2. Given(ks, K) = Given(hs, K)
    BY DEF Given
  <1>3. OwnedObjects(ns, D) = OwnedObjects(rs, D) /\ OwnedMemory(ns, D) = OwnedMemory(rs, D)
    BY DEF OwnedObjects, OwnedMemory
  <1>4. \A m : Held(ns, D, m) = Held(rs, D, m)
    <2>1. IsFiniteSet(D) /\ \A r \in D : rs[r] \in Record
      BY <1>1, RemainingParts
    <2>2. \A r \in D : ns[r].memory = rs[r].memory /\ ns[r].maps = rs[r].maps
      OBVIOUS
    <2> QED
      BY <2>1, <2>2, HeldSame
  <1>5. Remaining(ns, D, ks, K)
    BY <1>1, <1>2 DEF Remaining
  <1>6. Belongs(v, ns, D, ks, K)
    BY <1>1, <1>2, <1>3 DEF Belongs
  <1>7. Counted(v, ns, D)
    BY <1>1, <1>4 DEF Counted
  <1> QED
    BY <1>1, <1>5, <1>6, <1>7 DEF Exact

(* A resource "x" that is new, with what it owns.                          *)
Newly(v, w, x, hs, K) ==
  /\ x \in Record /\ Sorted(x, Given(hs, K)) /\ x.maps = 0
  /\ x.ownsObject => x.object \notin v.objects
  /\ x.ownsMemory => x.memory \notin DOMAIN v.memory
  /\ IsState(w) /\ w.misuse = {} /\ w.mapped = v.mapped /\ w.mappings = v.mappings
  /\ w.objects = IF x.ownsObject THEN v.objects \cup {x.object} ELSE v.objects
  /\ DOMAIN w.memory = IF x.ownsMemory THEN DOMAIN v.memory \cup {x.memory} ELSE DOMAIN v.memory
  /\ w.memory = [m \in DOMAIN w.memory |-> w.memory[m]]
  /\ \A m \in DOMAIN w.memory : w.memory[m] \in [size : Nat, type : Types]

(* With it, what is known of the driver's objects stays exact. *)
LEMMA ResourceAdded ==
  ASSUME NEW v, NEW rs, NEW D, NEW hs, NEW K, Exact(v, rs, D, hs, K),
         NEW w, NEW x, Newly(v, w, x, hs, K), NEW r, r \notin D,
         NEW ns, \A q \in D : ns[q] = rs[q], ns[r] = x
  PROVE  Exact(w, ns, D \cup {r}, hs, K)
  <1>1. /\ IsState(v) /\ v.misuse = {}
        /\ Remaining(ns, D, hs, K) /\ Belongs(v, ns, D, hs, K) /\ Counted(v, ns, D)
    <2>1. Exact(v, ns, D, hs, K)
      BY ExactSame
    <2> QED
      BY <2>1 DEF Exact
  <1>2. \A q \in D : ns[q].ownsObject => ns[q].object \in v.objects
    BY <1>1 DEF Belongs, OwnedObjects
  <1>3. \A q \in D : ns[q].ownsMemory => ns[q].memory \in DOMAIN v.memory
    BY <1>1 DEF Belongs, OwnedMemory
  <1>4. x.ownsObject => x.object \notin HostObjects
    BY <1>1 DEF Belongs, Newly
  <1>5. Remaining(ns, D \cup {r}, hs, K)
    <2>1. IsFiniteSet(D \cup {r})
      BY <1>1, FS_AddElement DEF Remaining
    <2>2. \A q \in D \cup {r} : ns[q] \in Record /\ Sorted(ns[q], Given(hs, K))
      BY <1>1 DEF Remaining, Newly
    <2>3. \A q, p \in D \cup {r} : ns[q].ownsObject /\ ns[p].ownsObject /\ ns[q].object = ns[p].object => q = p
      BY <1>1, <1>2 DEF Remaining, Newly
    <2>4. \A q, p \in D \cup {r} : ns[q].ownsMemory /\ ns[p].ownsMemory /\ ns[q].memory = ns[p].memory => q = p
      BY <1>1, <1>3 DEF Remaining, Newly
    <2>5. \A q \in D \cup {r} : ns[q].ownsObject => ns[q].object \notin HostObjects
      BY <1>1, <1>4 DEF Remaining
    <2> QED
      BY <1>1, <2>1, <2>2, <2>3, <2>4, <2>5 DEF Remaining
  <1>6. Belongs(w, ns, D \cup {r}, hs, K)
    <2>1. OwnedObjects(ns, D \cup {r}) = OwnedObjects(ns, D) \cup (IF x.ownsObject THEN {x.object} ELSE {})
      BY DEF OwnedObjects
    <2>2. OwnedMemory(ns, D \cup {r}) = OwnedMemory(ns, D) \cup (IF x.ownsMemory THEN {x.memory} ELSE {})
      BY DEF OwnedMemory
    <2>3. w.objects = HostObjects \cup OwnedObjects(ns, D \cup {r})
      BY <1>1, <2>1 DEF Belongs, Newly
    <2>4. DOMAIN w.memory = OwnedMemory(ns, D \cup {r}) \cup Given(hs, K)
      BY <1>1, <2>2 DEF Belongs, Newly
    <2> QED
      BY <2>3, <2>4 DEF Belongs, Newly
  <1>7. \A m : Held(ns, D \cup {r}, m) = Held(ns, D, m)
    <2>1. TAKE m
    <2>2. IsFiniteSet(D \cup {r}) /\ \A q \in D \cup {r} : ns[q] \in Record
      BY <1>5, RemainingParts
    <2>3. (D \cup {r}) \ {r} = D
      OBVIOUS
    <2>4. /\ x.memory = m => Held(ns, D \cup {r}, m) = x.maps + Held(ns, (D \cup {r}) \ {r}, m)
          /\ x.memory # m => Held(ns, (D \cup {r}) \ {r}, m) = Held(ns, D \cup {r}, m)
      BY <2>2, HeldWithout
    <2>5. Held(ns, D, m) \in Nat
      <3>1. IsFiniteSet(D) /\ \A q \in D : ns[q] \in Record
        BY <1>1, RemainingParts
      <3> QED
        BY <3>1, HeldIsNat
    <2> QED
      BY <2>3, <2>4, <2>5 DEF Newly
  <1>8. Counted(w, ns, D \cup {r})
    BY <1>1, <1>7 DEF Counted, Newly
  <1> QED
    BY <1>5, <1>6, <1>8 DEF Exact, Newly

(* A heap that is new.                                                     *)
LEMMA HeapAdded ==
  ASSUME NEW v, NEW rs, NEW D, NEW hs, NEW K, Exact(v, rs, D, hs, K),
         NEW m \in Memories, m \notin DOMAIN v.memory, NEW h, h \notin K,
         NEW ks, \A k \in K : ks[k] = hs[k], ks[h] = m,
         NEW w, IsState(w), w.misuse = {}, w.mapped = v.mapped, w.mappings = v.mappings,
         w.objects = v.objects, DOMAIN w.memory = DOMAIN v.memory \cup {m},
         w.memory = [n \in DOMAIN w.memory |-> w.memory[n]],
         \A n \in DOMAIN w.memory : w.memory[n] \in [size : Nat, type : Types]
  PROVE  Exact(w, rs, D, ks, K \cup {h})
  <1>1. /\ IsState(v) /\ v.misuse = {}
        /\ Remaining(rs, D, ks, K) /\ Belongs(v, rs, D, ks, K) /\ Counted(v, rs, D)
    <2>1. Exact(v, rs, D, ks, K)
      BY ExactSame
    <2> QED
      BY <2>1 DEF Exact
  <1>2. Given(ks, K \cup {h}) = Given(ks, K) \cup {m}
    BY DEF Given
  <1>3. m \notin Given(ks, K) /\ \A q \in D : rs[q].ownsMemory => rs[q].memory # m
    BY <1>1 DEF Belongs, OwnedMemory
  <1>4. Remaining(rs, D, ks, K \cup {h})
    <2>1. IsFiniteSet(K \cup {h})
      BY <1>1, FS_AddElement DEF Remaining
    <2>2. \A q \in D : Sorted(rs[q], Given(ks, K \cup {h}))
      BY <1>1, <1>2, <1>3 DEF Remaining, Sorted
    <2>3. \A k, j \in K \cup {h} : ks[k] = ks[j] => k = j
      BY <1>1, <1>3 DEF Remaining, Given
    <2> QED
      BY <1>1, <2>1, <2>2, <2>3 DEF Remaining
  <1>5. Belongs(w, rs, D, ks, K \cup {h})
    BY <1>1, <1>2 DEF Belongs
  <1>6. Counted(w, rs, D)
    BY <1>1 DEF Counted
  <1> QED
    BY <1>4, <1>5, <1>6 DEF Exact

(* Maps of one resource that are counted again.                            *)
LEMMA MapsChanged ==
  ASSUME NEW v, NEW rs, NEW D, NEW hs, NEW K, Exact(v, rs, D, hs, K), NEW r \in D, NEW n \in 0 .. MaxMaps,
         rs[r].memory # None,
         NEW ns, \A q \in D \ {r} : ns[q] = rs[q], ns[r] = [rs[r] EXCEPT !.maps = n],
         NEW w, IsState(w), w.misuse = {}, w.objects = v.objects, w.memory = v.memory,
         \A m : m # rs[r].memory =>
           /\ (m \in DOMAIN w.mappings) <=> (m \in DOMAIN v.mappings)
           /\ m \in DOMAIN v.mappings => w.mappings[m] = v.mappings[m]
           /\ (m \in w.mapped) <=> (m \in v.mapped),
         LET m == rs[r].memory
             held == n + Held(rs, D \ {r}, m)
         IN /\ (m \in DOMAIN w.mappings) <=> (held > 0)
            /\ m \in DOMAIN w.mappings => w.mappings[m] = held
            /\ (m \in w.mapped) <=> (held > 0)
  PROVE  Exact(w, ns, D, hs, K)
  <1>1. Remaining(rs, D, hs, K) /\ Belongs(v, rs, D, hs, K) /\ Counted(v, rs, D)
    BY DEF Exact
  <1>2. /\ IsFiniteSet(D) /\ \A q \in D : rs[q] \in Record
    BY <1>1, RemainingParts
  <1>3. /\ ns[r] \in Record /\ ns[r].maps = n /\ ns[r].memory = rs[r].memory /\ ns[r].object = rs[r].object
        /\ ns[r].ownsObject = rs[r].ownsObject /\ ns[r].ownsMemory = rs[r].ownsMemory
    <2>1. rs[r] \in Record
      BY <1>2
    <2> QED
      BY <2>1 DEF Record
  <1>4. \A q \in D : /\ ns[q] \in Record /\ ns[q].memory = rs[q].memory /\ ns[q].object = rs[q].object
                     /\ ns[q].ownsObject = rs[q].ownsObject /\ ns[q].ownsMemory = rs[q].ownsMemory
    BY <1>2, <1>3
  <1>5. Remaining(ns, D, hs, K)
    <2>1. \A q \in D : Sorted(ns[q], Given(hs, K))
      <3>1. TAKE q \in D
      <3>2. Sorted(rs[q], Given(hs, K))
        BY <1>1 DEF Remaining
      <3>3. CASE q = r
        BY <1>4, <3>2, <3>3 DEF Sorted
      <3>4. CASE q # r
        BY <3>2, <3>4
      <3> QED
        BY <3>3, <3>4
    <2> QED
      BY <1>1, <1>4, <2>1 DEF Remaining
  <1>6. Belongs(w, ns, D, hs, K)
    <2>1. OwnedObjects(ns, D) = OwnedObjects(rs, D) /\ OwnedMemory(ns, D) = OwnedMemory(rs, D)
      BY <1>4 DEF OwnedObjects, OwnedMemory
    <2> QED
      BY <1>1, <2>1 DEF Belongs
  <1>7. \A m : Held(ns, D \ {r}, m) = Held(rs, D \ {r}, m)
    <2>1. IsFiniteSet(D \ {r}) /\ \A q \in D \ {r} : rs[q] \in Record
      BY <1>2, FS_Subset
    <2>2. \A q \in D \ {r} : ns[q].memory = rs[q].memory /\ ns[q].maps = rs[q].maps
      OBVIOUS
    <2> QED
      BY <2>1, <2>2, HeldSame
  <1>8. /\ \A m : /\ ns[r].memory = m => Held(ns, D, m) = ns[r].maps + Held(ns, D \ {r}, m)
                  /\ ns[r].memory # m => Held(ns, D \ {r}, m) = Held(ns, D, m)
        /\ \A m : rs[r].memory # m => Held(rs, D \ {r}, m) = Held(rs, D, m)
    <2>1. \A q \in D : ns[q] \in Record
      BY <1>4
    <2>2. \A m : /\ ns[r].memory = m => Held(ns, D, m) = ns[r].maps + Held(ns, D \ {r}, m)
                 /\ ns[r].memory # m => Held(ns, D \ {r}, m) = Held(ns, D, m)
      <3>1. \A f, m : (\A q \in D : f[q] \in Record) =>
              /\ f[r].memory = m => Held(f, D, m) = f[r].maps + Held(f, D \ {r}, m)
              /\ f[r].memory # m => Held(f, D \ {r}, m) = Held(f, D, m)
        BY <1>2, HeldWithout
      <3> QED
        BY <2>1, <3>1, Zenon
    <2>3. \A m : rs[r].memory # m => Held(rs, D \ {r}, m) = Held(rs, D, m)
      BY <1>2, HeldWithout
    <2> QED
      BY <2>2, <2>3
  <1>9. /\ Held(ns, D, rs[r].memory) = n + Held(rs, D \ {r}, rs[r].memory)
        /\ \A m : m # rs[r].memory => Held(ns, D, m) = Held(rs, D, m)
    BY <1>3, <1>7, <1>8
  <1>10. Counted(w, ns, D)
    <2>1. SUFFICES ASSUME NEW m
                   PROVE  /\ (m \in DOMAIN w.mappings) <=> (Held(ns, D, m) > 0)
                          /\ m \in DOMAIN w.mappings => w.mappings[m] = Held(ns, D, m)
                          /\ (m \in w.mapped) <=> (Held(ns, D, m) > 0)
      BY DEF Counted
    <2>2. CASE m = rs[r].memory
      BY <1>9, <2>2
    <2>3. CASE m # rs[r].memory
      <3>1. /\ (m \in DOMAIN v.mappings) <=> (Held(rs, D, m) > 0)
            /\ m \in DOMAIN v.mappings => v.mappings[m] = Held(rs, D, m)
            /\ (m \in v.mapped) <=> (Held(rs, D, m) > 0)
        BY <1>1 DEF Counted
      <3> QED
        BY <1>9, <2>3, <3>1
    <2> QED
      BY <2>2, <2>3
  <1> QED
    BY <1>5, <1>6, <1>10 DEF Exact
-----------------------------------------------------------------------------
(* The invariant: what is known of the driver's objects is exact while the *)
(* device lives; afterwards only counts may be left.                       *)
Gone ==
  /\ resourceObjects \subseteq HostObjects /\ memory = <<>> /\ mapped = {}
  /\ \A m \in DOMAIN mappings : mappings[m] \in Nat \ {0}
  /\ memoryMisuse \subseteq {"dead device"}

MemoryInv ==
  /\ DOMAIN resources \subseteq Handles /\ DOMAIN heaps \subseteq Heaps
  /\ device \in {"live", "lost", "down"}
  /\ \A r \in DOMAIN resources : resources[r] \in Record
  /\ device = "live" => Exact(Memory!Now, resources, DOMAIN resources, heaps, DOMAIN heaps)
  /\ device # "live" => Gone

(* The driver's objects as one state.                                      *)
LEMMA NowIs ==
  /\ device = "live" => IsState(Memory!Now)
  /\ Memory!Now.objects = resourceObjects /\ Memory!Now.memory = memory /\ Memory!Now.mapped = mapped
  /\ Memory!Now.mappings = mappings /\ Memory!Now.misuse = memoryMisuse
  BY DEF Memory!Now, IsState, Memory!Dead

(* Its fields after the step, as facts about primed variables.             *)
LEMMA NowWillBe ==
  /\ device' = "live" => IsState(Memory!Now')
  /\ Memory!Now'.objects = resourceObjects' /\ Memory!Now'.memory = memory' /\ Memory!Now'.mapped = mapped'
  /\ Memory!Now'.mappings = mappings' /\ Memory!Now'.misuse = memoryMisuse'
  BY DEF Memory!Now, IsState, Memory!Dead

(* A step that becomes "v" has that state next.                            *)
LEMMA BecomesNow ==
  ASSUME NEW v, IsState(v), Memory!Becomes(v), device' = "live"
  PROVE  Memory!Now' = v
  BY DEF Memory!Becomes, Memory!Now, Memory!Dead, IsState

(* What a live device's state says of its parts.                           *)
LEMMA LiveParts ==
  ASSUME MemoryInv, device = "live"
  PROVE  /\ Exact(Memory!Now, resources, DOMAIN resources, heaps, DOMAIN heaps)
         /\ memoryMisuse = {} /\ HostObjects \subseteq resourceObjects
         /\ memory = [m \in DOMAIN memory |-> memory[m]]
         /\ \A m \in DOMAIN memory : memory[m] \in [size : Nat, type : Types]
         /\ \A h \in DOMAIN heaps : heaps[h] \in Memories /\ heaps[h] \in DOMAIN memory
  <1>1. Exact(Memory!Now, resources, DOMAIN resources, heaps, DOMAIN heaps)
    BY DEF MemoryInv
  <1>2. /\ Memory!Now.misuse = {}
        /\ Remaining(resources, DOMAIN resources, heaps, DOMAIN heaps)
        /\ Belongs(Memory!Now, resources, DOMAIN resources, heaps, DOMAIN heaps)
    BY <1>1 DEF Exact
  <1>3. /\ HostObjects \subseteq Memory!Now.objects
        /\ Memory!Now.memory = [m \in DOMAIN Memory!Now.memory |-> Memory!Now.memory[m]]
        /\ \A m \in DOMAIN Memory!Now.memory : Memory!Now.memory[m] \in [size : Nat, type : Types]
        /\ \A h \in DOMAIN heaps : heaps[h] \in Memories /\ heaps[h] \in DOMAIN Memory!Now.memory
    BY <1>2 DEF Belongs, Remaining, Given
  <1> QED
    BY <1>1, <1>2, <1>3, NowIs

(* The next state is exact when its parts are.                             *)
LEMMA LiveStep ==
  ASSUME MemoryInv, device = "live", device' = "live",
         DOMAIN resources' \subseteq Handles, DOMAIN heaps' \subseteq Heaps,
         Exact(Memory!Now', resources', DOMAIN resources', heaps', DOMAIN heaps')
  PROVE  MemoryInv'
  <1>1. \A r \in DOMAIN resources' : resources'[r] \in Record
    BY DEF Exact, Remaining
  <1>2. Exact(Memory!Now, resources, DOMAIN resources, heaps, DOMAIN heaps)'
    OBVIOUS
  <1>3. device' \in {"live", "lost", "down"}
    OBVIOUS
  <1> QED
    BY <1>1, <1>2, <1>3 DEF MemoryInv

(* A function whose domain is empty is the empty one.                      *)
LEMMA EmptyFunction ==
  \A f : (f = [x \in DOMAIN f |-> f[x]] /\ DOMAIN f = {}) => f = <<>>
  OBVIOUS

(* Fails: nothing changes that counts.                                     *)
LEMMA CreationFailsStep ==
  ASSUME MemoryInv, device = "live", NEW steps, NEW size, NEW type, Memory!CreationFails(steps, size, type)
  PROVE  MemoryInv'
  <1>1. PICK step \in steps, o \in Memory!Free, m \in Memory!Unused :
          /\ resourceObjects' = resourceObjects \cup (Memory!Made(step, o, m).objects \ Memory!Undone(step, o, m).objects)
          /\ memory' = [n \in DOMAIN memory \cup (Memory!Made(step, o, m).memory \ Memory!Undone(step, o, m).memory) |->
                          IF n \in DOMAIN memory THEN memory[n] ELSE [size |-> size, type |-> type]]
          /\ UNCHANGED <<resources, heaps, mapped, mappings, device, memoryMisuse>>
    BY Zenon DEF Memory!CreationFails
  <1>2. /\ Memory!Made(step, o, m).objects \ Memory!Undone(step, o, m).objects = {}
        /\ Memory!Made(step, o, m).memory \ Memory!Undone(step, o, m).memory = {}
    BY DEF Memory!Made, Memory!Undone
  <1>3. resourceObjects' = resourceObjects
    BY <1>1, <1>2
  <1>4. memory' = memory
    <2>1. memory' = [n \in DOMAIN memory |-> IF n \in DOMAIN memory THEN memory[n] ELSE [size |-> size, type |-> type]]
      BY <1>1, <1>2
    <2>2. memory = [n \in DOMAIN memory |-> memory[n]]
      BY LiveParts
    <2> QED
      BY <2>1, <2>2
  <1>5. Memory!Now' = Memory!Now
    BY <1>1, <1>3, <1>4 DEF Memory!Now, Memory!Dead
  <1>6. Exact(Memory!Now', resources', DOMAIN resources', heaps', DOMAIN heaps')
    BY <1>1, <1>5, LiveParts
  <1> QED
    BY <1>1, <1>6, LiveStep DEF MemoryInv
-----------------------------------------------------------------------------
(* Setting and dropping one entry of a registry.                           *)
LEMMA Registries ==
  /\ \A f, x, value : /\ DOMAIN Memory!Set(f, x, value) = DOMAIN f \cup {x}
                      /\ Memory!Set(f, x, value)[x] = value
                      /\ \A y \in DOMAIN f : y # x => Memory!Set(f, x, value)[y] = f[y]
                      /\ Memory!Set(f, x, value) =
                           [y \in DOMAIN Memory!Set(f, x, value) |-> Memory!Set(f, x, value)[y]]
  /\ \A f, x : /\ DOMAIN Memory!Drop(f, x) = DOMAIN f \ {x}
               /\ \A y \in DOMAIN f : y # x => Memory!Drop(f, x)[y] = f[y]
               /\ Memory!Drop(f, x) = [y \in DOMAIN Memory!Drop(f, x) |-> Memory!Drop(f, x)[y]]
  BY DEF Memory!Set, Memory!Drop

(* A resource that is new keeps the rest as it was.                        *)
LEMMA NewResource ==
  ASSUME MemoryInv, device = "live", device' = "live", NEW r \in Handles, r \notin DOMAIN resources,
         NEW x, Newly(Memory!Now, Memory!Now', x, heaps, DOMAIN heaps),
         resources' = Memory!Set(resources, r, x), heaps' = heaps
  PROVE  MemoryInv'
  <1> DEFINE D == DOMAIN resources
             K == DOMAIN heaps
  <1>1. Exact(Memory!Now, resources, D, heaps, K)
    BY LiveParts
  <1>2. DOMAIN resources' = D \cup {r} /\ resources'[r] = x /\ \A q \in D : resources'[q] = resources[q]
    BY DEF Memory!Set
  <1>3. Exact(Memory!Now', resources', D \cup {r}, heaps, K)
    BY <1>1, <1>2, ResourceAdded
  <1>4. DOMAIN resources' \subseteq Handles /\ DOMAIN heaps' \subseteq Heaps
    BY <1>2 DEF MemoryInv
  <1>5. Exact(Memory!Now', resources', DOMAIN resources', heaps', DOMAIN heaps')
    BY <1>2, <1>3
  <1> QED
    BY <1>4, <1>5, LiveStep

(* Handles that the driver gives are unused.                               *)
LEMMA GivenUnused ==
  /\ \A o \in Memory!Free : o \in Objects /\ o \notin resourceObjects
  /\ \A m \in Memory!Unused : m \in Memories /\ m \notin DOMAIN memory
  BY DEF Memory!Free, Memory!Unused, Memory!First

(* What is committed owns an object and memory that no other has.          *)
LEMMA CreateCommittedStep ==
  ASSUME MemoryInv, NEW r \in Handles, Memory!CreateCommitted(r)
  PROVE  MemoryInv'
  <1>1. device = "live" /\ r \notin DOMAIN resources
    BY DEF Memory!CreateCommitted
  <1>2. PICK kind \in {"buffer", "image"}, size \in Sizes, upload \in BOOLEAN, imported \in BOOLEAN :
          \E t \in Types :
            /\ upload => kind = "buffer" /\ ~ imported
            /\ \/ /\ t \in Memory!TypesFound(Memory!TypesOf(kind), upload)
                  /\ \E o \in Memory!Free, m \in Memory!Unused :
                       /\ resourceObjects' = resourceObjects \cup {o}
                       /\ memory' = Memory!Set(memory, m, [size |-> size, type |-> t])
                       /\ resources' = Memory!Set(resources, r, Memory!Resource(o, m, 0, size,
                            kind = "buffer" /\ ~ imported /\ t \in Visible, TRUE, TRUE))
                       /\ UNCHANGED <<heaps, mapped, mappings, device, memoryMisuse>>
               \/ /\ Memory!TypesFound(Memory!TypesOf(kind), upload) # {}
                  /\ Memory!CreationFails({"create", "allocate", "bind"}, size, t)
               \/ /\ Memory!TypesFound(Memory!TypesOf(kind), upload) = {}
                  /\ Memory!CreationFails({"create", "type"}, size, t)
    BY Zenon DEF Memory!CreateCommitted
  <1>3. PICK t \in Types :
            \/ /\ t \in Memory!TypesFound(Memory!TypesOf(kind), upload)
               /\ \E o \in Memory!Free, m \in Memory!Unused :
                    /\ resourceObjects' = resourceObjects \cup {o}
                    /\ memory' = Memory!Set(memory, m, [size |-> size, type |-> t])
                    /\ resources' = Memory!Set(resources, r, Memory!Resource(o, m, 0, size,
                         kind = "buffer" /\ ~ imported /\ t \in Visible, TRUE, TRUE))
                    /\ UNCHANGED <<heaps, mapped, mappings, device, memoryMisuse>>
            \/ Memory!CreationFails({"create", "allocate", "bind"}, size, t)
            \/ Memory!CreationFails({"create", "type"}, size, t)
    BY <1>2
  <1>4. CASE Memory!CreationFails({"create", "allocate", "bind"}, size, t)
    BY <1>1, <1>4, CreationFailsStep
  <1>5. CASE Memory!CreationFails({"create", "type"}, size, t)
    BY <1>1, <1>5, CreationFailsStep
  <1>6. ASSUME NEW o \in Memory!Free, NEW m \in Memory!Unused, NEW visible \in BOOLEAN,
               resourceObjects' = resourceObjects \cup {o},
               memory' = Memory!Set(memory, m, [size |-> size, type |-> t]),
               resources' = Memory!Set(resources, r, Memory!Resource(o, m, 0, size, visible, TRUE, TRUE)),
               UNCHANGED <<heaps, mapped, mappings, device, memoryMisuse>>
        PROVE  MemoryInv'
    <2> DEFINE x == Memory!Resource(o, m, 0, size, visible, TRUE, TRUE)
               K == DOMAIN heaps
    <2>1. o \in Objects /\ o \notin resourceObjects /\ m \in Memories /\ m \notin DOMAIN memory
      BY GivenUnused
    <2>2. /\ memoryMisuse = {} /\ \A n \in DOMAIN memory : memory[n] \in [size : Nat, type : Types]
          /\ \A h \in K : heaps[h] \in DOMAIN memory
      BY <1>1, LiveParts
    <2>3. size \in Nat
      BY ResourcesAssumption
    <2>4. /\ x \in Record /\ x.ownsObject /\ x.ownsMemory /\ x.object = o /\ x.memory = m /\ x.maps = 0
      BY <2>1, <2>3, ResourcesAssumption DEF Memory!Resource, Record
    <2>5. Sorted(x, Given(heaps, K))
      <3>1. m \notin Given(heaps, K)
        BY <2>1, <2>2 DEF Given
      <3> QED
        BY <2>1, <2>4, <3>1 DEF Sorted
    <2>6. /\ DOMAIN memory' = DOMAIN memory \cup {m}
          /\ memory' = [n \in DOMAIN memory' |-> memory'[n]]
          /\ \A n \in DOMAIN memory' : memory'[n] \in [size : Nat, type : Types]
      <3>1. [size |-> size, type |-> t] \in [size : Nat, type : Types]
        BY <2>3
      <3>2. memory' = [n \in DOMAIN memory \cup {m} |-> IF n = m THEN [size |-> size, type |-> t] ELSE memory[n]]
        BY <1>6 DEF Memory!Set
      <3> QED
        BY <2>2, <3>1, <3>2
    <2>7. device' = "live"
      BY <1>1, <1>6
    <2> HIDE DEF x
    <2>8. Newly(Memory!Now, Memory!Now', x, heaps, K)
      <3>1. IsState(Memory!Now')
        BY <2>7, NowWillBe
      <3>2. /\ Memory!Now'.misuse = {} /\ Memory!Now'.mapped = Memory!Now.mapped
            /\ Memory!Now'.mappings = Memory!Now.mappings
            /\ Memory!Now'.objects = Memory!Now.objects \cup {x.object}
        BY <1>6, <2>2, <2>4, NowIs, NowWillBe
      <3>3. /\ DOMAIN Memory!Now'.memory = DOMAIN Memory!Now.memory \cup {x.memory}
            /\ Memory!Now'.memory = [n \in DOMAIN Memory!Now'.memory |-> Memory!Now'.memory[n]]
            /\ \A n \in DOMAIN Memory!Now'.memory : Memory!Now'.memory[n] \in [size : Nat, type : Types]
        BY <2>4, <2>6, NowIs, NowWillBe
      <3>4. x.object \notin Memory!Now.objects /\ x.memory \notin DOMAIN Memory!Now.memory
        BY <2>1, <2>4, NowIs
      <3> QED
        BY <2>4, <2>5, <3>1, <3>2, <3>3, <3>4 DEF Newly
    <2> QED
      BY <1>1, <1>6, <2>7, <2>8, NewResource DEF x
  <1> QED
    BY <1>3, <1>4, <1>5, <1>6

(* A heap's memory belongs to it, and a creation that fails leaves none.   *)
LEMMA CreateHeapStep ==
  ASSUME MemoryInv, NEW h \in Heaps, Memory!CreateHeap(h)
  PROVE  MemoryInv'
  <1> DEFINE D == DOMAIN resources
             K == DOMAIN heaps
  <1>1. /\ device = "live" /\ h \notin K
        /\ UNCHANGED <<resources, resourceObjects, mapped, mappings, device, memoryMisuse>>
    BY DEF Memory!CreateHeap
  <1>2. PICK m \in Memory!Unused, size \in HeapSizes, upload \in BOOLEAN :
          \E t \in Memory!TypesFound(Types, upload) :
            /\ memory' = Memory!Set(memory, m, [size |-> size, type |-> t])
            /\ heaps' = Memory!Set(heaps, h, m)
    BY DEF Memory!CreateHeap
  <1>3. PICK t \in Types :
            /\ memory' = Memory!Set(memory, m, [size |-> size, type |-> t])
            /\ heaps' = Memory!Set(heaps, h, m)
    BY <1>2 DEF Memory!TypesFound
  <1>4. m \in Memories /\ m \notin DOMAIN memory
    BY GivenUnused
  <1>5. /\ Exact(Memory!Now, resources, D, heaps, K)
        /\ memoryMisuse = {} /\ \A n \in DOMAIN memory : memory[n] \in [size : Nat, type : Types]
    BY <1>1, LiveParts
  <1>6. DOMAIN heaps' = K \cup {h} /\ heaps'[h] = m /\ \A k \in K : heaps'[k] = heaps[k]
    BY <1>1, <1>3 DEF Memory!Set
  <1>7. /\ DOMAIN memory' = DOMAIN memory \cup {m}
        /\ memory' = [n \in DOMAIN memory' |-> memory'[n]]
        /\ \A n \in DOMAIN memory' : memory'[n] \in [size : Nat, type : Types]
    <2>1. [size |-> size, type |-> t] \in [size : Nat, type : Types]
      BY ResourcesAssumption
    <2>2. memory' = [n \in DOMAIN memory \cup {m} |-> IF n = m THEN [size |-> size, type |-> t] ELSE memory[n]]
      BY <1>3 DEF Memory!Set
    <2> QED
      BY <1>5, <2>1, <2>2
  <1>8. Exact(Memory!Now', resources, D, heaps', K \cup {h})
    <2>1. IsState(Memory!Now')
      BY <1>1, NowWillBe
    <2>2. /\ Memory!Now'.misuse = {} /\ Memory!Now'.mapped = Memory!Now.mapped
          /\ Memory!Now'.mappings = Memory!Now.mappings /\ Memory!Now'.objects = Memory!Now.objects
      BY <1>1, <1>5, NowIs, NowWillBe
    <2>3. /\ DOMAIN Memory!Now'.memory = DOMAIN Memory!Now.memory \cup {m}
          /\ Memory!Now'.memory = [n \in DOMAIN Memory!Now'.memory |-> Memory!Now'.memory[n]]
          /\ \A n \in DOMAIN Memory!Now'.memory : Memory!Now'.memory[n] \in [size : Nat, type : Types]
          /\ m \notin DOMAIN Memory!Now.memory
      BY <1>4, <1>7, NowIs, NowWillBe
    <2> QED
      BY <1>1, <1>4, <1>5, <1>6, <2>1, <2>2, <2>3, HeapAdded
  <1>9. Exact(Memory!Now', resources', DOMAIN resources', heaps', DOMAIN heaps')
    BY <1>1, <1>6, <1>8
  <1>10. DOMAIN resources' \subseteq Handles /\ DOMAIN heaps' \subseteq Heaps /\ device' = "live"
    BY <1>1, <1>6 DEF MemoryInv
  <1> QED
    BY <1>1, <1>9, <1>10, LiveStep

(* What is placed in a heap owns its object and none of the heap's memory. *)
LEMMA CreatePlacedStep ==
  ASSUME MemoryInv, NEW r \in Handles, NEW h \in Heaps, Memory!CreatePlaced(r, h)
  PROVE  MemoryInv'
  <1> DEFINE m == heaps[h]
             K == DOMAIN heaps
  <1>1. device = "live" /\ r \notin DOMAIN resources /\ h \in DOMAIN heaps
    BY DEF Memory!CreatePlaced
  <1>2. PICK kind \in {"buffer", "image"}, offset \in Offsets, size \in Sizes :
          \/ /\ Memory!Fits(m, kind, offset, size)
             /\ \E o \in Memory!Free :
                  /\ resourceObjects' = resourceObjects \cup {o}
                  /\ resources' = Memory!Set(resources, r, Memory!Resource(o, m, offset, size,
                       kind = "buffer" /\ memory[m].type \in Visible, TRUE, FALSE))
                  /\ memoryMisuse' = memoryMisuse \cup Memory!Wrong(Memory!Dead,
                       Memory!Binds(m, kind, offset, size), "bound outside its memory")
             /\ UNCHANGED <<heaps, memory, mapped, mappings, device>>
          \/ Memory!CreationFails({"type"}, size, memory[m].type)
    BY Zenon DEF Memory!CreatePlaced
  <1>3. CASE Memory!CreationFails({"type"}, size, memory[m].type)
    BY <1>1, <1>3, CreationFailsStep
  <1>4. ASSUME Memory!Fits(m, kind, offset, size), NEW o \in Memory!Free, NEW visible \in BOOLEAN,
               resourceObjects' = resourceObjects \cup {o},
               resources' = Memory!Set(resources, r, Memory!Resource(o, m, offset, size, visible, TRUE, FALSE)),
               memoryMisuse' = memoryMisuse \cup Memory!Wrong(Memory!Dead,
                 Memory!Binds(m, kind, offset, size), "bound outside its memory"),
               UNCHANGED <<heaps, memory, mapped, mappings, device>>
        PROVE  MemoryInv'
    <2> DEFINE x == Memory!Resource(o, m, offset, size, visible, TRUE, FALSE)
    <2>1. o \in Objects /\ o \notin resourceObjects
      BY GivenUnused
    <2>2. /\ memoryMisuse = {} /\ \A n \in DOMAIN memory : memory[n] \in [size : Nat, type : Types]
          /\ memory = [n \in DOMAIN memory |-> memory[n]] /\ m \in Memories
      BY <1>1, LiveParts
    <2>3. size \in Nat /\ offset \in Nat
      BY ResourcesAssumption
    <2>4. /\ x \in Record /\ x.ownsObject /\ ~ x.ownsMemory /\ x.object = o /\ x.memory = m /\ x.maps = 0
      BY <2>1, <2>2, <2>3, ResourcesAssumption DEF Memory!Resource, Record
    <2>5. Sorted(x, Given(heaps, K))
      BY <1>1, <2>4 DEF Sorted, Given
    <2>6. memoryMisuse' = {}
      <3>1. Memory!Binds(m, kind, offset, size)
        BY <1>4 DEF Memory!Fits, Memory!Binds
      <3> QED
        BY <1>1, <1>4, <2>2, <3>1 DEF Memory!Wrong, Memory!Dead
    <2>7. device' = "live"
      BY <1>1, <1>4
    <2> HIDE DEF x
    <2>8. Newly(Memory!Now, Memory!Now', x, heaps, K)
      <3>1. IsState(Memory!Now')
        BY <2>7, NowWillBe
      <3>2. /\ Memory!Now'.misuse = {} /\ Memory!Now'.mapped = Memory!Now.mapped
            /\ Memory!Now'.mappings = Memory!Now.mappings
            /\ Memory!Now'.objects = Memory!Now.objects \cup {x.object}
        BY <1>4, <2>4, <2>6, NowIs, NowWillBe
      <3>3. /\ DOMAIN Memory!Now'.memory = DOMAIN Memory!Now.memory
            /\ Memory!Now'.memory = [n \in DOMAIN Memory!Now'.memory |-> Memory!Now'.memory[n]]
            /\ \A n \in DOMAIN Memory!Now'.memory : Memory!Now'.memory[n] \in [size : Nat, type : Types]
        BY <1>4, <2>2, NowIs, NowWillBe
      <3>4. x.object \notin Memory!Now.objects
        BY <2>1, <2>4, NowIs
      <3> QED
        BY <2>4, <2>5, <3>1, <3>2, <3>3, <3>4 DEF Newly
    <2> QED
      BY <1>1, <1>4, <2>7, <2>8, NewResource DEF x
  <1> QED
    BY <1>2, <1>3, <1>4

(* What is imported owns nothing. *)
LEMMA ImportStep ==
  ASSUME MemoryInv, NEW r \in Handles, Memory!Import(r)
  PROVE  MemoryInv'
  <1>1. /\ device = "live" /\ device' = "live" /\ r \notin DOMAIN resources /\ heaps' = heaps
        /\ resourceObjects' = resourceObjects /\ memory' = memory /\ mapped' = mapped
        /\ mappings' = mappings /\ memoryMisuse' = memoryMisuse
    BY DEF Memory!Import, Memory!driver
  <1>2. PICK o \in HostObjects :
          resources' = Memory!Set(resources, r, Memory!Resource(o, None, 0, 1, FALSE, FALSE, FALSE))
    BY DEF Memory!Import
  <1> DEFINE x == Memory!Resource(o, None, 0, 1, FALSE, FALSE, FALSE)
             K == DOMAIN heaps
  <1>3. /\ x \in Record /\ ~ x.ownsObject /\ ~ x.ownsMemory /\ x.memory = None /\ x.maps = 0
    BY ResourcesAssumption DEF Memory!Resource, Record
  <1> HIDE DEF x
  <1>4. /\ memoryMisuse = {} /\ memory = [n \in DOMAIN memory |-> memory[n]]
        /\ \A n \in DOMAIN memory : memory[n] \in [size : Nat, type : Types]
    BY <1>1, LiveParts
  <1>5. Newly(Memory!Now, Memory!Now', x, heaps, K)
    <2>1. IsState(Memory!Now')
      BY <1>1, NowWillBe
    <2>2. /\ Memory!Now'.misuse = {} /\ Memory!Now'.mapped = Memory!Now.mapped
          /\ Memory!Now'.mappings = Memory!Now.mappings /\ Memory!Now'.objects = Memory!Now.objects
      BY <1>1, <1>4, NowIs, NowWillBe
    <2>3. /\ DOMAIN Memory!Now'.memory = DOMAIN Memory!Now.memory
          /\ Memory!Now'.memory = [n \in DOMAIN Memory!Now'.memory |-> Memory!Now'.memory[n]]
          /\ \A n \in DOMAIN Memory!Now'.memory : Memory!Now'.memory[n] \in [size : Nat, type : Types]
      BY <1>1, <1>4, NowIs, NowWillBe
    <2>4. Sorted(x, Given(heaps, K))
      BY <1>3 DEF Sorted
    <2> QED
      BY <1>3, <2>1, <2>2, <2>3, <2>4 DEF Newly
  <1> QED
    BY <1>1, <1>2, <1>5, NewResource DEF x
-----------------------------------------------------------------------------
(* One less than a count that is not the last, and a count with others.    *)
LEMMA CountsLeft ==
  /\ \A n \in Nat \ {0} : n # 1 => n - 1 \in Nat \ {0}
  /\ \A n, k \in Nat : n > 0 => n + k > 0
  OBVIOUS

(* What one memory's maps are, on a live device, with those of a resource  *)
(* on it.                                                                  *)
LEMMA LiveHeld ==
  ASSUME MemoryInv, device = "live", NEW r \in DOMAIN resources
  PROVE  LET m == resources[r].memory
             n == resources[r].maps
             left == Held(resources, DOMAIN resources \ {r}, m)
         IN /\ n \in 0 .. MaxMaps /\ n \in Nat /\ left \in Nat
            /\ (m \in DOMAIN mappings) <=> (n + left > 0)
            /\ m \in DOMAIN mappings => mappings[m] = n + left
            /\ (m \in mapped) <=> (n + left > 0)
  <1> DEFINE D == DOMAIN resources
             m == resources[r].memory
             n == resources[r].maps
             left == Held(resources, D \ {r}, m)
  <1>1. Remaining(resources, D, heaps, DOMAIN heaps) /\ Counted(Memory!Now, resources, D)
    BY LiveParts DEF Exact
  <1>2. IsFiniteSet(D) /\ \A q \in D : resources[q] \in Record
    BY <1>1, RemainingParts
  <1>3. n \in 0 .. MaxMaps
    BY <1>2 DEF Record
  <1>4. n \in Nat
    BY <1>3, ResourcesAssumption
  <1>5. Held(resources, D, m) = n + left
    BY <1>2, HeldWithout
  <1>6. left \in Nat
    <2>1. IsFiniteSet(D \ {r}) /\ \A q \in D \ {r} : resources[q] \in Record
      BY <1>2, FS_Subset
    <2> QED
      BY <2>1, HeldIsNat
  <1>7. /\ (m \in DOMAIN mappings) <=> (Held(resources, D, m) > 0)
        /\ m \in DOMAIN mappings => mappings[m] = Held(resources, D, m)
        /\ (m \in mapped) <=> (Held(resources, D, m) > 0)
    BY <1>1, NowIs DEF Counted
  <1> QED
    BY <1>3, <1>4, <1>5, <1>6, <1>7

(* Maps of a resource of a live device that are counted again.             *)
LEMMA LiveMapsChanged ==
  ASSUME MemoryInv, device = "live", device' = "live", NEW r \in DOMAIN resources, NEW n \in 0 .. MaxMaps,
         resources[r].memory # None, resources' = [resources EXCEPT ![r].maps = n],
         heaps' = heaps, resourceObjects' = resourceObjects, memory' = memory, memoryMisuse' = {},
         \A m : m # resources[r].memory =>
           /\ (m \in DOMAIN mappings') <=> (m \in DOMAIN mappings)
           /\ m \in DOMAIN mappings => mappings'[m] = mappings[m]
           /\ (m \in mapped') <=> (m \in mapped),
         LET m == resources[r].memory
             held == n + Held(resources, DOMAIN resources \ {r}, m)
         IN /\ (m \in DOMAIN mappings') <=> (held > 0)
            /\ m \in DOMAIN mappings' => mappings'[m] = held
            /\ (m \in mapped') <=> (held > 0)
  PROVE  MemoryInv'
  <1> DEFINE D == DOMAIN resources
             v == Memory!Now
             w == Memory!Now'
  <1>1. Exact(v, resources, D, heaps, DOMAIN heaps)
    BY LiveParts
  <1>2. /\ DOMAIN resources' = D /\ \A q \in D \ {r} : resources'[q] = resources[q]
        /\ resources'[r] = [resources[r] EXCEPT !.maps = n]
    OBVIOUS
  <1>3. /\ IsState(w) /\ w.misuse = {} /\ w.objects = v.objects /\ w.memory = v.memory
        /\ w.mapped = mapped' /\ w.mappings = mappings' /\ v.mapped = mapped /\ v.mappings = mappings
    BY NowIs, NowWillBe
  <1> HIDE DEF v, w
  <1>4. /\ \A m : m # resources[r].memory =>
             /\ (m \in DOMAIN w.mappings) <=> (m \in DOMAIN v.mappings)
             /\ m \in DOMAIN v.mappings => w.mappings[m] = v.mappings[m]
             /\ (m \in w.mapped) <=> (m \in v.mapped)
        /\ LET m == resources[r].memory
               held == n + Held(resources, D \ {r}, m)
           IN /\ (m \in DOMAIN w.mappings) <=> (held > 0)
              /\ m \in DOMAIN w.mappings => w.mappings[m] = held
              /\ (m \in w.mapped) <=> (held > 0)
    BY <1>3
  <1>5. Exact(w, resources', D, heaps, DOMAIN heaps)
    BY <1>1, <1>2, <1>3, <1>4, MapsChanged
  <1>6. Exact(Memory!Now', resources', DOMAIN resources', heaps', DOMAIN heaps')
    BY <1>2, <1>5 DEF w
  <1>7. DOMAIN resources' \subseteq Handles /\ DOMAIN heaps' \subseteq Heaps
    BY <1>2 DEF MemoryInv
  <1> QED
    BY <1>6, <1>7, LiveStep

(* A mapping more is counted.                                              *)
LEMMA MapStep ==
  ASSUME MemoryInv, NEW r \in Handles, NEW offset, NEW size, Memory!Map(r, offset, size)
  PROVE  MemoryInv'
  <1> DEFINE m == resources[r].memory
             n == resources[r].maps
             left == Held(resources, DOMAIN resources \ {r}, m)
  <1>1. /\ device = "live" /\ r \in DOMAIN resources /\ m # None /\ n < MaxMaps
        /\ IF m \notin DOMAIN mappings
             THEN /\ mapped' = mapped \cup {m}
                  /\ memoryMisuse' = memoryMisuse \cup Memory!Wrong(Memory!Dead, m \notin mapped, "mapped twice")
             ELSE mapped' = mapped /\ memoryMisuse' = memoryMisuse
        /\ mappings' = Memory!Set(mappings, m, 1 + IF m \in DOMAIN mappings THEN mappings[m] ELSE 0)
        /\ resources' = [resources EXCEPT ![r].maps = @ + 1]
        /\ heaps' = heaps /\ resourceObjects' = resourceObjects /\ memory' = memory /\ device' = device
    BY DEF Memory!Map, Memory!NeedsMapping
  <1>2. /\ n \in 0 .. MaxMaps /\ n \in Nat /\ left \in Nat
        /\ (m \in DOMAIN mappings) <=> (n + left > 0)
        /\ m \in DOMAIN mappings => mappings[m] = n + left
        /\ (m \in mapped) <=> (n + left > 0)
    BY <1>1, LiveHeld
  <1>3. memoryMisuse' = {}
    <2>1. memoryMisuse = {}
      BY <1>1, LiveParts
    <2>2. CASE m \notin DOMAIN mappings
      <3>1. m \notin mapped
        BY <1>2, <2>2
      <3> QED
        BY <1>1, <2>1, <2>2, <3>1 DEF Memory!Wrong, Memory!Dead
    <2>3. CASE m \in DOMAIN mappings
      BY <1>1, <2>1, <2>3
    <2> QED
      BY <2>2, <2>3
  <1>4. n + 1 \in 0 .. MaxMaps /\ resources' = [resources EXCEPT ![r].maps = n + 1]
    <2>1. resources' = [resources EXCEPT ![r].maps = n + 1]
      BY <1>1
    <2> HIDE DEF n
    <2>2. n + 1 \in 0 .. MaxMaps
      <3>1. n \in 0 .. MaxMaps /\ n < MaxMaps
        BY <1>1, <1>2
      <3> QED
        BY <3>1, ResourcesAssumption
    <2> QED
      BY <2>1, <2>2
  <1>5. \A x : x # m => /\ (x \in DOMAIN mappings') <=> (x \in DOMAIN mappings)
                        /\ x \in DOMAIN mappings => mappings'[x] = mappings[x]
                        /\ (x \in mapped') <=> (x \in mapped)
    BY <1>1 DEF Memory!Set
  <1>6. m \in DOMAIN mappings' /\ mappings'[m] = (n + 1) + left /\ m \in mapped'
    <2>1. m \in DOMAIN mappings' /\ mappings'[m] = 1 + IF m \in DOMAIN mappings THEN mappings[m] ELSE 0
      BY <1>1 DEF Memory!Set
    <2>2. m \in mapped'
      BY <1>1, <1>2
    <2> HIDE DEF left, m, n
    <2> QED
      BY <1>2, <2>1, <2>2
  <1>7. (n + 1) + left > 0
    BY <1>2
  <1> HIDE DEF left
  <1>8. /\ (m \in DOMAIN mappings') <=> ((n + 1) + left > 0)
        /\ m \in DOMAIN mappings' => mappings'[m] = (n + 1) + left
        /\ (m \in mapped') <=> ((n + 1) + left > 0)
    BY <1>6, <1>7
  <1> QED
    BY <1>1, <1>3, <1>4, <1>5, <1>8, LiveMapsChanged DEF left

(* A mapping less is counted, and the last unmaps.                         *)
LEMMA UnmapStep ==
  ASSUME MemoryInv, NEW r \in Handles, Memory!Unmap(r)
  PROVE  MemoryInv'
  <1> DEFINE m == resources[r].memory
             n == resources[r].maps
             left == Held(resources, DOMAIN resources \ {r}, m)
  <1>1. /\ r \in DOMAIN resources /\ device \in {"live", "lost"} /\ m # None /\ n > 0
        /\ IF m \notin DOMAIN mappings
             THEN /\ resources' = [resources EXCEPT ![r].maps = 0]
                  /\ mapped' = mapped /\ mappings' = mappings /\ memoryMisuse' = memoryMisuse
             ELSE /\ resources' = [resources EXCEPT ![r].maps = IF @ = 0 THEN 0 ELSE @ - 1]
                  /\ IF mappings[m] = 1
                       THEN /\ mappings' = Memory!Drop(mappings, m)
                            /\ mapped' = mapped \ {m}
                            /\ memoryMisuse' = memoryMisuse \cup
                                 Memory!Wrong(Memory!Dead, m \in mapped, "unmapped twice")
                       ELSE /\ mappings' = [mappings EXCEPT ![m] = @ - 1]
                            /\ mapped' = mapped /\ memoryMisuse' = memoryMisuse
        /\ heaps' = heaps /\ resourceObjects' = resourceObjects /\ memory' = memory /\ device' = device
    BY DEF Memory!Unmap, Memory!MayUnmap, Memory!CallsGoOn
  <1>2. CASE device = "live"
    <2>1. /\ n \in 0 .. MaxMaps /\ n \in Nat /\ left \in Nat
          /\ (m \in DOMAIN mappings) <=> (n + left > 0)
          /\ m \in DOMAIN mappings => mappings[m] = n + left
          /\ (m \in mapped) <=> (n + left > 0)
      BY <1>1, <1>2, LiveHeld
    <2>2. m \in DOMAIN mappings /\ m \in mapped /\ mappings[m] = n + left
      <3> HIDE DEF m, n, left
      <3>1. n + left > 0
        BY <1>1, <2>1, CountsLeft
      <3> QED
        BY <2>1, <3>1
    <2>3. n - 1 \in 0 .. MaxMaps /\ resources' = [resources EXCEPT ![r].maps = n - 1]
      <3>1. resources' = [resources EXCEPT ![r].maps = IF n = 0 THEN 0 ELSE n - 1]
        BY <1>1, <2>2
      <3> HIDE DEF n
      <3>2. n # 0 /\ n - 1 \in 0 .. MaxMaps
        <4>1. n \in 0 .. MaxMaps /\ n > 0
          BY <1>1, <2>1
        <4> QED
          BY <4>1, ResourcesAssumption
      <3> QED
        BY <3>1, <3>2
    <2>4. memoryMisuse' = {}
      <3>1. memoryMisuse = {}
        BY <1>2, LiveParts
      <3>2. Memory!Wrong(Memory!Dead, m \in mapped, "unmapped twice") = {}
        BY <1>2, <2>2 DEF Memory!Wrong, Memory!Dead
      <3> QED
        BY <1>1, <2>2, <3>1, <3>2
    <2>5. \A x : x # m => /\ (x \in DOMAIN mappings') <=> (x \in DOMAIN mappings)
                          /\ x \in DOMAIN mappings => mappings'[x] = mappings[x]
                          /\ (x \in mapped') <=> (x \in mapped)
      BY <1>1, <2>2 DEF Memory!Drop
    <2>6. /\ (m \in DOMAIN mappings') <=> ((n - 1) + left > 0)
          /\ m \in DOMAIN mappings' => mappings'[m] = (n - 1) + left
          /\ (m \in mapped') <=> ((n - 1) + left > 0)
      <3>1. CASE mappings[m] = 1
        <4>1. m \notin DOMAIN mappings' /\ m \notin mapped'
          BY <1>1, <2>2, <3>1 DEF Memory!Drop
        <4>2. ~ ((n - 1) + left > 0)
          BY <2>1, <2>2, <3>1
        <4> QED
          BY <4>1, <4>2
      <3>2. CASE mappings[m] # 1
        <4>1. m \in DOMAIN mappings' /\ mappings'[m] = mappings[m] - 1 /\ m \in mapped'
          BY <1>1, <2>2, <3>2
        <4>2. (n - 1) + left > 0 /\ mappings[m] - 1 = (n - 1) + left
          BY <1>1, <2>1, <2>2, <3>2
        <4> QED
          BY <4>1, <4>2
      <3> QED
        BY <3>1, <3>2
    <2> HIDE DEF left
    <2> QED
      BY <1>1, <1>2, <2>3, <2>4, <2>5, <2>6, LiveMapsChanged DEF left
  <1>3. CASE device = "lost"
    <2>1. /\ resourceObjects \subseteq HostObjects /\ memory = <<>> /\ mapped = {}
          /\ \A x \in DOMAIN mappings : mappings[x] \in Nat \ {0}
          /\ memoryMisuse \subseteq {"dead device"}
      BY <1>3 DEF MemoryInv, Gone
    <2>2. resourceObjects' \subseteq HostObjects /\ memory' = <<>> /\ mapped' = {}
      BY <1>1, <2>1
    <2>3. \A x \in DOMAIN mappings' : mappings'[x] \in Nat \ {0}
      <3>1. CASE m \notin DOMAIN mappings
        BY <1>1, <2>1, <3>1
      <3>2. CASE m \in DOMAIN mappings /\ mappings[m] = 1
        BY <1>1, <2>1, <3>2 DEF Memory!Drop
      <3>3. CASE m \in DOMAIN mappings /\ mappings[m] # 1
        <4>1. mappings' = [mappings EXCEPT ![m] = @ - 1]
          BY <1>1, <3>3
        <4>2. mappings[m] - 1 \in Nat \ {0}
          <5> HIDE DEF m
          <5> QED
            BY <2>1, <3>3, CountsLeft
        <4> QED
          BY <2>1, <3>3, <4>1, <4>2
      <3> QED
        BY <3>1, <3>2, <3>3
    <2>4. memoryMisuse' \subseteq {"dead device"}
      <3>1. Memory!Wrong(Memory!Dead, m \in mapped, "unmapped twice") = {"dead device"}
        BY <1>3 DEF Memory!Wrong, Memory!Dead
      <3> QED
        BY <1>1, <2>1, <3>1
    <2>5. \A q \in DOMAIN resources' : resources'[q] \in Record
      <3>1. \A q \in DOMAIN resources : resources[q] \in Record
        BY DEF MemoryInv
      <3>2. n \in 0 .. MaxMaps
        BY <1>1, <3>1 DEF Record
      <3>3. PICK k \in 0 .. MaxMaps : resources' = [resources EXCEPT ![r].maps = k]
        <4>1. CASE m \notin DOMAIN mappings
          BY <1>1, <4>1, ResourcesAssumption
        <4>2. CASE m \in DOMAIN mappings
          <5>1. resources' = [resources EXCEPT ![r].maps = IF n = 0 THEN 0 ELSE n - 1]
            BY <1>1, <4>2
          <5>2. (IF n = 0 THEN 0 ELSE n - 1) \in 0 .. MaxMaps
            BY <3>2, ResourcesAssumption
          <5> HIDE DEF n
          <5> QED
            BY <5>1, <5>2
        <4> QED
          BY <4>1, <4>2
      <3>4. [resources[r] EXCEPT !.maps = k] \in Record
        BY <1>1, <3>1, <3>3 DEF Record
      <3> QED
        BY <3>1, <3>3, <3>4
    <2>6. DOMAIN resources' = DOMAIN resources
      BY <1>1
    <2> QED
      BY <1>1, <1>3, <2>2, <2>3, <2>4, <2>5, <2>6 DEF MemoryInv, Gone
  <1> QED
    BY <1>1, <1>2, <1>3
-----------------------------------------------------------------------------
(* On a device that its host destroyed only counts and blame change.       *)
LostState(v) ==
  /\ v = [objects |-> v.objects, memory |-> v.memory, mapped |-> v.mapped, mappings |-> v.mappings,
          misuse |-> v.misuse, dead |-> v.dead]
  /\ v.dead = TRUE
  /\ v.objects \subseteq HostObjects /\ v.memory = <<>> /\ v.mapped = {}
  /\ \A m \in DOMAIN v.mappings : v.mappings[m] \in Nat \ {0}
  /\ v.misuse \subseteq {"dead device"}

(* On such a device releasing a mapping only takes it away,                *)
LEMMA LostUnmapped ==
  ASSUME NEW v, LostState(v), NEW s \in Record
  PROVE  LostState(Memory!Unmapped(v, s))
  <1> DEFINE m == s.memory
             n == s.maps
             left == v.mappings[m] - Memory!Released(v, s)
             u == Memory!Unmapped(v, s)
  <1>1. n \in Nat
    BY ResourcesAssumption DEF Record
  <1>2. \A k : Memory!Wrong(v.dead, k, "unmapped twice") = {"dead device"}
    BY DEF LostState, Memory!Wrong
  <1>3. CASE m = None \/ n = 0 \/ m \notin DOMAIN v.mappings
    <2>1. u = v
      BY <1>3 DEF Memory!Unmapped
    <2> QED
      BY <2>1
  <1>4. CASE ~ (m = None \/ n = 0 \/ m \notin DOMAIN v.mappings) /\ left > 0
    <2>1. u = [v EXCEPT !.mappings[m] = left]
      BY <1>4 DEF Memory!Unmapped
    <2>2. left \in Nat \ {0}
      <3>1. v.mappings[m] \in Nat
        BY <1>4 DEF LostState
      <3>2. left \in Int
        BY <1>1, <3>1 DEF Memory!Released
      <3> HIDE DEF left
      <3> QED
        BY <1>4, <3>2
    <2> HIDE DEF left, u, m
    <2>3. /\ u.objects = v.objects /\ u.memory = v.memory /\ u.mapped = v.mapped /\ u.misuse = v.misuse
          /\ u.dead = v.dead /\ u.mappings = [v.mappings EXCEPT ![m] = left]
          /\ u = [objects |-> u.objects, memory |-> u.memory, mapped |-> u.mapped, mappings |-> u.mappings,
                  misuse |-> u.misuse, dead |-> u.dead]
      BY <2>1 DEF LostState
    <2>4. \A k \in DOMAIN u.mappings : u.mappings[k] \in Nat \ {0}
      BY <2>2, <2>3 DEF LostState
    <2>5. LostState(u)
      BY <2>3, <2>4 DEF LostState
    <2> QED
      BY <2>5 DEF u
  <1>5. CASE ~ (m = None \/ n = 0 \/ m \notin DOMAIN v.mappings) /\ ~ (left > 0)
    <2>1. u = [v EXCEPT !.mappings = Memory!Drop(@, m), !.mapped = @ \ {m},
                        !.misuse = @ \cup Memory!Wrong(v.dead, m \in v.mapped, "unmapped twice")]
      BY <1>5 DEF Memory!Unmapped
    <2> HIDE DEF u, m
    <2>2. /\ u.objects = v.objects /\ u.memory = v.memory /\ u.mapped = v.mapped \ {m}
          /\ u.misuse = v.misuse \cup {"dead device"}
          /\ u.dead = v.dead /\ u.mappings = [k \in DOMAIN v.mappings \ {m} |-> v.mappings[k]]
          /\ u = [objects |-> u.objects, memory |-> u.memory, mapped |-> u.mapped, mappings |-> u.mappings,
                  misuse |-> u.misuse, dead |-> u.dead]
      BY <1>2, <2>1 DEF LostState, Memory!Drop
    <2>3. \A k \in DOMAIN u.mappings : u.mappings[k] \in Nat \ {0}
      BY <2>2 DEF LostState
    <2>4. LostState(u)
      BY <2>2, <2>3 DEF LostState
    <2> QED
      BY <2>4 DEF u
  <1> QED
    BY <1>3, <1>4, <1>5

(* freeing memory only takes that memory away, *)
LEMMA LostFreed ==
  ASSUME NEW v, LostState(v), NEW m
  PROVE  LostState(Memory!MemoryFreed(v, m))
  <1> DEFINE u == Memory!MemoryFreed(v, m)
  <1>1. \A k : Memory!Wrong(v.dead, k, "freed twice") = {"dead device"}
    BY DEF LostState, Memory!Wrong
  <1>2. u = [v EXCEPT !.memory = Memory!Drop(@, m), !.mapped = @ \ {m},
                      !.misuse = @ \cup Memory!Wrong(v.dead, m \in DOMAIN v.memory, "freed twice")]
    BY DEF Memory!MemoryFreed
  <1> HIDE DEF u
  <1>3. /\ u.objects = v.objects /\ u.memory = Memory!Drop(v.memory, m) /\ u.mapped = v.mapped \ {m}
        /\ u.misuse = v.misuse \cup {"dead device"} /\ u.dead = v.dead /\ u.mappings = v.mappings
        /\ u = [objects |-> u.objects, memory |-> u.memory, mapped |-> u.mapped, mappings |-> u.mappings,
                misuse |-> u.misuse, dead |-> u.dead]
    BY <1>1, <1>2 DEF LostState
  <1>4. u.memory = <<>>
    <2>1. v.memory = <<>> /\ DOMAIN v.memory = {}
      <3>1. v.memory = <<>>
        BY DEF LostState
      <3>2. DOMAIN <<>> = {}
        OBVIOUS
      <3> QED
        BY <3>1, <3>2
    <2>2. DOMAIN u.memory = {} /\ u.memory = [k \in DOMAIN u.memory |-> u.memory[k]]
      BY <1>3, <2>1 DEF Memory!Drop
    <2> QED
      BY <2>2, EmptyFunction
  <1>5. LostState(u)
    BY <1>3, <1>4 DEF LostState
  <1> QED
    BY <1>5 DEF u

(* and a destroyed resource is gone with its object and its memory.       *)
LEMMA LostDestroyed ==
  ASSUME NEW v, LostState(v), NEW s \in Record
  PROVE  LostState(Memory!Destroyed(v, s))
  <1> DEFINE u == Memory!Unmapped(v, s)
             g == Memory!ObjectDestroyed(u, s.object)
  <1>1. LostState(u)
    BY LostUnmapped
  <1>2. LostState(g)
    <2>1. \A k : Memory!Wrong(u.dead, k, "destroyed twice") = {"dead device"}
      BY <1>1 DEF LostState, Memory!Wrong
    <2>2. g = [u EXCEPT !.objects = @ \ {s.object},
                        !.misuse = @ \cup Memory!Wrong(u.dead, s.object \in u.objects, "destroyed twice")]
      BY DEF Memory!ObjectDestroyed
    <2> HIDE DEF u, g
    <2>3. /\ g.objects = u.objects \ {s.object} /\ g.memory = u.memory /\ g.mapped = u.mapped
          /\ g.misuse = u.misuse \cup {"dead device"} /\ g.dead = u.dead /\ g.mappings = u.mappings
          /\ g = [objects |-> g.objects, memory |-> g.memory, mapped |-> g.mapped, mappings |-> g.mappings,
                  misuse |-> g.misuse, dead |-> g.dead]
      BY <1>1, <2>1, <2>2 DEF LostState
    <2> QED
      BY <1>1, <2>3 DEF LostState
  <1>3. LostState(Memory!MemoryFreed(g, s.memory)) /\ LostState(Memory!MemoryFreed(u, s.memory))
    BY <1>1, <1>2, LostFreed
  <1>4. Memory!Destroyed(v, s) \in {u, g, Memory!MemoryFreed(g, s.memory), Memory!MemoryFreed(u, s.memory)}
    BY DEF Memory!Destroyed
  <1> QED
    BY <1>1, <1>2, <1>3, <1>4

(* What a lost device's step becomes keeps the invariant.                  *)
LEMMA LostStep ==
  ASSUME MemoryInv, device = "lost", device' = "lost", NEW v, LostState(v), Memory!Becomes(v),
         DOMAIN resources' \subseteq DOMAIN resources, \A r \in DOMAIN resources' : resources'[r] = resources[r],
         DOMAIN heaps' \subseteq DOMAIN heaps
  PROVE  MemoryInv'
  <1>1. Gone'
    BY DEF Gone, LostState, Memory!Becomes
  <1>2. \A r \in DOMAIN resources' : resources'[r] \in Record
    BY DEF MemoryInv
  <1> QED
    BY <1>1, <1>2 DEF MemoryInv

(* The state of a lost device is one of these.                             *)
LEMMA LostNow ==
  ASSUME MemoryInv, device = "lost"
  PROVE  LostState(Memory!Now)
  <1>1. Gone
    BY DEF MemoryInv
  <1>2. Memory!Dead = TRUE
    BY DEF Memory!Dead
  <1> QED
    BY <1>1, <1>2 DEF LostState, Gone, Memory!Now

(* A live device's step that becomes what is exact without a resource or   *)
(* a heap.                                                                 *)
LEMMA DestroyResourceStep ==
  ASSUME MemoryInv, NEW r \in Handles, Memory!DestroyResource(r)
  PROVE  MemoryInv'
  <1> DEFINE D == DOMAIN resources
             v == Memory!Destroyed(Memory!Now, resources[r])
  <1>1. /\ r \in D /\ device \in {"live", "lost"} /\ Memory!Becomes(v)
        /\ resources' = Memory!Drop(resources, r) /\ heaps' = heaps /\ device' = device
    BY DEF Memory!DestroyResource, Memory!CallsGoOn
  <1>2. DOMAIN resources' = D \ {r} /\ \A q \in D \ {r} : resources'[q] = resources[q]
    BY <1>1 DEF Memory!Drop
  <1> HIDE DEF v
  <1>3. CASE device = "live"
    <2>1. Exact(Memory!Now, resources, D, heaps, DOMAIN heaps)
      BY <1>3, LiveParts
    <2>2. Exact(v, resources, D \ {r}, heaps, DOMAIN heaps)
      BY <1>1, <2>1, DestroyedExact DEF v
    <2>3. Exact(v, resources', D \ {r}, heaps, DOMAIN heaps)
      BY <1>2, <2>2, ExactSame
    <2>4. Memory!Now' = v
      BY <1>1, <1>3, <2>2, BecomesNow DEF Exact
    <2>5. Exact(Memory!Now', resources', DOMAIN resources', heaps', DOMAIN heaps')
      BY <1>1, <1>2, <2>3, <2>4
    <2>6. DOMAIN resources' \subseteq Handles /\ DOMAIN heaps' \subseteq Heaps
      BY <1>1, <1>2 DEF MemoryInv
    <2> QED
      BY <1>1, <1>3, <2>5, <2>6, LiveStep
  <1>4. CASE device = "lost"
    <2>1. resources[r] \in Record
      BY <1>1 DEF MemoryInv
    <2>2. LostState(v)
      BY <1>4, <2>1, LostNow, LostDestroyed DEF v
    <2> QED
      BY <1>1, <1>2, <1>4, <2>2, LostStep
  <1> QED
    BY <1>1, <1>3, <1>4

(* A heap's memory is freed once, when nothing is placed in it.            *)
LEMMA DestroyHeapStep ==
  ASSUME MemoryInv, NEW h \in Heaps, Memory!DestroyHeap(h)
  PROVE  MemoryInv'
  <1> DEFINE D == DOMAIN resources
             K == DOMAIN heaps
             v == Memory!MemoryFreed(Memory!Now, heaps[h])
  <1>1. /\ h \in K /\ device \in {"live", "lost"} /\ Memory!Becomes(v)
        /\ \A r \in D : resources[r].memory # heaps[h]
        /\ heaps' = Memory!Drop(heaps, h) /\ resources' = resources /\ device' = device
    BY DEF Memory!DestroyHeap, Memory!CallsGoOn
  <1>2. DOMAIN heaps' = K \ {h} /\ \A k \in K \ {h} : heaps'[k] = heaps[k]
    BY <1>1 DEF Memory!Drop
  <1> HIDE DEF v
  <1>3. CASE device = "live"
    <2>1. Exact(Memory!Now, resources, D, heaps, K)
      BY <1>3, LiveParts
    <2>2. Exact(v, resources, D, heaps, K \ {h})
      BY <1>1, <2>1, FreedExact DEF v
    <2>3. Exact(v, resources, D, heaps', K \ {h})
      BY <1>2, <2>2, ExactSame
    <2>4. Memory!Now' = v
      BY <1>1, <1>3, <2>2, BecomesNow DEF Exact
    <2>5. Exact(Memory!Now', resources', DOMAIN resources', heaps', DOMAIN heaps')
      BY <1>1, <1>2, <2>3, <2>4
    <2>6. DOMAIN resources' \subseteq Handles /\ DOMAIN heaps' \subseteq Heaps
      BY <1>1, <1>2 DEF MemoryInv
    <2> QED
      BY <1>1, <1>3, <2>5, <2>6, LiveStep
  <1>4. CASE device = "lost"
    <2>1. LostState(v)
      BY <1>4, LostNow, LostFreed DEF v
    <2> QED
      BY <1>1, <1>2, <1>4, <2>1, LostStep
  <1> QED
    BY <1>1, <1>3, <1>4

(* What the host allocated is gone with its device.                        *)
LEMMA AbandonStep ==
  ASSUME MemoryInv, Memory!Abandon
  PROVE  MemoryInv'
  <1>1. /\ device = "live" /\ device' = "lost" /\ resourceObjects' = {} /\ memory' = <<>> /\ mapped' = {}
        /\ resources' = resources /\ heaps' = heaps /\ mappings' = mappings /\ memoryMisuse' = memoryMisuse
    BY DEF Memory!Abandon
  <1>2. Counted(Memory!Now, resources, DOMAIN resources) /\ memoryMisuse = {}
    BY <1>1, LiveParts DEF Exact
  <1>3. Remaining(resources, DOMAIN resources, heaps, DOMAIN heaps)
    BY <1>1, LiveParts DEF Exact
  <1>4. \A m \in DOMAIN mappings : mappings[m] \in Nat \ {0}
    <2>1. TAKE m \in DOMAIN mappings
    <2>2. Held(resources, DOMAIN resources, m) \in Nat
      BY <1>3, RemainingParts, HeldIsNat
    <2>3. mappings[m] = Held(resources, DOMAIN resources, m) /\ Held(resources, DOMAIN resources, m) > 0
      BY <1>2, NowIs DEF Counted
    <2> QED
      BY <2>2, <2>3
  <1>5. Gone'
    BY <1>1, <1>2, <1>4 DEF Gone
  <1> QED
    BY <1>1, <1>5 DEF MemoryInv

(* A registry of finitely many handles has finitely many entries.          *)
LEMMA RangeFinite ==
  ASSUME NEW f, IsFiniteSet(DOMAIN f)
  PROVE  IsFiniteSet(Memory!Range(f))
  <1> DEFINE D == DOMAIN f
             T == Memory!Range(f)
             g == [x \in D |-> f[x]]
  <1>1. g \in Surjection(D, T)
    BY DEF Surjection, Memory!Range
  <1> QED
    BY <1>1, FS_Surjection

(* Shutdown destroys one resource after another...                         *)
LEMMA AllDestroyed ==
  ASSUME NEW v, NEW rs, NEW hs, NEW K, Exact(v, rs, DOMAIN rs, hs, K)
  PROVE  Exact(Fold("destroy", <<>>, v, Memory!Range(rs)), rs, {}, hs, K)
  <1> DEFINE D == DOMAIN rs
             S == Memory!Range(rs)
             F(T) == Fold("destroy", <<>>, v, T)
             Left(T) == {r \in D : rs[r] \notin T}
             Bad == {T \in SUBSET S : ~ Exact(F(T), rs, Left(T), hs, K)}
  <1>1. IsFiniteSet(S)
    <2>1. IsFiniteSet(D)
      BY DEF Exact, Remaining
    <2> QED
      BY <2>1, RangeFinite
  <1>2. Bad = {}
    <2>1. SUFFICES ASSUME Bad # {} PROVE FALSE
      OBVIOUS
    <2>2. PICK T \in Bad : \A x \in T : T \ {x} \notin Bad
      BY <1>1, <2>1, SmallestSet
    <2>3. T \in SUBSET S /\ IsFiniteSet(T) /\ ~ Exact(F(T), rs, Left(T), hs, K)
      BY <1>1, <2>2, FS_Subset
    <2>4. T # {}
      <3>1. ASSUME T = {} PROVE FALSE
        <4>1. F(T) = v
          BY <2>3, <3>1, FoldTaken
        <4>2. Left(T) = D
          BY <3>1
        <4> HIDE DEF F, Left
        <4> QED
          BY <2>3, <4>1, <4>2
      <3> QED
        BY <3>1
    <2>5. PICK x \in T : F(T) = Op("destroy", <<>>, x, F(T \ {x}))
      BY <2>3, <2>4, FoldTaken
    <2> HIDE DEF F
    <2>6. F(T) = Memory!Destroyed(F(T \ {x}), x)
      BY <2>5 DEF Op
    <2>7. Exact(F(T \ {x}), rs, Left(T \ {x}), hs, K)
      BY <2>2, <2>3
    <2> DEFINE E == {r \in Left(T \ {x}) : rs[r] = x}
    <2>8. E # {} /\ E \in SUBSET Left(T \ {x}) /\ (\A r \in E : rs[r] = x) /\ Left(T \ {x}) \ E = Left(T)
      <3>1. \E r \in D : rs[r] = x
        BY <2>3 DEF Memory!Range
      <3> QED
        BY <3>1
    <2> HIDE DEF E, Left
    <2>9. Exact(Memory!Destroyed(F(T \ {x}), x), rs, Left(T \ {x}) \ E, hs, K)
      BY <2>7, <2>8, DestroyedExact
    <2> QED
      BY <2>3, <2>6, <2>8, <2>9
  <1>3. Left(S) = {}
    BY DEF Memory!Range
  <1>4. Exact(F(S), rs, Left(S), hs, K)
    BY <1>2
  <1> HIDE DEF Left
  <1> QED
    BY <1>3, <1>4

(* ... and then frees one heap after another.                              *)
LEMMA AllFreed ==
  ASSUME NEW v, NEW rs, NEW hs, Exact(v, rs, {}, hs, DOMAIN hs)
  PROVE  Exact(Fold("free", <<>>, v, Memory!Range(hs)), rs, {}, hs, {})
  <1> DEFINE K == DOMAIN hs
             S == Memory!Range(hs)
             F(T) == Fold("free", <<>>, v, T)
             Left(T) == {h \in K : hs[h] \notin T}
             Bad == {T \in SUBSET S : ~ Exact(F(T), rs, {}, hs, Left(T))}
  <1>1. IsFiniteSet(S) /\ \A h, k \in K : hs[h] = hs[k] => h = k
    <2>1. IsFiniteSet(K) /\ \A h, k \in K : hs[h] = hs[k] => h = k
      BY DEF Exact, Remaining
    <2> QED
      BY <2>1, RangeFinite
  <1>2. Bad = {}
    <2>1. SUFFICES ASSUME Bad # {} PROVE FALSE
      OBVIOUS
    <2>2. PICK T \in Bad : \A x \in T : T \ {x} \notin Bad
      BY <1>1, <2>1, SmallestSet
    <2>3. T \in SUBSET S /\ IsFiniteSet(T) /\ ~ Exact(F(T), rs, {}, hs, Left(T))
      BY <1>1, <2>2, FS_Subset
    <2>4. T # {}
      <3>1. ASSUME T = {} PROVE FALSE
        <4>1. F(T) = v
          BY <2>3, <3>1, FoldTaken
        <4>2. Left(T) = K
          BY <3>1
        <4> HIDE DEF F, Left
        <4> QED
          BY <2>3, <4>1, <4>2
      <3> QED
        BY <3>1
    <2>5. PICK x \in T : F(T) = Op("free", <<>>, x, F(T \ {x}))
      BY <2>3, <2>4, FoldTaken
    <2> HIDE DEF F
    <2>6. F(T) = Memory!MemoryFreed(F(T \ {x}), x)
      BY <2>5 DEF Op
    <2>7. Exact(F(T \ {x}), rs, {}, hs, Left(T \ {x}))
      BY <2>2, <2>3
    <2>8. PICK h \in K : hs[h] = x
      BY <2>3 DEF Memory!Range
    <2>9. h \in Left(T \ {x}) /\ Left(T \ {x}) \ {h} = Left(T)
      BY <1>1, <2>8
    <2> HIDE DEF Left
    <2>10. Exact(Memory!MemoryFreed(F(T \ {x}), hs[h]), rs, {}, hs, Left(T \ {x}) \ {h})
      BY <2>7, <2>9, FreedExact
    <2> QED
      BY <2>3, <2>6, <2>8, <2>9, <2>10
  <1>3. Left(S) = {}
    BY DEF Memory!Range
  <1>4. Exact(F(S), rs, {}, hs, Left(S))
    BY <1>2
  <1> HIDE DEF Left
  <1> QED
    BY <1>3, <1>4

(* Nothing is left then but what is the host's.                            *)
LEMMA NothingLeft ==
  ASSUME NEW v, NEW rs, NEW hs, Exact(v, rs, {}, hs, {})
  PROVE  v.objects = HostObjects /\ v.memory = <<>> /\ v.mapped = {} /\ DOMAIN v.mappings = {} /\ v.misuse = {}
  <1>1. v.misuse = {} /\ Belongs(v, rs, {}, hs, {}) /\ Counted(v, rs, {})
    BY DEF Exact
  <1>2. OwnedObjects(rs, {}) = {} /\ OwnedMemory(rs, {}) = {} /\ Given(hs, {}) = {}
    BY DEF OwnedObjects, OwnedMemory, Given
  <1>3. v.objects = HostObjects /\ DOMAIN v.memory = {} /\ v.memory = [m \in DOMAIN v.memory |-> v.memory[m]]
    BY <1>1, <1>2 DEF Belongs
  <1>4. v.memory = <<>>
    BY <1>3, EmptyFunction
  <1>5. \A m : m \notin v.mapped /\ m \notin DOMAIN v.mappings
    BY <1>1, HeldByNone DEF Counted
  <1> QED
    BY <1>1, <1>3, <1>4, <1>5

(* Shutdown destroys every resource and frees every heap, in any order, *)
(* and leaves the host's objects only.                                     *)
LEMMA ShutdownStep ==
  ASSUME MemoryInv, Memory!Shutdown
  PROVE  MemoryInv'
  <1>1. device # "down" /\ device' = "down" /\ resources' = <<>> /\ heaps' = <<>>
    BY DEF Memory!Shutdown
  <1>2. CASE device = "live"
    <2> DEFINE v == Fold("destroy", <<>>, Memory!Now, Memory!Range(resources))
               w == Fold("free", <<>>, v, Memory!Range(heaps))
    <2>1. Memory!Becomes(w)
      <3> DEFINE release(m, x) == Memory!MemoryFreed(x, m)
                 destroy(s, x) == Memory!Destroyed(x, s)
      <3>1. Memory!Becomes(Memory!FoldSet(release,
              Memory!FoldSet(destroy, Memory!Now, Memory!Range(resources)), Memory!Range(heaps)))
        BY <1>2 DEF Memory!Shutdown
      <3>2. Memory!FoldSet(destroy, Memory!Now, Memory!Range(resources)) = v
        BY FoldsOfLibrary
      <3>3. Memory!FoldSet(release, v, Memory!Range(heaps)) = w
        BY FoldsOfLibrary
      <3> QED
        BY <3>1, <3>2, <3>3
    <2>2. Exact(Memory!Now, resources, DOMAIN resources, heaps, DOMAIN heaps)
      BY <1>2, LiveParts
    <2> HIDE DEF v, w
    <2>3. Exact(v, resources, {}, heaps, DOMAIN heaps)
      BY <2>2, AllDestroyed DEF v
    <2>4. Exact(w, resources, {}, heaps, {})
      BY <2>3, AllFreed DEF w
    <2>5. w.objects = HostObjects /\ w.memory = <<>> /\ w.mapped = {} /\ DOMAIN w.mappings = {} /\ w.misuse = {}
      BY <2>4, NothingLeft
    <2>6. Gone'
      BY <2>1, <2>5 DEF Gone, Memory!Becomes
    <2> QED
      BY <1>1, <2>6 DEF MemoryInv
  <1>3. CASE device = "lost"
    <2>1. /\ resourceObjects' = resourceObjects /\ memory' = memory /\ mapped' = mapped
          /\ mappings' = mappings /\ memoryMisuse' = memoryMisuse
      BY <1>3 DEF Memory!Shutdown, Memory!driver
    <2>2. Gone'
      BY <1>3, <2>1 DEF MemoryInv, Gone
    <2> QED
      BY <1>1, <2>2 DEF MemoryInv
  <1> QED
    BY <1>1, <1>2, <1>3 DEF MemoryInv
-----------------------------------------------------------------------------
(* A device starts with its host's objects alone.                          *)
LEMMA MemoryInit ==
  ASSUME Memory!Init
  PROVE  MemoryInv
  <1>1. /\ resources = <<>> /\ heaps = <<>> /\ resourceObjects = HostObjects /\ memory = <<>> /\ mapped = {}
        /\ mappings = <<>> /\ device = "live" /\ memoryMisuse = {}
    BY DEF Memory!Init
  <1>2. DOMAIN <<>> = {} /\ <<>> = [m \in DOMAIN <<>> |-> <<>>[m]]
    OBVIOUS
  <1>3. OwnedObjects(<<>>, {}) = {} /\ OwnedMemory(<<>>, {}) = {} /\ Given(<<>>, {}) = {}
    BY DEF OwnedObjects, OwnedMemory, Given
  <1>4. DOMAIN resources = {} /\ DOMAIN heaps = {} /\ DOMAIN memory = {} /\ DOMAIN mappings = {}
    BY <1>1, <1>2
  <1>5. Remaining(resources, {}, heaps, {})
    BY FS_EmptySet DEF Remaining
  <1>6. Belongs(Memory!Now, resources, {}, heaps, {})
    BY <1>1, <1>2, <1>3, <1>4, NowIs DEF Belongs
  <1>7. Counted(Memory!Now, resources, {})
    <2>1. \A m : m \notin DOMAIN mappings /\ m \notin mapped
      BY <1>1, <1>4
    <2> QED
      BY <2>1, NowIs, HeldByNone DEF Counted
  <1>8. Exact(Memory!Now, resources, DOMAIN resources, heaps, DOMAIN heaps)
    BY <1>1, <1>4, <1>5, <1>6, <1>7, NowIs DEF Exact
  <1> QED
    BY <1>1, <1>4, <1>8 DEF MemoryInv

(* Steps that leave memory alone.                                          *)
LEMMA MemoryUnchanged ==
  ASSUME MemoryInv, UNCHANGED memoryVars
  PROVE  MemoryInv'
  <1>1. /\ resources' = resources /\ heaps' = heaps /\ resourceObjects' = resourceObjects
        /\ memory' = memory /\ mapped' = mapped /\ mappings' = mappings /\ device' = device
        /\ memoryMisuse' = memoryMisuse
    BY DEF memoryVars
  <1>2. Memory!Now' = Memory!Now
    BY <1>1 DEF Memory!Now, Memory!Dead
  <1>3. Gone => Gone'
    BY <1>1 DEF Gone
  <1> QED
    BY <1>1, <1>2, <1>3 DEF MemoryInv

(* Every step preserves the invariant, with one case for each action.      *)
LEMMA MemoryNext ==
  ASSUME MemoryInv, ObjectsNext
  PROVE  MemoryInv'
  <1>1. CASE UNCHANGED memoryVars
    BY <1>1, MemoryUnchanged
  <1>2. CASE Memory!Next
    <2>1. ASSUME NEW r \in Handles, Memory!CreateCommitted(r) PROVE MemoryInv'
      BY <2>1, CreateCommittedStep
    <2>2. ASSUME NEW r \in Handles, NEW h \in Heaps, Memory!CreatePlaced(r, h) PROVE MemoryInv'
      BY <2>2, CreatePlacedStep
    <2>3. ASSUME NEW r \in Handles, Memory!Import(r) PROVE MemoryInv'
      BY <2>3, ImportStep
    <2>4. ASSUME NEW r \in Handles, NEW offset, NEW size, Memory!Map(r, offset, size) PROVE MemoryInv'
      BY <2>4, MapStep
    <2>5. ASSUME NEW r \in Handles, Memory!Unmap(r) PROVE MemoryInv'
      BY <2>5, UnmapStep
    <2>6. ASSUME NEW r \in Handles, Memory!DestroyResource(r) PROVE MemoryInv'
      BY <2>6, DestroyResourceStep
    <2>7. ASSUME NEW h \in Heaps, Memory!CreateHeap(h) PROVE MemoryInv'
      BY <2>7, CreateHeapStep
    <2>8. ASSUME NEW h \in Heaps, Memory!DestroyHeap(h) PROVE MemoryInv'
      BY <2>8, DestroyHeapStep
    <2>9. CASE Memory!Abandon
      BY <2>9, AbandonStep
    <2>10. CASE Memory!Shutdown
      BY <2>10, ShutdownStep
    <2>11. CASE Memory!Done
      BY <2>11, MemoryUnchanged DEF Memory!Done, Memory!vars, memoryVars
    <2> QED
      BY <1>2, <2>1, <2>2, <2>3, <2>4, <2>5, <2>6, <2>7, <2>8, <2>9, <2>10, <2>11 DEF Memory!Next
  <1> QED
    BY <1>1, <1>2 DEF ObjectsNext

(* The invariant holds in every state.                                     *)
THEOREM MemoryAlwaysKnown == ObjectsSpec => []MemoryInv
  <1>1. ObjectsInit => MemoryInv
    BY MemoryInit DEF ObjectsInit
  <1>2. MemoryInv /\ [ObjectsNext]_objectVars => MemoryInv'
    BY MemoryNext, MemoryUnchanged DEF objectVars
  <1> QED
    BY <1>1, <1>2, PTL DEF ObjectsSpec

(* What the library's sum is of the resources on a memory.                 *)
LEMMA HeldOn ==
  \A m : Memory!MapThenSumSet(LAMBDA r : resources[r].maps, Memory!On(m)) = Held(resources, DOMAIN resources, m)
  <1>1. \A m : Memory!On(m) = Users(resources, DOMAIN resources, m)
    BY DEF Memory!On, Users
  <1>2. \A S : Memory!MapThenSumSet(LAMBDA r : resources[r].maps, S) = Fold("sum", resources, 0, S)
    BY FoldsOfLibrary
  <1> QED
    BY <1>1, <1>2 DEF Held, Sum

(* Memory is counted and mapped as the live resources on it are.           *)
LEMMA KnownIsExact ==
  ASSUME MemoryInv
  PROVE  MappingsExact
  <1>1. CASE device = "live"
    <2> DEFINE D == DOMAIN resources
               v == Memory!Now
    <2>1. Remaining(resources, D, heaps, DOMAIN heaps) /\ Belongs(v, resources, D, heaps, DOMAIN heaps) /\ Counted(v, resources, D)
      BY <1>1, LiveParts DEF Exact
    <2>2. v.objects = resourceObjects /\ v.memory = memory /\ v.mapped = mapped /\ v.mappings = mappings
      BY NowIs
    <2> HIDE DEF v
    <2>3. \A m : /\ (m \in DOMAIN mappings) <=> (Held(resources, D, m) > 0)
                 /\ m \in DOMAIN mappings => mappings[m] = Held(resources, D, m)
                 /\ (m \in mapped) <=> (Held(resources, D, m) > 0)
      BY <2>1, <2>2 DEF Counted
    <2>4. \A m : Held(resources, D, m) \in Nat
      BY <2>1, RemainingParts, HeldIsNat
    <2>5. resourceObjects \subseteq Objects
      <3>1. OwnedObjects(resources, D) \subseteq Objects
        BY <2>1 DEF OwnedObjects, Remaining, Record
      <3> QED
        BY <2>1, <2>2, <3>1, ResourcesAssumption DEF Belongs
    <2>6. mapped \subseteq DOMAIN memory
      <3>1. SUFFICES ASSUME NEW m \in mapped PROVE m \in DOMAIN memory
        OBVIOUS
      <3>2. \E r \in D : resources[r].memory = m /\ resources[r].maps > 0
        <4>1. Held(resources, D, m) > 0
          BY <2>3
        <4>2. IsFiniteSet(D) /\ \A r \in D : resources[r] \in Record
          BY <2>1, RemainingParts
        <4> QED
          BY <4>1, <4>2, HeldBySome
      <3>3. PICK r \in D : resources[r].memory = m /\ resources[r].maps > 0
        BY <3>2
      <3>4. Sorted(resources[r], Given(heaps, DOMAIN heaps))
        BY <2>1 DEF Remaining
      <3>5. m \in OwnedMemory(resources, D) \cup Given(heaps, DOMAIN heaps)
        BY <3>3, <3>4 DEF Sorted, OwnedMemory
      <3> QED
        BY <2>1, <2>2, <3>5 DEF Belongs
    <2>7. \A m \in DOMAIN mappings : mappings[m] \in Nat \ {0}
      BY <2>3, <2>4
    <2>8. \A m \in DOMAIN memory : memory[m] \in [size : Nat, type : Types]
      BY <2>1, <2>2 DEF Belongs
    <2>9. Memory!TypeOK
      BY <2>5, <2>6, <2>7, <2>8 DEF MemoryInv, Memory!TypeOK, Record
    <2>10. \A m : LET held == Memory!MapThenSumSet(LAMBDA r : resources[r].maps, Memory!On(m))
                  IN /\ (m \in DOMAIN mappings) = (held > 0)
                     /\ m \in DOMAIN mappings => mappings[m] = held
                     /\ (m \in mapped) = (held > 0)
      <3>1. TAKE m
      <3> DEFINE held == Memory!MapThenSumSet(LAMBDA r : resources[r].maps, Memory!On(m))
      <3>2. held = Held(resources, D, m)
        BY HeldOn
      <3> HIDE DEF held
      <3>3. /\ (m \in DOMAIN mappings) <=> (held > 0)
            /\ m \in DOMAIN mappings => mappings[m] = held
            /\ (m \in mapped) <=> (held > 0)
        BY <2>3, <3>2
      <3>4. (m \in DOMAIN mappings) = (held > 0)
        BY <3>3
      <3>5. (m \in mapped) = (held > 0)
        BY <3>3
      <3> QED
        BY <3>3, <3>4, <3>5 DEF held
    <2> QED
      BY <2>9, <2>10 DEF MappingsExact, Memory!MappingsExact
  <1>2. CASE device # "live"
    <2>1. Gone
      BY <1>2 DEF MemoryInv
    <2>2. DOMAIN <<>> = {}
      OBVIOUS
    <2>3. Memory!TypeOK
      <3>1. resourceObjects \subseteq Objects /\ mapped \subseteq DOMAIN memory
        BY <2>1, ResourcesAssumption DEF Gone
      <3>2. \A m \in DOMAIN memory : memory[m] \in [size : Nat, type : Types]
        BY <2>1, <2>2 DEF Gone
      <3> QED
        BY <2>1, <3>1, <3>2 DEF MemoryInv, Gone, Memory!TypeOK, Record
    <2> QED
      BY <1>2, <2>3 DEF MappingsExact, Memory!MappingsExact
  <1> QED
    BY <1>1, <1>2

(* The count of each memory's mappings is exact in every state, so that no *)
(* pointer that buf_map gave for one placed buffer dies because of another *)
(* buffer (VkMapMemory, VkDestroyResource and Shutdown).                   *)
THEOREM MappingsAlwaysExact == ObjectsSpec => []MappingsExact
  <1>1. MemoryInv => MappingsExact
    BY KnownIsExact
  <1> QED
    BY <1>1, MemoryAlwaysKnown, PTL
-----------------------------------------------------------------------------
(* What each has one of, and no other has, are as many as they.            *)
LEMMA OneEach ==
  ASSUME NEW D, IsFiniteSet(D), NEW g, DOMAIN g = D, g = [x \in D |-> g[x]],
         \A x, y \in D : g[x] = g[y] => x = y
  PROVE  LET T == {g[x] : x \in D} IN IsFiniteSet(T) /\ Cardinality(T) = Cardinality(D)
  <1> DEFINE T == {g[x] : x \in D}
  <1>1. g \in Surjection(D, T) /\ g \in Injection(D, T)
    BY DEF Surjection, Injection, IsInjective
  <1> HIDE DEF T
  <1>2. IsFiniteSet(T) /\ Cardinality(T) = Cardinality(D)
    BY <1>1, FS_Surjection
  <1> QED
    BY <1>2 DEF T

(* The members of two sets that are apart, counted together.               *)
LEMMA Together ==
  ASSUME NEW S, IsFiniteSet(S), NEW T, IsFiniteSet(T), S \cap T = {}
  PROVE  Cardinality(S \cup T) = Cardinality(S) + Cardinality(T)
  <1>1. Cardinality(S \cup T) = Cardinality(S) + Cardinality(T) - Cardinality(S \cap T)
    BY FS_Union
  <1>2. Cardinality(S \cap T) = 0 /\ Cardinality(S) \in Nat /\ Cardinality(T) \in Nat
    BY FS_EmptySet, FS_CardinalityType
  <1> QED
    BY <1>1, <1>2

(* The cardinality that Resources takes from the library is this one.      *)
LEMMA CardinalityInMemory == \A S : Memory!Cardinality(S) = Cardinality(S)
  BY DEF Memory!Cardinality, Cardinality

(* Every object and memory that exists is one live handle's.               *)
LEMMA KnownIsOwned ==
  ASSUME MemoryInv
  PROVE  Memory!NothingLeaked
  <1>1. CASE device = "live"
    <2> DEFINE D == DOMAIN resources
               K == DOMAIN heaps
               v == Memory!Now
               A == {r \in D : resources[r].ownsObject}
               B == {r \in D : resources[r].ownsMemory}
    <2>1. Remaining(resources, D, heaps, K) /\ Belongs(v, resources, D, heaps, K)
      BY <1>1, LiveParts DEF Exact
    <2>2. v.objects = resourceObjects /\ v.memory = memory
      BY NowIs
    <2> HIDE DEF v
    <2>3. resourceObjects = HostObjects \cup {resources[r].object : r \in A}
      BY <2>1, <2>2 DEF Belongs, OwnedObjects
    <2>4. DOMAIN memory = {resources[r].memory : r \in B} \cup {heaps[h] : h \in K}
      BY <2>1, <2>2 DEF Belongs, OwnedMemory, Given
    <2>5. IsFiniteSet(A) /\ IsFiniteSet(B) /\ IsFiniteSet(K)
      <3>1. IsFiniteSet(D) /\ IsFiniteSet(K)
        BY <2>1 DEF Remaining
      <3>2. A \subseteq D /\ B \subseteq D
        OBVIOUS
      <3> HIDE DEF A, B, D, K
      <3> QED
        BY <3>1, <3>2, FS_Subset
    <2>6. Cardinality(resourceObjects) = Cardinality(HostObjects) + Cardinality(A)
      <3> DEFINE g == [r \in A |-> resources[r].object]
                 T == {g[r] : r \in A}
      <3>1. \A r, q \in A : g[r] = g[q] => r = q
        BY <2>1 DEF Remaining
      <3>2. T = {resources[r].object : r \in A} /\ HostObjects \cap T = {}
        BY <2>1 DEF Remaining
      <3>3. DOMAIN g = A /\ g = [r \in A |-> g[r]]
        OBVIOUS
      <3> HIDE DEF g, A
      <3>4. IsFiniteSet(T) /\ Cardinality(T) = Cardinality(A)
        BY <2>5, <3>1, <3>3, OneEach
      <3> HIDE DEF T
      <3>5. Cardinality(HostObjects \cup T) = Cardinality(HostObjects) + Cardinality(T)
        BY <3>2, <3>4, ResourcesAssumption, Together
      <3> QED
        BY <2>3, <3>2, <3>4, <3>5
    <2>7. Cardinality(DOMAIN memory) = Cardinality(B) + Cardinality(K)
      <3> DEFINE g == [r \in B |-> resources[r].memory]
                 T == {g[r] : r \in B}
                 f == [h \in K |-> heaps[h]]
                 U == {f[h] : h \in K}
      <3>1. (\A r, q \in B : g[r] = g[q] => r = q) /\ (\A h, k \in K : f[h] = f[k] => h = k)
        BY <2>1 DEF Remaining
      <3>2. T = {resources[r].memory : r \in B} /\ U = {heaps[h] : h \in K} /\ T \cap U = {}
        <4>1. \A r \in B : resources[r].memory \notin Given(heaps, K)
          BY <2>1 DEF Remaining, Sorted
        <4> QED
          BY <4>1 DEF Given
      <3>3. DOMAIN g = B /\ g = [r \in B |-> g[r]] /\ DOMAIN f = K /\ f = [h \in K |-> f[h]]
        OBVIOUS
      <3> HIDE DEF g, f, B, K
      <3>4. IsFiniteSet(T) /\ Cardinality(T) = Cardinality(B) /\ IsFiniteSet(U) /\ Cardinality(U) = Cardinality(K)
        BY <2>5, <3>1, <3>3, OneEach
      <3> HIDE DEF T, U
      <3>5. Cardinality(T \cup U) = Cardinality(T) + Cardinality(U)
        BY <3>2, <3>4, Together
      <3> QED
        BY <2>4, <3>2, <3>4, <3>5
    <2>8. {heaps[h] : h \in K} = Memory!Range(heaps)
      BY DEF Memory!Range
    <2> QED
      BY <1>1, <2>3, <2>4, <2>6, <2>7, <2>8, CardinalityInMemory DEF Memory!NothingLeaked
  <1>2. CASE device = "lost"
    BY <1>2 DEF Memory!NothingLeaked
  <1>3. CASE device = "down"
    BY <1>3 DEF MemoryInv, Gone, Memory!NothingLeaked
  <1> QED
    BY <1>1, <1>2, <1>3 DEF MemoryInv

(* No object and no memory is lost, however creations fail, and Shutdown   *)
(* leaves nothing but the host's (the resources' part of NothingLeaked).   *)
THEOREM MemoryNeverLeaked == ObjectsSpec => []Memory!NothingLeaked
  <1>1. MemoryInv => Memory!NothingLeaked
    BY KnownIsOwned
  <1> QED
    BY <1>1, MemoryAlwaysKnown, PTL

(* Memory is never mapped, unmapped or freed twice, nor bound where it     *)
(* does not reach (the resources' part of CallsValid).                     *)
THEOREM MemoryCallsAlwaysValid == ObjectsSpec => []Memory!CallsValid
  <1>1. MemoryInv => Memory!CallsValid
    <2>1. ASSUME MemoryInv, device = "live" PROVE memoryMisuse = {}
      BY <2>1, LiveParts
    <2>2. ASSUME MemoryInv, device # "live" PROVE memoryMisuse \subseteq {"dead device"}
      BY <2>2 DEF MemoryInv, Gone
    <2> QED
      BY <2>1, <2>2 DEF Memory!CallsValid
  <1> QED
    BY <1>1, MemoryAlwaysKnown, PTL
=============================================================================
