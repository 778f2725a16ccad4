-------------------------- MODULE Descriptors_proofs --------------------------
(***************************************************************************)
(* Theorems about the registry and about the views, samplers and resources *)
(* of Descriptors.                                                         *)
(***************************************************************************)
EXTENDS Descriptors, FiniteSetTheorems, SequenceTheorems, WellFoundedInduction, TLAPS

Slot(Obj) == [obj : Obj \cup {NoObject}, generation : Nat \ {0}, alive : BOOLEAN]

(* The free list holds every index without an object, and holds it once.   *)
WellFormed(r, Obj) ==
  /\ r \in [slots : Seq(Slot(Obj)), freelist : Seq(Nat)]
  /\ \A k \in 1 .. Len(r.freelist) :
       /\ r.freelist[k] \in 1 .. Len(r.slots)
       /\ ~ r.slots[r.freelist[k]].alive
  /\ \A k, l \in 1 .. Len(r.freelist) : r.freelist[k] = r.freelist[l] => k = l
  /\ \A i \in 1 .. Len(r.slots) :
       ~ r.slots[i].alive => \E k \in 1 .. Len(r.freelist) : r.freelist[k] = i

(* No handle that resolves in q, or that a slot of q was past, is new:     *)
(* generations of an index never fall, and rise with each object.          *)
Retired(r, h) ==
  /\ h.index \in 1 .. Len(r.slots)
  /\ \/ r.slots[h.index].generation > h.generation
     \/ r.slots[h.index].generation = h.generation /\ ~ r.slots[h.index].alive

Known(r, h) == Resolves(r, h) \/ Retired(r, h)

(* The front of a list of indices. *)
LEMMA FrontOfList ==
  ASSUME NEW s \in Seq(Nat), NEW m \in Nat, m <= Len(s)
  PROVE  /\ SubSeq(s, 1, m) \in Seq(Nat) /\ Len(SubSeq(s, 1, m)) = m
         /\ \A k \in 1 .. m : SubSeq(s, 1, m)[k] = s[k]
  OBVIOUS

(* What the type of a well-formed registry says of its parts. *)
LEMMA Parts ==
  ASSUME NEW Obj, NEW r, WellFormed(r, Obj)
  PROVE  /\ r.slots \in Seq(Slot(Obj)) /\ r.freelist \in Seq(Nat)
         /\ Len(r.slots) \in Nat /\ DOMAIN r.slots = 1 .. Len(r.slots)
         /\ Len(r.freelist) \in Nat
         /\ r.freelist # <<>> => Len(r.freelist) \in 1 .. Len(r.freelist)
         /\ \A i \in 1 .. Len(r.slots) :
              /\ r.slots[i] \in Slot(Obj)
              /\ r.slots[i].generation \in Nat \ {0}
              /\ r.slots[i].alive \in BOOLEAN
<1>1. r.slots \in Seq(Slot(Obj)) /\ r.freelist \in Seq(Nat)
  BY DEF WellFormed
<1>2. \A i \in 1 .. Len(r.slots) : r.slots[i] \in Slot(Obj)
  BY <1>1
<1> QED
  BY <1>1, <1>2 DEF Slot

(* The next index is one without an object. *)
LEMMA NextIndex ==
  ASSUME NEW Obj, NEW r, WellFormed(r, Obj), r.freelist # <<>>
  PROVE  /\ NextHandle(r).index \in 1 .. Len(r.slots)
         /\ NextHandle(r).index = r.freelist[Len(r.freelist)]
         /\ ~ r.slots[NextHandle(r).index].alive
         /\ NextHandle(r).generation = r.slots[NextHandle(r).index].generation + 1
<1>1. NextHandle(r) = Handle(r.freelist[Len(r.freelist)],
                             r.slots[r.freelist[Len(r.freelist)]].generation + 1)
  BY DEF NextHandle
<1>2. /\ NextHandle(r).index = r.freelist[Len(r.freelist)]
      /\ NextHandle(r).generation = r.slots[r.freelist[Len(r.freelist)]].generation + 1
  BY <1>1 DEF Handle
<1>3. Len(r.freelist) \in 1 .. Len(r.freelist)
  BY Parts
<1> QED
  BY <1>2, <1>3 DEF WellFormed

(* The slots after alloc(obj), with and without an index to use again.     *)
LEMMA SlotsOfAlloc ==
  ASSUME NEW Obj, NEW r, WellFormed(r, Obj), NEW obj \in Obj
  PROVE  LET q == Alloc(r, obj)
             h == NextHandle(r)
             new == [obj |-> obj, generation |-> h.generation, alive |-> TRUE]
         IN /\ r.freelist = <<>> =>
                 /\ h.index = Len(r.slots) + 1 /\ h.generation = 1
                 /\ q = [slots |-> Append(r.slots, new), freelist |-> <<>>]
            /\ r.freelist # <<>> =>
                 q = [slots |-> [r.slots EXCEPT ![h.index] = new],
                      freelist |-> SubSeq(r.freelist, 1, Len(r.freelist) - 1)]
            /\ h.index \in Nat \ {0} /\ h.generation \in Nat \ {0}
            /\ new \in Slot(Obj)
            /\ Len(q.slots) \in Nat /\ h.index \in 1 .. Len(q.slots)
            /\ DOMAIN q.slots = 1 .. Len(q.slots)
            /\ 1 .. Len(r.slots) \subseteq 1 .. Len(q.slots)
            /\ q.slots[h.index] = new
            /\ \A k \in 1 .. Len(q.slots) :
                 k # h.index => k \in 1 .. Len(r.slots) /\ q.slots[k] = r.slots[k]
<1> DEFINE q == Alloc(r, obj)
           h == NextHandle(r)
           new == [obj |-> obj, generation |-> h.generation, alive |-> TRUE]
<1>1. CASE r.freelist = <<>>
  <2>1. h.index = Len(r.slots) + 1 /\ h.generation = 1
    BY <1>1 DEF NextHandle, Handle
  <2>2. q = [r EXCEPT !.slots = Append(r.slots, new)]
    BY <1>1 DEF Alloc
  <2>4. new \in Slot(Obj)
    BY <2>1 DEF Slot
  <2> HIDE DEF q, new, h
  <2>3. q = [slots |-> Append(r.slots, new), freelist |-> <<>>]
    <3>1. r = [slots |-> r.slots, freelist |-> r.freelist]
      BY DEF WellFormed
    <3> QED
      BY <1>1, <2>2, <3>1
  <2>5. q.slots = Append(r.slots, new)
    BY <2>3
  <2>6. /\ Len(q.slots) = Len(r.slots) + 1 /\ DOMAIN q.slots = 1 .. Len(q.slots)
        /\ q.slots[Len(r.slots) + 1] = new
        /\ \A k \in 1 .. Len(r.slots) : q.slots[k] = r.slots[k]
    BY <2>4, <2>5, Parts
  <2> QED
    BY <1>1, <2>1, <2>3, <2>4, <2>6, Parts DEF q, h, new
<1>2. CASE r.freelist # <<>>
  <2>1. /\ h.index \in 1 .. Len(r.slots)
        /\ h.generation = r.slots[h.index].generation + 1
    BY <1>2, NextIndex
  <2>2. h.generation \in Nat \ {0}
    BY <2>1, Parts
  <2>3. q = [slots |-> [r.slots EXCEPT ![h.index] = new],
             freelist |-> SubSeq(r.freelist, 1, Len(r.freelist) - 1)]
    BY <1>2 DEF Alloc
  <2>4. new \in Slot(Obj)
    BY <2>2 DEF Slot
  <2> HIDE DEF q, new, h
  <2>5. q.slots = [r.slots EXCEPT ![h.index] = new]
    BY <2>3
  <2>6. /\ Len(q.slots) = Len(r.slots) /\ DOMAIN q.slots = 1 .. Len(q.slots)
        /\ q.slots[h.index] = new
        /\ \A k \in 1 .. Len(r.slots) : k # h.index => q.slots[k] = r.slots[k]
    BY <2>1, <2>4, <2>5, Parts
  <2> QED
    BY <1>2, <2>1, <2>2, <2>3, <2>4, <2>6, Parts DEF q, h, new
<1> QED
  BY <1>1, <1>2

(* alloc() returns a handle never seen before, which from then on resolves *)
(* to the object.                                                          *)
THEOREM AllocIsFresh ==
  ASSUME NEW Obj, NEW r, WellFormed(r, Obj), NEW obj \in Obj
  PROVE  LET h == NextHandle(r)
         IN /\ ~ Known(r, h)
            /\ Resolves(Alloc(r, obj), h)
            /\ Object(Alloc(r, obj), h) = obj
<1> DEFINE h == NextHandle(r)
           q == Alloc(r, obj)
<1>1. /\ h.index \in DOMAIN q.slots
      /\ q.slots[h.index] = [obj |-> obj, generation |-> h.generation, alive |-> TRUE]
  BY SlotsOfAlloc
<1>2. CASE r.freelist = <<>>
  <2>1. h.index = Len(r.slots) + 1
    BY <1>2, SlotsOfAlloc
  <2>2. Len(r.slots) \in Nat /\ DOMAIN r.slots = 1 .. Len(r.slots)
    BY Parts
  <2> HIDE DEF h, q
  <2>3. h.index \notin 1 .. Len(r.slots)
    BY <2>1, <2>2
  <2>4. ~ Known(r, h)
    BY <2>2, <2>3 DEF Known, Resolves, Retired
  <2> QED
    BY <1>1, <2>4 DEF Resolves, Object, q, h
<1>3. CASE r.freelist # <<>>
  <2>1. /\ h.index \in 1 .. Len(r.slots) /\ ~ r.slots[h.index].alive
        /\ h.generation = r.slots[h.index].generation + 1
    BY <1>3, NextIndex
  <2>2. r.slots[h.index].generation \in Nat
    BY <2>1, Parts
  <2> QED
    BY <1>1, <2>1, <2>2 DEF Known, Resolves, Retired, Object
<1> QED
  BY <1>2, <1>3

(* alloc() takes no other holder's object, and brings no retired handle    *)
(* back.                                                                   *)
THEOREM AllocKeepsOthers ==
  ASSUME NEW Obj, NEW r, WellFormed(r, Obj), NEW obj \in Obj,
         NEW i \in Nat, NEW g \in Nat
  PROVE  /\ Resolves(r, Handle(i, g)) =>
              /\ Resolves(Alloc(r, obj), Handle(i, g))
              /\ Object(Alloc(r, obj), Handle(i, g)) = Object(r, Handle(i, g))
         /\ Retired(r, Handle(i, g)) =>
              Retired(Alloc(r, obj), Handle(i, g)) /\ ~ Resolves(Alloc(r, obj), Handle(i, g))
<1> DEFINE h == NextHandle(r)
           q == Alloc(r, obj)
<1>1. ASSUME i \in 1 .. Len(r.slots)
      PROVE  /\ i \in 1 .. Len(q.slots)
             /\ i # h.index => q.slots[i] = r.slots[i]
             /\ i = h.index => /\ ~ r.slots[i].alive
                               /\ q.slots[i].generation = r.slots[i].generation + 1
  <2>1. /\ 1 .. Len(r.slots) \subseteq 1 .. Len(q.slots)
        /\ \A k \in 1 .. Len(q.slots) : k # h.index => q.slots[k] = r.slots[k]
        /\ q.slots[h.index] = [obj |-> obj, generation |-> h.generation, alive |-> TRUE]
        /\ r.freelist = <<>> => h.index = Len(r.slots) + 1
    BY SlotsOfAlloc
  <2>2. Len(r.slots) \in Nat
    BY Parts
  <2>3. r.freelist # <<>> => /\ ~ r.slots[h.index].alive
                            /\ h.generation = r.slots[h.index].generation + 1
    BY NextIndex
  <2> HIDE DEF h, q
  <2>4. i \in 1 .. Len(q.slots) /\ (i # h.index => q.slots[i] = r.slots[i])
    BY <1>1, <2>1
  <2>5. i = h.index => r.freelist # <<>>
    BY <1>1, <2>1, <2>2
  <2> QED
    BY <2>1, <2>3, <2>4, <2>5
<1>2. ASSUME i \in 1 .. Len(r.slots)
      PROVE  r.slots[i].generation \in Nat
  BY <1>2, Parts
<1>3. DOMAIN q.slots = 1 .. Len(q.slots) /\ DOMAIN r.slots = 1 .. Len(r.slots)
  BY SlotsOfAlloc, Parts
<1> HIDE DEF q, h
<1>4. Handle(i, g).index = i /\ Handle(i, g).generation = g
  BY DEF Handle
<1>5. ASSUME Resolves(r, Handle(i, g))
      PROVE  Resolves(q, Handle(i, g)) /\ Object(q, Handle(i, g)) = Object(r, Handle(i, g))
  BY <1>1, <1>3, <1>4, <1>5 DEF Resolves, Object
<1>6. ASSUME Retired(r, Handle(i, g))
      PROVE  Retired(q, Handle(i, g)) /\ ~ Resolves(q, Handle(i, g))
  BY <1>1, <1>2, <1>3, <1>4, <1>6 DEF Resolves, Retired
<1> QED
  BY <1>5, <1>6 DEF q

(* free() retires the handle, and that handle only.                        *)
THEOREM FreeRetires ==
  ASSUME NEW Obj, NEW r, WellFormed(r, Obj),
         NEW i \in Nat, NEW g \in Nat, Resolves(r, Handle(i, g)),
         NEW j \in Nat, NEW f \in Nat
  PROVE  /\ Retired(Free(r, Handle(i, g)), Handle(i, g))
         /\ ~ Resolves(Free(r, Handle(i, g)), Handle(i, g))
         /\ Retired(r, Handle(j, f)) => Retired(Free(r, Handle(i, g)), Handle(j, f))
         /\ Resolves(r, Handle(j, f)) /\ Handle(j, f) # Handle(i, g) =>
              /\ Resolves(Free(r, Handle(i, g)), Handle(j, f))
              /\ Object(Free(r, Handle(i, g)), Handle(j, f)) = Object(r, Handle(j, f))
<1>1. i \in 1 .. Len(r.slots) /\ r.slots[i].generation = g
  BY DEF Resolves, Handle, WellFormed
<1>2. Free(r, Handle(i, g)).slots = [r.slots EXCEPT ![i].alive = FALSE, ![i].obj = NoObject]
  BY DEF Free, Handle
<1>3. r.slots[i] \in Slot(Obj) /\ r.slots \in Seq(Slot(Obj))
  BY <1>1 DEF WellFormed
<1>4. \A k \in 1 .. Len(r.slots) :
        /\ Free(r, Handle(i, g)).slots[k].generation = r.slots[k].generation
        /\ k # i => Free(r, Handle(i, g)).slots[k] = r.slots[k]
        /\ k = i => Free(r, Handle(i, g)).slots[k].alive = FALSE
  BY <1>2, <1>3 DEF Slot
<1>5. Len(Free(r, Handle(i, g)).slots) = Len(r.slots)
      /\ DOMAIN Free(r, Handle(i, g)).slots = DOMAIN r.slots
      /\ DOMAIN r.slots = 1 .. Len(r.slots)
  BY <1>2, <1>3
<1> QED
  BY <1>1, <1>4, <1>5 DEF Resolves, Retired, Object, Handle

(* Both operations, from the empty registry on, keep it well formed.       *)
THEOREM StaysWellFormed ==
  ASSUME NEW Obj, NEW r, WellFormed(r, Obj), NEW obj \in Obj, NEW i \in Nat, NEW g \in Nat
  PROVE  /\ WellFormed(EmptyRegistry, Obj)
         /\ WellFormed(Alloc(r, obj), Obj)
         /\ WellFormed(Free(r, Handle(i, g)), Obj)
<1>1. WellFormed(EmptyRegistry, Obj)
  BY DEF WellFormed, EmptyRegistry, Slot
<1>2. WellFormed(Alloc(r, obj), Obj)
  <2> DEFINE q == Alloc(r, obj)
             h == NextHandle(r)
             n == Len(r.freelist)
             new == [obj |-> obj, generation |-> h.generation, alive |-> TRUE]
  <2>1. /\ new \in Slot(Obj) /\ new.alive = TRUE
        /\ h.index \in 1 .. Len(q.slots) /\ q.slots[h.index] = new
        /\ 1 .. Len(r.slots) \subseteq 1 .. Len(q.slots)
        /\ \A k \in 1 .. Len(q.slots) :
             k # h.index => k \in 1 .. Len(r.slots) /\ q.slots[k] = r.slots[k]
    BY SlotsOfAlloc
  <2>2. CASE r.freelist = <<>>
    <3>1. q = [slots |-> Append(r.slots, new), freelist |-> <<>>]
      BY <2>2, SlotsOfAlloc
    <3>2. \A k \in 1 .. Len(r.slots) : r.slots[k].alive
      BY <2>2 DEF WellFormed
    <3> HIDE DEF q, h, new
    <3>3. q.slots = Append(r.slots, new) /\ q.freelist = <<>>
      BY <3>1
    <3>4. q \in [slots : Seq(Slot(Obj)), freelist : Seq(Nat)] /\ Len(q.freelist) = 0
      BY <2>1, <3>1, <3>3, Parts
    <3>5. \A k \in 1 .. Len(q.slots) : q.slots[k].alive
      BY <2>1, <3>2
    <3> QED
      BY <3>4, <3>5 DEF WellFormed, q
  <2>3. CASE r.freelist # <<>>
    <3>1. q = [slots |-> [r.slots EXCEPT ![h.index] = new],
               freelist |-> SubSeq(r.freelist, 1, n - 1)]
      BY <2>3, SlotsOfAlloc
    <3>2. /\ h.index = r.freelist[n] /\ h.index \in 1 .. Len(r.slots)
          /\ n \in Nat \ {0} /\ n \in 1 .. n
          /\ r.freelist \in Seq(Nat) /\ r.slots \in Seq(Slot(Obj))
      BY <2>3, NextIndex, Parts
    <3> HIDE DEF q, h, new, n
    <3>3. q.slots = [r.slots EXCEPT ![h.index] = new] /\ q.freelist = SubSeq(r.freelist, 1, n - 1)
      BY <3>1
    <3>4. /\ q.freelist \in Seq(Nat) /\ Len(q.freelist) = n - 1
          /\ \A k \in 1 .. n - 1 : q.freelist[k] = r.freelist[k]
      <4>1. n = Len(r.freelist) /\ n - 1 \in Nat
        BY <3>2 DEF n
      <4> HIDE DEF n
      <4>2. n - 1 <= Len(r.freelist)
        BY <4>1
      <4>3. QED
        BY <3>2, <3>3, <4>1, <4>2, FrontOfList
    <3>5. q \in [slots : Seq(Slot(Obj)), freelist : Seq(Nat)]
      BY <2>1, <3>1, <3>2, <3>3, <3>4
    <3>6. \A k \in 1 .. n - 1 : k \in 1 .. n /\ k # n
      BY <3>2
    <3>7. \A k, l \in 1 .. n : r.freelist[k] = r.freelist[l] => k = l
      BY DEF WellFormed, n
    <3>8. \A k \in 1 .. n : r.freelist[k] \in 1 .. Len(r.slots) /\ ~ r.slots[r.freelist[k]].alive
      BY DEF WellFormed, n
    <3>9. \A k \in 1 .. n - 1 : q.freelist[k] \in 1 .. Len(q.slots) /\ ~ q.slots[q.freelist[k]].alive
      <4> SUFFICES ASSUME NEW k \in 1 .. n - 1
                   PROVE  q.freelist[k] \in 1 .. Len(q.slots) /\ ~ q.slots[q.freelist[k]].alive
        OBVIOUS
      <4>1. q.freelist[k] = r.freelist[k] /\ r.freelist[k] # h.index
        BY <3>2, <3>4, <3>6, <3>7
      <4>2. r.freelist[k] \in 1 .. Len(r.slots) /\ ~ r.slots[r.freelist[k]].alive
        BY <3>6, <3>8
      <4> QED
        BY <2>1, <4>1, <4>2
    <3>10. \A k, l \in 1 .. n - 1 : q.freelist[k] = q.freelist[l] => k = l
      BY <3>4, <3>6, <3>7
    <3>11. ASSUME NEW k \in 1 .. Len(q.slots), ~ q.slots[k].alive
           PROVE  \E l \in 1 .. n - 1 : q.freelist[l] = k
      <4>1. k # h.index
        BY <2>1, <3>11
      <4>2. k \in 1 .. Len(r.slots) /\ ~ r.slots[k].alive
        BY <2>1, <3>11, <4>1
      <4>3. PICK l \in 1 .. n : r.freelist[l] = k
        BY <4>2 DEF WellFormed, n
      <4>4. l \in 1 .. n - 1
        BY <3>2, <4>1, <4>3
      <4> QED
        BY <3>4, <4>3, <4>4
    <3> QED
      BY <3>4, <3>5, <3>9, <3>10, <3>11 DEF WellFormed, q
  <2> QED
    BY <2>2, <2>3
<1>3. WellFormed(Free(r, Handle(i, g)), Obj)
  <2>1. CASE ~ Resolves(r, Handle(i, g))
    BY <2>1 DEF Free
  <2>2. CASE Resolves(r, Handle(i, g))
    <3> DEFINE q == Free(r, Handle(i, g))
               n == Len(r.freelist)
               old == [r.slots[i] EXCEPT !.alive = FALSE, !.obj = NoObject]
    <3>1. /\ i \in 1 .. Len(r.slots) /\ r.slots[i].alive
          /\ r.slots[i] \in Slot(Obj) /\ n \in Nat
          /\ r.slots \in Seq(Slot(Obj)) /\ r.freelist \in Seq(Nat)
      BY <2>2, Parts DEF Resolves, Handle
    <3>2. q = [slots |-> [r.slots EXCEPT ![i].alive = FALSE, ![i].obj = NoObject],
               freelist |-> Append(r.freelist, i)]
      BY <2>2 DEF Free, Handle
    <3>3. old \in Slot(Obj) /\ ~ old.alive
      BY <3>1 DEF Slot
    <3> HIDE DEF q, n
    <3>4. q.slots = [r.slots EXCEPT ![i] = old]
      <4>1. q.slots = [r.slots EXCEPT ![i].alive = FALSE, ![i].obj = NoObject]
        BY <3>2
      <4> QED
        BY <3>1, <4>1 DEF Slot
    <3> HIDE DEF old
    <3>5. /\ q.slots \in Seq(Slot(Obj)) /\ Len(q.slots) = Len(r.slots)
          /\ ~ q.slots[i].alive
          /\ \A k \in 1 .. Len(r.slots) : k # i => q.slots[k] = r.slots[k]
      BY <3>1, <3>3, <3>4
    <3>6. q.freelist = Append(r.freelist, i)
      BY <3>2
    <3>7. /\ q.freelist \in Seq(Nat) /\ Len(q.freelist) = n + 1 /\ q.freelist[n + 1] = i
          /\ \A k \in 1 .. n : q.freelist[k] = r.freelist[k]
      BY <3>1, <3>6 DEF n
    <3>8. q \in [slots : Seq(Slot(Obj)), freelist : Seq(Nat)]
      BY <3>2, <3>5, <3>7
    <3>9. \A k \in 1 .. n : r.freelist[k] \in 1 .. Len(r.slots) /\ ~ r.slots[r.freelist[k]].alive
      BY DEF WellFormed, n
    <3>10. \A k \in 1 .. n : r.freelist[k] # i
      BY <3>1, <3>9
    <3>11. \A k \in 1 .. n + 1 : k \in 1 .. n \/ k = n + 1
      BY <3>1
    <3>12. \A k \in 1 .. n + 1 : q.freelist[k] \in 1 .. Len(q.slots) /\ ~ q.slots[q.freelist[k]].alive
      <4> SUFFICES ASSUME NEW k \in 1 .. n + 1
                   PROVE  q.freelist[k] \in 1 .. Len(q.slots) /\ ~ q.slots[q.freelist[k]].alive
        OBVIOUS
      <4>1. CASE k = n + 1
        BY <3>1, <3>5, <3>7, <4>1
      <4>2. CASE k \in 1 .. n
        BY <3>5, <3>7, <3>9, <3>10, <4>2
      <4> QED
        BY <3>11, <4>1, <4>2
    <3>13. \A k, l \in 1 .. n : r.freelist[k] = r.freelist[l] => k = l
      BY DEF WellFormed, n
    <3>14. \A k, l \in 1 .. n + 1 : q.freelist[k] = q.freelist[l] => k = l
      BY <3>7, <3>10, <3>11, <3>13
    <3>15. ASSUME NEW k \in 1 .. Len(q.slots), ~ q.slots[k].alive
           PROVE  \E l \in 1 .. n + 1 : q.freelist[l] = k
      <4>1. CASE k = i
        BY <3>1, <3>7, <4>1
      <4>2. CASE k # i
        <5>1. k \in 1 .. Len(r.slots) /\ ~ r.slots[k].alive
          BY <3>5, <3>15, <4>2
        <5>2. PICK l \in 1 .. n : r.freelist[l] = k
          BY <5>1 DEF WellFormed, n
        <5> QED
          <6>1. l \in 1 .. n + 1
            BY <3>1
          <6> QED
            BY <3>7, <5>2, <6>1
      <4> QED
        BY <4>1, <4>2
    <3> QED
      BY <3>7, <3>8, <3>12, <3>14, <3>15 DEF WellFormed, q
  <2> QED
    BY <2>1, <2>2
<1> QED
  BY <1>1, <1>2, <1>3

-----------------------------------------------------------------------------
(* Views and the resources they hang on.                                   *)
Objects == Slots \cup {NoSlot}
Nodes == [resource : Handles, previous : Objects, next : Objects]

RegistryFits(r) ==
  /\ WellFormed(r, Objects) /\ Len(r.slots) <= MaxResources
  /\ \A i \in 1 .. Len(r.slots) :
       /\ r.slots[i].generation \in 1 .. MaxGeneration
       /\ r.slots[i].obj \in IF r.slots[i].alive THEN Objects ELSE {NoObject}

(* The list of resource i is q[1], ..., q[n]. *)
AsListed(v, i, n, q) ==
  /\ \A k, l \in 1 .. n : q[k] = q[l] => k = l
  /\ \A s \in Slots : v.slot[s].resource.index = i <=> \E k \in 1 .. n : q[k] = s
  /\ v.resources.slots[i].obj = IF n = 0 THEN NoSlot ELSE q[1]
  /\ \A k \in 1 .. n :
       /\ v.slot[q[k]].previous = IF k = 1 THEN NoSlot ELSE q[k - 1]
       /\ v.slot[q[k]].next = IF k = n THEN NoSlot ELSE q[k + 1]

Listed(v, i) ==
  \E n \in 0 .. Cardinality(Slots) : \E q \in [1 .. n -> Slots] : AsListed(v, i, n, q)

ViewsFit(v) ==
  /\ RegistryFits(v.resources)
  /\ v.slot \in [Slots -> Nodes]
  /\ \A i \in 1 .. Len(v.resources.slots) : v.resources.slots[i].alive => Listed(v, i)
  /\ \A s \in Slots : v.slot[s].resource # NoResource => Resolves(v.resources, v.slot[s].resource)

(* Two registries that give the same handles to the same objects. *)
SameHandles(r, q) ==
  /\ Len(q.slots) = Len(r.slots)
  /\ \A i \in 1 .. Len(r.slots) :
       q.slots[i].generation = r.slots[i].generation /\ q.slots[i].alive = r.slots[i].alive

(* What the constants are, for the provers. *)
LEMMA Assumed ==
  /\ HeapOf \in [Slots -> Heaps] /\ NoSlot \notin Slots /\ NoSampler \notin Descriptions
  /\ IsFiniteSet(Slots) /\ IsFiniteSet(SamplerSlots) /\ IsFiniteSet(Descriptions)
  /\ Cardinality(Slots) \in Nat /\ Cardinality(SamplerSlots) \in Nat
  /\ SamplerBudget \in Nat /\ MaxResources \in Nat /\ MaxGeneration \in Nat
  BY DescriptorsAssumption, FS_CardinalityType

(* The handles that two such registries resolve are the same. *)
LEMMA SameResolves ==
  ASSUME NEW r, NEW q, RegistryFits(r), RegistryFits(q), SameHandles(r, q), NEW h
  PROVE  Resolves(q, h) <=> Resolves(r, h)
  <1>1. DOMAIN r.slots = 1 .. Len(r.slots) /\ DOMAIN q.slots = 1 .. Len(q.slots)
    BY Parts DEF RegistryFits
  <1>2. QED
    BY <1>1 DEF SameHandles, Resolves

(* A resource gets another first view. *)
LEMMA FirstViewSet ==
  ASSUME NEW r, RegistryFits(r), NEW i \in 1 .. Len(r.slots), r.slots[i].alive,
         NEW o \in Objects, NEW q, q = [r EXCEPT !.slots[i].obj = o]
  PROVE  /\ RegistryFits(q) /\ SameHandles(r, q)
         /\ q.slots[i].obj = o
         /\ \A k \in 1 .. Len(r.slots) : k # i => q.slots[k].obj = r.slots[k].obj
  <1>1. /\ WellFormed(r, Objects)
        /\ r \in [slots : Seq(Slot(Objects)), freelist : Seq(Nat)]
        /\ r.slots \in Seq(Slot(Objects)) /\ Len(r.slots) \in Nat
    BY DEF RegistryFits, WellFormed
  <1>2. /\ \A k \in 1 .. Len(r.slots) : r.slots[k] \in Slot(Objects)
        /\ r.slots \in [1 .. Len(r.slots) -> Slot(Objects)]
    BY <1>1
  <1>3. q = [r EXCEPT !.slots = [r.slots EXCEPT ![i] = [r.slots[i] EXCEPT !.obj = o]]]
    BY <1>1
  <1>4. q = [slots |-> [r.slots EXCEPT ![i] = [r.slots[i] EXCEPT !.obj = o]],
             freelist |-> r.freelist]
    BY <1>1, <1>3
  <1>5. [r.slots[i] EXCEPT !.obj = o] \in Slot(Objects)
    BY <1>2 DEF Slot
  <1>6. /\ q.slots \in [1 .. Len(r.slots) -> Slot(Objects)]
        /\ q.freelist = r.freelist
        /\ q.slots[i] = [r.slots[i] EXCEPT !.obj = o]
        /\ \A k \in 1 .. Len(r.slots) : k # i => q.slots[k] = r.slots[k]
    BY <1>2, <1>4, <1>5
  <1>7. q.slots \in Seq(Slot(Objects)) /\ Len(q.slots) = Len(r.slots)
    BY <1>1, <1>6
  <1>8. /\ q.slots[i].obj = o /\ q.slots[i].alive = r.slots[i].alive
        /\ q.slots[i].generation = r.slots[i].generation
    <2>1. r.slots[i] \in [obj : Objects \cup {NoObject}, generation : Nat \ {0}, alive : BOOLEAN]
      BY <1>2 DEF Slot
    <2>2. \A x \in [obj : Objects \cup {NoObject}, generation : Nat \ {0}, alive : BOOLEAN] :
            LET y == [x EXCEPT !.obj = o]
            IN y.obj = o /\ y.alive = x.alive /\ y.generation = x.generation
      OBVIOUS
    <2>3. QED
      BY <1>6, <2>1, <2>2
  <1>9. SameHandles(r, q)
    BY <1>6, <1>7, <1>8 DEF SameHandles
  <1>10. q \in [slots : Seq(Slot(Objects)), freelist : Seq(Nat)]
    BY <1>1, <1>4, <1>7
  <1>11. WellFormed(q, Objects)
    BY <1>1, <1>6, <1>7, <1>9, <1>10 DEF WellFormed, SameHandles
  <1>12. \A k \in 1 .. Len(q.slots) :
           /\ q.slots[k].generation \in 1 .. MaxGeneration
           /\ q.slots[k].obj \in IF q.slots[k].alive THEN Objects ELSE {NoObject}
    BY <1>6, <1>7, <1>8 DEF RegistryFits
  <1>13. RegistryFits(q)
    BY <1>7, <1>11, <1>12 DEF RegistryFits
  <1>14. QED
    BY <1>6, <1>8, <1>9, <1>13

(* The slots after a reset, one by one. *)
LEMMA SlotsOfReset ==
  ASSUME NEW v, v.slot \in [Slots -> Nodes], NEW s \in Slots
  PROVE  LET w == Reset(v, s)
             d == v.slot[s]
         IN /\ w.slot \in [Slots -> Nodes]
            /\ w.slot[s] = EmptySlot
            /\ \A t \in Slots : t # s =>
                 /\ w.slot[t].resource = v.slot[t].resource
                 /\ w.slot[t].next = IF d.resource # NoResource /\ t = d.previous
                                     THEN d.next ELSE v.slot[t].next
                 /\ w.slot[t].previous = IF d.resource # NoResource /\ t = d.next
                                         THEN d.previous ELSE v.slot[t].previous
            /\ w.resources = IF d.resource # NoResource /\ d.previous = NoSlot
                             THEN [v.resources EXCEPT !.slots[d.resource.index].obj = d.next]
                             ELSE v.resources
  <1> DEFINE w == Reset(v, s)
             d == v.slot[s]
             on == d.resource # NoResource
             E(t) == [v.slot[t] EXCEPT !.next = IF on /\ t = d.previous THEN d.next ELSE @,
                                       !.previous = IF on /\ t = d.next THEN d.previous ELSE @]
  <1>1. /\ w.slot = [t \in Slots |-> IF t = s THEN EmptySlot ELSE E(t)]
        /\ w.resources = IF on /\ d.previous = NoSlot
                         THEN [v.resources EXCEPT !.slots[d.resource.index].obj = d.next]
                         ELSE v.resources
    BY DEF Reset
  <1>2. d \in Nodes /\ d.next \in Objects /\ d.previous \in Objects
    BY DEF Nodes
  <1>3. EmptySlot \in Nodes
    BY Assumed DEF EmptySlot, Nodes, NoResource, Handle, Handles, Objects
  <1>4. \A t \in Slots :
          /\ E(t) \in Nodes /\ E(t).resource = v.slot[t].resource
          /\ E(t).next = IF on /\ t = d.previous THEN d.next ELSE v.slot[t].next
          /\ E(t).previous = IF on /\ t = d.next THEN d.previous ELSE v.slot[t].previous
    <2>1. TAKE t \in Slots
    <2>2. v.slot[t] \in Nodes
      OBVIOUS
    <2> HIDE DEF on, d
    <2>3. QED
      BY <1>2, <2>2 DEF Nodes
  <1> HIDE DEF E, w
  <1>5. w.slot \in [Slots -> Nodes]
    <2>1. \A t \in Slots : (IF t = s THEN EmptySlot ELSE E(t)) \in Nodes
      BY <1>3, <1>4
    <2>2. [t \in Slots |-> IF t = s THEN EmptySlot ELSE E(t)] \in [Slots -> Nodes]
      BY <2>1
    <2>3. QED
      BY <1>1, <2>2
  <1>6. w.slot[s] = EmptySlot /\ \A t \in Slots : t # s => w.slot[t] = E(t)
    BY <1>1
  <1>7. QED
    BY <1>1, <1>4, <1>5, <1>6 DEF w

(* A reset takes its slot out of the list it is on, and changes no other   *)
(* view.                                                                   *)
LEMMA ResetFits ==
  ASSUME NEW v, ViewsFit(v), NEW s \in Slots
  PROVE  /\ ViewsFit(Reset(v, s))
         /\ SameHandles(v.resources, Reset(v, s).resources)
         /\ Reset(v, s).slot[s].resource = NoResource
         /\ \A t \in Slots : t # s => Reset(v, s).slot[t].resource = v.slot[t].resource
  <1> DEFINE w == Reset(v, s)
             d == v.slot[s]
             r == v.resources
             N == Cardinality(Slots)
  <1>1. /\ w.slot \in [Slots -> Nodes] /\ w.slot[s] = EmptySlot
        /\ \A t \in Slots : t # s =>
             /\ w.slot[t].resource = v.slot[t].resource
             /\ w.slot[t].next = IF d.resource # NoResource /\ t = d.previous
                                 THEN d.next ELSE v.slot[t].next
             /\ w.slot[t].previous = IF d.resource # NoResource /\ t = d.next
                                     THEN d.previous ELSE v.slot[t].previous
        /\ w.resources = IF d.resource # NoResource /\ d.previous = NoSlot
                         THEN [r EXCEPT !.slots[d.resource.index].obj = d.next] ELSE r
    <2>1. v.slot \in [Slots -> Nodes]
      BY DEF ViewsFit
    <2>2. QED
      BY <2>1, SlotsOfReset, ZenonT(60)
  <1>2. /\ RegistryFits(r) /\ v.slot \in [Slots -> Nodes]
        /\ \A i \in 1 .. Len(r.slots) : r.slots[i].alive => Listed(v, i)
        /\ \A t \in Slots : v.slot[t].resource # NoResource => Resolves(r, v.slot[t].resource)
        /\ DOMAIN r.slots = 1 .. Len(r.slots) /\ Len(r.slots) \in Nat
    BY Parts DEF ViewsFit, RegistryFits
  <1> HIDE DEF w
  <1>3. w.slot[s].resource = NoResource /\ NoResource.index = 0
    <2>1. w.slot[s] = EmptySlot
      BY <1>1
    <2>2. EmptySlot.resource = NoResource
      BY DEF EmptySlot
    <2>3. NoResource.index = 0
      BY DEF NoResource, Handle
    <2>4. QED
      BY <2>1, <2>2, <2>3
  <1>4. NoSlot \notin Slots /\ N \in Nat
    BY Assumed
  <1>5. CASE d.resource = NoResource
    <2>1. /\ w.resources = r
          /\ \A t \in Slots : w.slot[t].resource = v.slot[t].resource
          /\ \A t \in Slots : t # s =>
               w.slot[t].next = v.slot[t].next /\ w.slot[t].previous = v.slot[t].previous
      BY <1>1, <1>3, <1>5
    <2>2. ASSUME NEW i \in 1 .. Len(r.slots), r.slots[i].alive PROVE Listed(w, i)
      <3>1. PICK n \in 0 .. N : \E q \in [1 .. n -> Slots] : AsListed(v, i, n, q)
        BY <1>2, <2>2 DEF Listed
      <3>2. PICK q \in [1 .. n -> Slots] : AsListed(v, i, n, q)
        BY <3>1
      <3>3. \A k \in 1 .. n : q[k] \in Slots /\ q[k] # s
        BY <1>3, <1>5, <3>2 DEF AsListed
      <3>4. AsListed(w, i, n, q)
        BY <2>1, <3>2, <3>3 DEF AsListed
      <3>5. QED
        BY <3>1, <3>4 DEF Listed
    <2>3. SameHandles(r, w.resources)
      BY <2>1 DEF SameHandles
    <2>4. ViewsFit(w)
      BY <1>1, <1>2, <2>1, <2>2 DEF ViewsFit
    <2>5. QED
      BY <1>1, <1>3, <2>3, <2>4 DEF w
  <1>6. CASE d.resource # NoResource
    <2> DEFINE j == d.resource.index
    <2>1. Resolves(r, d.resource) /\ j \in 1 .. Len(r.slots) /\ r.slots[j].alive
      BY <1>2, <1>6 DEF Resolves
    <2>2. PICK n \in 0 .. N : \E q \in [1 .. n -> Slots] : AsListed(v, j, n, q)
      BY <1>2, <2>1 DEF Listed
    <2>3. PICK q \in [1 .. n -> Slots] : AsListed(v, j, n, q)
      BY <2>2
    <2>4. PICK k \in 1 .. n : q[k] = s
      BY <2>3 DEF AsListed
    <2>5. /\ d.previous = IF k = 1 THEN NoSlot ELSE q[k - 1]
          /\ d.next = IF k = n THEN NoSlot ELSE q[k + 1]
      BY <2>3, <2>4 DEF AsListed
    <2>6. /\ n \in Nat /\ k \in Nat /\ 1 <= k /\ k <= n
          /\ d.next \in Objects
      BY <1>2, <1>4 DEF Nodes
    <2>7. d.previous = NoSlot <=> k = 1
      BY <1>4, <2>5, <2>6
    <2>8. /\ RegistryFits(w.resources) /\ SameHandles(r, w.resources)
          /\ \A i \in 1 .. Len(r.slots) :
               w.resources.slots[i].obj = IF i = j /\ k = 1 THEN d.next ELSE r.slots[i].obj
      <3>1. CASE k = 1
        <4>1. w.resources = [r EXCEPT !.slots[j].obj = d.next]
          BY <1>1, <1>6, <2>7, <3>1
        <4>2. /\ RegistryFits(w.resources) /\ SameHandles(r, w.resources)
              /\ w.resources.slots[j].obj = d.next
              /\ \A i \in 1 .. Len(r.slots) : i # j => w.resources.slots[i].obj = r.slots[i].obj
          <5>1. d.next \in Objects
            BY <2>6
          <5> HIDE DEF d, j, r
          <5>2. QED
            <6>1. RegistryFits(r) /\ j \in 1 .. Len(r.slots) /\ r.slots[j].alive
              BY <1>2, <2>1
            <6>2. QED
              BY <4>1, <5>1, <6>1, FirstViewSet
        <4>3. QED
          BY <3>1, <4>2
      <3>2. CASE k # 1
        <4>1. w.resources = r
          BY <1>1, <2>7, <3>2
        <4>2. QED
          BY <1>2, <3>2, <4>1 DEF SameHandles
      <3>3. QED
        BY <3>1, <3>2
    <2>9. ASSUME NEW i \in 1 .. Len(r.slots), r.slots[i].alive, i # j PROVE Listed(w, i)
      <3>1. PICK m \in 0 .. N : \E p \in [1 .. m -> Slots] : AsListed(v, i, m, p)
        BY <1>2, <2>9 DEF Listed
      <3>2. PICK p \in [1 .. m -> Slots] : AsListed(v, i, m, p)
        BY <3>1
      <3>3. \A l \in 1 .. n : v.slot[q[l]].resource.index = j
        BY <2>3 DEF AsListed
      <3>4. \A l \in 1 .. m : v.slot[p[l]].resource.index = i
        BY <3>2 DEF AsListed
      <3>5. \A l \in 1 .. m : p[l] \in Slots /\ p[l] # s /\ p[l] # d.previous /\ p[l] # d.next
        <4>1. SUFFICES ASSUME NEW l \in 1 .. m
                       PROVE  p[l] \in Slots /\ p[l] # s /\ p[l] # d.previous /\ p[l] # d.next
          OBVIOUS
        <4>2. p[l] \in Slots /\ p[l] # NoSlot /\ \A x \in 1 .. n : p[l] # q[x]
          BY <1>4, <2>9, <3>3, <3>4
        <4>3. QED
          BY <2>4, <2>5, <2>6, <4>2
      <3>6. /\ \A t \in Slots : w.slot[t].resource.index = i <=> v.slot[t].resource.index = i
            /\ w.resources.slots[i].obj = r.slots[i].obj
        <4>1. w.resources.slots[i].obj = r.slots[i].obj
          BY <2>8, <2>9
        <4>2. w.slot[s].resource.index # i /\ d.resource.index # i
          BY <1>3, <2>9
        <4>3. QED
          BY <1>1, <4>1, <4>2
      <3>7. \A l \in 1 .. m : /\ w.slot[p[l]].next = v.slot[p[l]].next
                              /\ w.slot[p[l]].previous = v.slot[p[l]].previous
        BY <1>1, <3>5
      <3>8. AsListed(w, i, m, p)
        BY <3>2, <3>6, <3>7 DEF AsListed
      <3>9. QED
        BY <3>1, <3>8 DEF Listed
    <2>10. Listed(w, j)
      <3> DEFINE p == [l \in 1 .. n - 1 |-> IF l < k THEN q[l] ELSE q[l + 1]]
      <3>1. n - 1 \in 0 .. N /\ p \in [1 .. n - 1 -> Slots]
        BY <1>4, <2>2, <2>6
      <3>2. \A l \in 1 .. n - 1 : p[l] = IF l < k THEN q[l] ELSE q[l + 1]
        OBVIOUS
      <3> HIDE DEF p
      <3>3. \A x, y \in 1 .. n : q[x] = q[y] => x = y
        BY <2>3 DEF AsListed
      <3>4. \A x, y \in 1 .. n - 1 : p[x] = p[y] => x = y
        BY <2>6, <3>2, <3>3
      <3>5. \A l \in 1 .. n - 1 : p[l] # s
        BY <2>4, <2>6, <3>2, <3>3
      <3>6. ASSUME NEW t \in Slots
            PROVE  w.slot[t].resource.index = j <=> \E l \in 1 .. n - 1 : p[l] = t
        <4>1. CASE t = s
          BY <1>3, <2>1, <3>5, <4>1
        <4>2. CASE t # s
          <5>1. w.slot[t].resource.index = j <=> \E l \in 1 .. n : q[l] = t
            BY <1>1, <2>3, <4>2 DEF AsListed
          <5>2. ASSUME NEW l \in 1 .. n, q[l] = t PROVE \E x \in 1 .. n - 1 : p[x] = t
            <6>1. l # k
              BY <2>4, <4>2, <5>2
            <6>2. CASE l < k
              BY <2>6, <3>2, <5>2, <6>2
            <6>3. CASE l > k
              <7>1. l - 1 \in 1 .. n - 1 /\ ~ (l - 1 < k) /\ l - 1 + 1 = l
                BY <2>6, <6>3
              <7>2. p[l - 1] = q[l]
                BY <3>2, <7>1
              <7>3. QED
                BY <5>2, <7>1, <7>2
            <6>4. QED
              BY <2>6, <6>1, <6>2, <6>3
          <5>3. ASSUME NEW l \in 1 .. n - 1, p[l] = t PROVE \E x \in 1 .. n : q[x] = t
            BY <2>6, <3>2, <5>3
          <5>4. QED
            BY <5>1, <5>2, <5>3
        <4>3. QED
          BY <4>1, <4>2
      <3>7. w.resources.slots[j].obj = IF n - 1 = 0 THEN NoSlot ELSE p[1]
        <4>1. r.slots[j].obj = q[1]
          BY <2>3, <2>6 DEF AsListed
        <4>2. w.resources.slots[j].obj = IF k = 1 THEN d.next ELSE q[1]
          BY <2>1, <2>8, <4>1
        <4>3. CASE k = 1
          BY <2>5, <2>6, <3>2, <4>2, <4>3
        <4>4. CASE k # 1
          BY <2>6, <3>2, <4>2, <4>4
        <4>5. QED
          BY <4>3, <4>4
      <3>8. ASSUME NEW l \in 1 .. n - 1
            PROVE  /\ w.slot[p[l]].previous = IF l = 1 THEN NoSlot ELSE p[l - 1]
                   /\ w.slot[p[l]].next = IF l = n - 1 THEN NoSlot ELSE p[l + 1]
        <4> DEFINE x == IF l < k THEN l ELSE l + 1
        <4>1. x \in 1 .. n /\ p[l] = q[x] /\ p[l] \in Slots /\ p[l] # s
          BY <2>6, <3>1, <3>2, <3>5
        <4>2. /\ v.slot[p[l]].previous = IF x = 1 THEN NoSlot ELSE q[x - 1]
              /\ v.slot[p[l]].next = IF x = n THEN NoSlot ELSE q[x + 1]
          <5>1. \A y \in 1 .. n :
                  /\ v.slot[q[y]].previous = IF y = 1 THEN NoSlot ELSE q[y - 1]
                  /\ v.slot[q[y]].next = IF y = n THEN NoSlot ELSE q[y + 1]
            BY <2>3 DEF AsListed
          <5> HIDE DEF x
          <5>2. QED
            BY <4>1, <5>1
        <4>3. /\ w.slot[p[l]].next = IF p[l] = d.previous THEN d.next ELSE v.slot[p[l]].next
              /\ w.slot[p[l]].previous = IF p[l] = d.next THEN d.previous ELSE v.slot[p[l]].previous
          BY <1>1, <1>6, <4>1
        <4>4. p[l] = d.previous <=> x = k - 1
          BY <1>4, <2>5, <2>6, <3>3, <4>1
        <4>5. p[l] = d.next <=> x = k + 1
          BY <1>4, <2>5, <2>6, <3>3, <4>1
        <4>6. w.slot[p[l]].next = IF l = n - 1 THEN NoSlot ELSE p[l + 1]
          BY <2>5, <2>6, <3>2, <4>2, <4>3, <4>4
        <4>7. w.slot[p[l]].previous = IF l = 1 THEN NoSlot ELSE p[l - 1]
          BY <2>5, <2>6, <3>2, <4>2, <4>3, <4>5
        <4>8. QED
          BY <4>6, <4>7
      <3>9. AsListed(w, j, n - 1, p)
        BY <3>4, <3>6, <3>7, <3>8 DEF AsListed
      <3>10. QED
        BY <3>1, <3>9 DEF Listed
    <2>11. \A i \in 1 .. Len(w.resources.slots) : w.resources.slots[i].alive => Listed(w, i)
      BY <2>8, <2>9, <2>10 DEF SameHandles
    <2>12. \A t \in Slots : w.slot[t].resource # NoResource => Resolves(w.resources, w.slot[t].resource)
      <3>1. SUFFICES ASSUME NEW t \in Slots, w.slot[t].resource # NoResource
                     PROVE  Resolves(w.resources, w.slot[t].resource)
        OBVIOUS
      <3>2. w.slot[t].resource = v.slot[t].resource /\ Resolves(r, v.slot[t].resource)
        BY <1>1, <1>2, <1>3, <3>1
      <3>3. QED
        BY <1>2, <2>8, <3>2, SameResolves
    <2>13. ViewsFit(w)
      BY <1>1, <2>8, <2>11, <2>12 DEF ViewsFit
    <2>14. QED
      BY <1>1, <1>3, <2>8, <2>13 DEF w
  <1>7. QED
    BY <1>5, <1>6

(* A view is put first on its resource's list. *)
LEMMA LinkFits ==
  ASSUME NEW v, ViewsFit(v), NEW s \in Slots, v.slot[s].resource = NoResource,
         NEW h \in Handles, Resolves(v.resources, h)
  PROVE  /\ ViewsFit(Link(v, s, h))
         /\ SameHandles(v.resources, Link(v, s, h).resources)
         /\ Link(v, s, h).slot[s].resource = h
         /\ \A t \in Slots : t # s => Link(v, s, h).slot[t].resource = v.slot[t].resource
  <1> DEFINE w == Link(v, s, h)
             r == v.resources
             j == h.index
             N == Cardinality(Slots)
  <1>1. /\ RegistryFits(r) /\ v.slot \in [Slots -> Nodes]
        /\ \A i \in 1 .. Len(r.slots) : r.slots[i].alive => Listed(v, i)
        /\ \A t \in Slots : v.slot[t].resource # NoResource => Resolves(r, v.slot[t].resource)
        /\ DOMAIN r.slots = 1 .. Len(r.slots) /\ Len(r.slots) \in Nat
    BY Parts DEF ViewsFit, RegistryFits
  <1>2. j \in 1 .. Len(r.slots) /\ r.slots[j].alive /\ j # 0 /\ NoResource.index = 0
    <2>1. Resolves(r, h)
      OBVIOUS
    <2> HIDE DEF w, r
    <2>2. j \in DOMAIN r.slots /\ r.slots[j].alive
      BY <2>1 DEF Resolves
    <2>3. j \in 1 .. Len(r.slots)
      BY <1>1, <2>2
    <2>4. NoResource.index = 0
      BY DEF NoResource, Handle
    <2> HIDE DEF j
    <2>5. QED
      BY <2>2, <2>3, <2>4
  <1>3. NoSlot \notin Slots /\ N \in Nat /\ IsFiniteSet(Slots)
    BY Assumed
  <1>4. PICK n \in 0 .. N : \E q \in [1 .. n -> Slots] : AsListed(v, j, n, q)
    BY <1>1, <1>2 DEF Listed
  <1>5. PICK q \in [1 .. n -> Slots] : AsListed(v, j, n, q)
    BY <1>4
  <1> DEFINE first == Object(r, h)
  <1>6. first = (IF n = 0 THEN NoSlot ELSE q[1]) /\ first \in Objects /\ n \in Nat
    BY <1>5 DEF AsListed, Object, Objects
  <1>7. \A k \in 1 .. n : q[k] \in Slots /\ q[k] # s
    BY <1>2, <1>5 DEF AsListed
  <1>8. s # first
    BY <1>3, <1>6, <1>7
  <1> DEFINE E(t) == IF t = s THEN [resource |-> h, previous |-> NoSlot, next |-> first]
                     ELSE IF t = first THEN [v.slot[t] EXCEPT !.previous = s]
                     ELSE v.slot[t]
  <1>9. w.slot = [t \in Slots |-> E(t)] /\ w.resources = [r EXCEPT !.slots[j].obj = s]
    BY DEF Link
  <1> HIDE DEF w, first
  <1>10. \A t \in Slots :
           /\ E(t) \in Nodes
           /\ E(t).resource = IF t = s THEN h ELSE v.slot[t].resource
           /\ E(t).previous = IF t = s THEN NoSlot ELSE IF t = first THEN s ELSE v.slot[t].previous
           /\ E(t).next = IF t = s THEN first ELSE v.slot[t].next
    <2>1. TAKE t \in Slots
    <2>2. v.slot[t] \in Nodes /\ s \in Objects /\ NoSlot \in Objects
      BY <1>1 DEF Objects
    <2>3. QED
      BY <1>6, <2>2 DEF Nodes
  <1> HIDE DEF E
  <1>11. /\ w.slot \in [Slots -> Nodes]
         /\ \A t \in Slots :
              /\ w.slot[t].resource = IF t = s THEN h ELSE v.slot[t].resource
              /\ w.slot[t].previous = IF t = s THEN NoSlot
                                      ELSE IF t = first THEN s ELSE v.slot[t].previous
              /\ w.slot[t].next = IF t = s THEN first ELSE v.slot[t].next
    BY <1>9, <1>10
  <1>12. /\ RegistryFits(w.resources) /\ SameHandles(r, w.resources)
         /\ w.resources.slots[j].obj = s
         /\ \A i \in 1 .. Len(r.slots) : i # j => w.resources.slots[i].obj = r.slots[i].obj
    <2>1. s \in Objects
      BY DEF Objects
    <2> HIDE DEF r, j
    <2>2. QED
      BY <1>1, <1>2, <1>9, <2>1, FirstViewSet
  <1>13. ASSUME NEW i \in 1 .. Len(r.slots), r.slots[i].alive, i # j PROVE Listed(w, i)
    <2>1. PICK m \in 0 .. N : \E p \in [1 .. m -> Slots] : AsListed(v, i, m, p)
      BY <1>1, <1>13 DEF Listed
    <2>2. PICK p \in [1 .. m -> Slots] : AsListed(v, i, m, p)
      BY <2>1
    <2>3. \A l \in 1 .. m : p[l] \in Slots /\ v.slot[p[l]].resource.index = i
      BY <2>2 DEF AsListed
    <2>4. \A k \in 1 .. n : v.slot[q[k]].resource.index = j
      BY <1>5 DEF AsListed
    <2>5. \A l \in 1 .. m : p[l] \in Slots /\ p[l] # s /\ p[l] # first
      <3>1. SUFFICES ASSUME NEW l \in 1 .. m PROVE p[l] # s /\ p[l] # first
        BY <2>3
      <3>2. p[l] # s
        BY <1>2, <1>13, <2>3
      <3>3. \A k \in 1 .. n : p[l] # q[k]
        BY <1>13, <2>3, <2>4
      <3>4. QED
        BY <1>3, <1>6, <2>3, <3>2, <3>3
    <2>6. \A l \in 1 .. m : /\ w.slot[p[l]].next = v.slot[p[l]].next
                            /\ w.slot[p[l]].previous = v.slot[p[l]].previous
      BY <1>11, <2>5
    <2>7. \A t \in Slots : w.slot[t].resource.index = i <=> v.slot[t].resource.index = i
      BY <1>2, <1>11, <1>13
    <2>8. w.resources.slots[i].obj = r.slots[i].obj
      BY <1>12, <1>13
    <2>9. AsListed(w, i, m, p)
      BY <2>2, <2>6, <2>7, <2>8 DEF AsListed
    <2>10. QED
      BY <2>1, <2>9 DEF Listed
  <1>14. Listed(w, j)
    <2> DEFINE p == [l \in 1 .. n + 1 |-> IF l = 1 THEN s ELSE q[l - 1]]
    <2>1. p \in [1 .. n + 1 -> Slots] /\ \A l \in 1 .. n + 1 : p[l] = IF l = 1 THEN s ELSE q[l - 1]
      BY <1>6, <1>7
    <2> HIDE DEF p
    <2>2. \A x, y \in 1 .. n : q[x] = q[y] => x = y
      BY <1>5 DEF AsListed
    <2>3. \A x, y \in 1 .. n + 1 : p[x] = p[y] => x = y
      BY <1>6, <1>7, <2>1, <2>2
    <2>4. n + 1 <= N
      <3>1. p \in Injection(1 .. n + 1, Slots)
        BY <2>1, <2>3 DEF Injection, IsInjective
      <3>2. Cardinality(1 .. n + 1) <= N
        BY <1>3, <3>1, FS_Injection
      <3>3. Cardinality(1 .. n + 1) = n + 1
        BY <1>6, FS_Interval
      <3>4. QED
        BY <3>2, <3>3
    <2>5. ASSUME NEW t \in Slots
          PROVE  w.slot[t].resource.index = j <=> \E l \in 1 .. n + 1 : p[l] = t
      <3>1. CASE t = s
        <4>1. 1 \in 1 .. n + 1 /\ p[1] = t
          BY <1>6, <2>1, <3>1
        <4>2. QED
          BY <1>11, <3>1, <4>1
      <3>2. CASE t # s
        <4>1. w.slot[t].resource.index = j <=> \E l \in 1 .. n : q[l] = t
          BY <1>5, <1>11, <3>2 DEF AsListed
        <4>2. ASSUME NEW l \in 1 .. n, q[l] = t PROVE \E x \in 1 .. n + 1 : p[x] = t
          <5>1. l + 1 \in 1 .. n + 1 /\ p[l + 1] = q[l]
            BY <1>6, <2>1
          <5>2. QED
            BY <4>2, <5>1
        <4>3. ASSUME NEW l \in 1 .. n + 1, p[l] = t PROVE \E x \in 1 .. n : q[x] = t
          <5>1. l # 1 /\ l - 1 \in 1 .. n /\ q[l - 1] = t
            BY <1>6, <2>1, <3>2, <4>3
          <5>2. QED
            BY <5>1
        <4>4. QED
          BY <4>1, <4>2, <4>3
      <3>3. QED
        BY <3>1, <3>2
    <2>6. w.resources.slots[j].obj = IF n + 1 = 0 THEN NoSlot ELSE p[1]
      BY <1>6, <1>12, <2>1
    <2>7. ASSUME NEW l \in 1 .. n + 1
          PROVE  /\ w.slot[p[l]].previous = IF l = 1 THEN NoSlot ELSE p[l - 1]
                 /\ w.slot[p[l]].next = IF l = n + 1 THEN NoSlot ELSE p[l + 1]
      <3>1. CASE l = 1
        <4>1. p[l] = s /\ w.slot[s].previous = NoSlot /\ w.slot[s].next = first
          BY <1>11, <2>1, <3>1
        <4>2. first = IF l = n + 1 THEN NoSlot ELSE p[l + 1]
          BY <1>6, <2>1, <3>1
        <4>3. QED
          BY <3>1, <4>1, <4>2
      <3>2. CASE l # 1
        <4>1. l - 1 \in 1 .. n /\ p[l] = q[l - 1]
          BY <1>6, <2>1, <3>2
        <4>2. PICK k \in 1 .. n : k = l - 1
          BY <4>1
        <4>3. p[l] = q[k] /\ q[k] \in Slots /\ q[k] # s /\ l = k + 1
          BY <1>6, <1>7, <4>1, <4>2
        <4>4. /\ v.slot[q[k]].previous = IF k = 1 THEN NoSlot ELSE q[k - 1]
              /\ v.slot[q[k]].next = IF k = n THEN NoSlot ELSE q[k + 1]
          BY <1>5 DEF AsListed
        <4>5. q[k] = first <=> k = 1
          BY <1>3, <1>6, <2>2, <4>3
        <4>6. /\ w.slot[q[k]].previous = IF k = 1 THEN s ELSE q[k - 1]
              /\ w.slot[q[k]].next = IF k = n THEN NoSlot ELSE q[k + 1]
          BY <1>11, <4>3, <4>4, <4>5
        <4>7. p[l - 1] = IF k = 1 THEN s ELSE q[k - 1]
          BY <1>6, <2>1, <4>3
        <4>8. l # n + 1 => p[l + 1] = q[k + 1]
          BY <1>6, <2>1, <4>3
        <4>9. QED
          BY <3>2, <4>3, <4>6, <4>7, <4>8
      <3>3. QED
        BY <3>1, <3>2
    <2>8. AsListed(w, j, n + 1, p)
      BY <2>3, <2>5, <2>6, <2>7 DEF AsListed
    <2>9. n + 1 \in 0 .. N
      BY <1>3, <1>6, <2>4
    <2>10. QED
      BY <2>1, <2>8, <2>9 DEF Listed
  <1>15. \A i \in 1 .. Len(w.resources.slots) : w.resources.slots[i].alive => Listed(w, i)
    BY <1>12, <1>13, <1>14 DEF SameHandles
  <1>16. \A t \in Slots : w.slot[t].resource # NoResource => Resolves(w.resources, w.slot[t].resource)
    <2>1. SUFFICES ASSUME NEW t \in Slots, w.slot[t].resource # NoResource
                   PROVE  Resolves(w.resources, w.slot[t].resource)
      OBVIOUS
    <2>2. Resolves(r, w.slot[t].resource)
      BY <1>1, <1>11, <2>1
    <2>3. QED
      BY <1>1, <1>12, <2>2, SameResolves
  <1>17. ViewsFit(w)
    BY <1>11, <1>12, <1>15, <1>16 DEF ViewsFit
  <1>18. QED
    BY <1>11, <1>12, <1>17 DEF w
-----------------------------------------------------------------------------
(* A set of numbers that is not empty has a smallest. *)
LEMMA Smallest ==
  ASSUME NEW S \in SUBSET Nat, S # {}
  PROVE  \E m \in S : \A x \in S : m <= x
  <1> DEFINE R == OpToRel(<, Nat)
  <1>1. IsWellFoundedOn(R, Nat)
    BY NatLessThanWellFounded
  <1>2. \A x, y \in Nat : y < x => <<y, x>> \in R
    BY DEF OpToRel
  <1> HIDE DEF R
  <1>3. PICK m \in S : \A y \in S : ~ (<<y, m>> \in R)
    BY <1>1, WFMin
  <1>4. ASSUME NEW y \in S PROVE m <= y
    <2>1. m \in Nat /\ y \in Nat /\ ~ (<<y, m>> \in R)
      BY <1>3, <1>4
    <2>2. ~ (y < m)
      BY <1>2, <2>1
    <2>3. QED
      BY <2>1, <2>2
  <1>5. QED
    BY <1>4

(* One step of the loop that releases the views of h ... *)
OneReleased(v, h) ==
  IF Object(v.resources, h) = NoSlot THEN v ELSE Reset(v, Object(v.resources, h))

(* ... and g, what it has made of the views after every step up to n.      *)
Loop(g, n, h) == g = [k \in 0 .. n |-> IF k = 0 THEN Now ELSE OneReleased(g[k - 1], h)]

(* The loop runs. *)
LEMMA LoopExists ==
  ASSUME NEW h, NEW n \in Nat
  PROVE  \E g : Loop(g, n, h)
  <1> DEFINE Bad == {m \in Nat : ~ \E g : Loop(g, m, h)}
  <1>1. SUFFICES ASSUME Bad # {} PROVE FALSE
    BY <1>1
  <1>2. PICK m \in Bad : \A x \in Bad : m <= x
    BY <1>1, Smallest
  <1>3. CASE m = 0
    <2>1. Loop([k \in 0 .. 0 |-> Now], 0, h)
      <3>1. \A k \in 0 .. 0 : k = 0
        OBVIOUS
      <3>2. QED
        BY <3>1 DEF Loop
    <2>2. QED
      BY <1>2, <1>3, <2>1
  <1>4. CASE m # 0
    <2>1. m \in Nat /\ m - 1 \in Nat /\ m - 1 \notin Bad
      BY <1>2, <1>4
    <2>2. PICK g : Loop(g, m - 1, h)
      BY <2>1
    <2> DEFINE f == [k \in 0 .. m |-> IF k = m THEN OneReleased(g[m - 1], h) ELSE g[k]]
    <2>3. \A k \in 0 .. m - 1 : f[k] = g[k]
      BY <2>1
    <2>4. ASSUME NEW k \in 0 .. m
          PROVE  f[k] = IF k = 0 THEN Now ELSE OneReleased(f[k - 1], h)
      <3>1. CASE k = m
        <4>1. m - 1 \in 0 .. m - 1 /\ f[m - 1] = g[m - 1]
          BY <2>1, <2>3
        <4>2. f[k] = OneReleased(g[m - 1], h)
          BY <3>1
        <4> HIDE DEF f
        <4>3. QED
          BY <1>4, <3>1, <4>1, <4>2
      <3>2. CASE k # m
        <4>1. k \in 0 .. m - 1 /\ (k # 0 => k - 1 \in 0 .. m - 1)
          BY <2>1, <3>2
        <4>2. g[k] = IF k = 0 THEN Now ELSE OneReleased(g[k - 1], h)
          BY <2>2, <4>1 DEF Loop
        <4>3. f[k] = g[k] /\ (k # 0 => f[k - 1] = g[k - 1])
          BY <2>3, <4>1
        <4> HIDE DEF f
        <4>4. QED
          BY <4>2, <4>3
      <3>3. QED
        BY <3>1, <3>2
    <2>5. f = [k \in 0 .. m |-> f[k]]
      OBVIOUS
    <2> HIDE DEF f
    <2>6. f = [k \in 0 .. m |-> IF k = 0 THEN Now ELSE OneReleased(f[k - 1], h)]
      BY <2>4, <2>5
    <2>7. QED
      BY <1>2, <2>6 DEF Loop
  <1>5. QED
    BY <1>3, <1>4

(* Releasing the views of a resource takes them all away, and leaves the   *)
(* views of others.                                                        *)
LEMMA ReleasedFits ==
  ASSUME ViewsFit(Now), NEW h \in Handles, Resolves(resources, h)
  PROVE  /\ ViewsFit(Released(h))
         /\ SameHandles(resources, Released(h).resources)
         /\ \A t \in Slots : Released(h).slot[t].resource =
                               IF slot[t].resource = h THEN NoResource ELSE slot[t].resource
  <1> DEFINE N == Cardinality(Slots)
             On(v) == {t \in Slots : v.slot[t].resource.index = h.index}
             Kept(v) ==
               /\ ViewsFit(v) /\ SameHandles(resources, v.resources)
               /\ \A t \in Slots : v.slot[t].resource = slot[t].resource
                                   \/ (v.slot[t].resource = NoResource /\ slot[t].resource = h)
             Done(v, n) == Kept(v) /\ (On(v) = {} \/ Cardinality(On(v)) + n <= N)
  <1>1. N \in Nat /\ IsFiniteSet(Slots) /\ NoSlot \notin Slots
    BY Assumed
  <1>2. PICK f : Loop(f, N, h) /\ Released(h) = f[N]
    <2>1. \E f : Loop(f, N, h)
      BY <1>1, LoopExists
    <2> DEFINE f == CHOOSE g : Loop(g, N, h)
    <2>2. Loop(f, N, h)
      BY <2>1
    <2>3. Released(h) = f[N]
      BY DEF Released, Loop, OneReleased
    <2>4. QED
      BY <2>2, <2>3
  <1>3. Now.resources = resources /\ Now.slot = slot
    BY DEF Now
  <1>4. NoResource.index = 0 /\ h.index # 0 /\ h.index \in DOMAIN resources.slots
    <2>1. DOMAIN resources.slots = 1 .. Len(resources.slots) /\ Len(resources.slots) \in Nat
      BY <1>3, Parts DEF ViewsFit, RegistryFits
    <2>2. QED
      BY <2>1 DEF NoResource, Handle, Resolves
  <1>5. ASSUME NEW t \in Slots, NEW v, Kept(v), v.slot[t].resource.index = h.index
        PROVE  v.slot[t].resource = h /\ slot[t].resource = h
    <2>1. v.slot[t].resource # NoResource /\ v.slot[t].resource = slot[t].resource
      BY <1>4, <1>5
    <2>2. Resolves(resources, slot[t].resource) /\ slot[t].resource \in Handles
      BY <1>3, <2>1 DEF ViewsFit, Nodes
    <2>3. slot[t].resource.generation = h.generation /\ slot[t].resource.index = h.index
      BY <1>5, <2>1, <2>2 DEF Resolves
    <2>4. QED
      BY <2>1, <2>2, <2>3 DEF Handles
  <1>6. ASSUME NEW v, NEW n \in Nat, Done(v, n) PROVE Done(OneReleased(v, h), n + 1)
    <2>1. Resolves(v.resources, h) /\ RegistryFits(resources) /\ RegistryFits(v.resources)
      BY <1>3, <1>6, SameResolves DEF ViewsFit
    <2>2. Listed(v, h.index) /\ h.index \in 1 .. Len(v.resources.slots)
      <3>1. h.index \in 1 .. Len(v.resources.slots) /\ v.resources.slots[h.index].alive
        BY <2>1, Parts DEF Resolves, RegistryFits
      <3>2. QED
        BY <1>6, <3>1 DEF ViewsFit
    <2>3. PICK m \in 0 .. N : \E q \in [1 .. m -> Slots] : AsListed(v, h.index, m, q)
      BY <2>2 DEF Listed
    <2>4. PICK q \in [1 .. m -> Slots] : AsListed(v, h.index, m, q)
      BY <2>3
    <2>5. /\ Object(v.resources, h) = IF m = 0 THEN NoSlot ELSE q[1]
          /\ \A t \in On(v) : \E k \in 1 .. m : q[k] = t
          /\ \A k \in 1 .. m : q[k] \in On(v)
      BY <2>4 DEF AsListed, Object
    <2>6. CASE m = 0
      <3>1. OneReleased(v, h) = v
        BY <2>5, <2>6 DEF OneReleased
      <3>2. On(v) = {}
        BY <2>5, <2>6
      <3> HIDE DEF Kept, On
      <3>3. QED
        BY <1>6, <3>1, <3>2
    <2>7. CASE m # 0
      <3> DEFINE s == q[1]
                 w == Reset(v, s)
      <3>1. s \in On(v) /\ s \in Slots /\ s # NoSlot /\ Object(v.resources, h) = s
        BY <1>1, <2>3, <2>5, <2>7
      <3>2. OneReleased(v, h) = w
        BY <3>1 DEF OneReleased
      <3>3. /\ ViewsFit(w) /\ SameHandles(v.resources, w.resources)
            /\ w.slot[s].resource = NoResource
            /\ \A t \in Slots : t # s => w.slot[t].resource = v.slot[t].resource
        BY <1>6, <3>1, ResetFits
      <3>4. slot[s].resource = h
        BY <1>5, <1>6, <3>1
      <3>5. SameHandles(resources, w.resources)
        BY <1>6, <3>3 DEF SameHandles
      <3>6. Kept(w)
        BY <1>6, <3>3, <3>4, <3>5
      <3> HIDE DEF s, w
      <3>7. On(w) = On(v) \ {s}
        BY <1>4, <3>1, <3>3
      <3>8. IsFiniteSet(On(v)) /\ On(v) # {}
        BY <1>1, <3>1, FS_Subset
      <3>9. Cardinality(On(w)) = Cardinality(On(v)) - 1 /\ Cardinality(On(v)) \in Nat
        <4>1. s \in On(v)
          BY <3>1
        <4> HIDE DEF On
        <4>2. Cardinality(On(v) \ {s}) = Cardinality(On(v)) - 1
          BY <3>8, <4>1, FS_RemoveElement
        <4>3. QED
          BY <3>7, <3>8, <4>2, FS_CardinalityType
      <3>10. Cardinality(On(v)) + n <= N
        BY <1>6, <3>8
      <3> HIDE DEF Kept, On
      <3>11. Cardinality(On(w)) + (n + 1) <= N
        BY <1>1, <3>9, <3>10
      <3>12. QED
        BY <3>2, <3>6, <3>11
    <2>8. QED
      BY <2>6, <2>7
  <1>u. PICK u : u = Now
    OBVIOUS
  <1>7. Done(u, 0)
    <2>1. ViewsFit(u) /\ u.resources = resources /\ u.slot = slot
      BY <1>3, <1>u
    <2>2. Kept(u)
      BY <2>1 DEF SameHandles
    <2>3. Cardinality(On(u)) <= N /\ Cardinality(On(u)) \in Nat
      BY <1>1, FS_Subset, FS_CardinalityType
    <2> HIDE DEF Kept, On
    <2>4. QED
      BY <2>2, <2>3
  <1> DEFINE Bad == {n \in 0 .. N : ~ Done(f[n], n)}
  <1>8. Bad = {}
    <2>1. SUFFICES ASSUME Bad # {} PROVE FALSE
      OBVIOUS
    <2>2. Bad \in SUBSET Nat
      BY <1>1
    <2> HIDE DEF Done
    <2>3. PICK m \in Bad : \A x \in Bad : m <= x
      <3> HIDE DEF Bad
      <3>1. QED
        BY <2>1, <2>2, Smallest
    <2>4. m \in 0 .. N /\ f[0] = u
      BY <1>1, <1>2, <1>u DEF Loop
    <2>5. m # 0
      BY <1>7, <2>3, <2>4
    <2>6. m - 1 \in 0 .. N /\ m - 1 \in Nat /\ m - 1 + 1 = m /\ m - 1 \notin Bad
      BY <1>1, <2>3, <2>4, <2>5
    <2>7. f[m] = OneReleased(f[m - 1], h)
      BY <1>2, <2>4, <2>5 DEF Loop
    <2>8. Done(f[m], m - 1 + 1)
      BY <1>6, <2>6, <2>7
    <2>9. QED
      BY <2>3, <2>6, <2>8
  <1>9. Done(f[N], N)
    <2>1. N \in 0 .. N
      BY <1>1
    <2> HIDE DEF Done
    <2>2. QED
      BY <1>8, <2>1
  <1>10. On(f[N]) = {}
    <2>1. IsFiniteSet(On(f[N]))
      BY <1>1, FS_Subset
    <2>2. Cardinality(On(f[N])) \in Nat /\ (Cardinality(On(f[N])) = 0 => On(f[N]) = {})
      BY <2>1, FS_CardinalityType, FS_EmptySet
    <2> HIDE DEF On, Kept
    <2>3. QED
      BY <1>1, <1>9, <2>2
  <1>11. ASSUME NEW t \in Slots
         PROVE  f[N].slot[t].resource = IF slot[t].resource = h THEN NoResource ELSE slot[t].resource
    <2>1. f[N].slot[t].resource # h
      BY <1>10
    <2>2. QED
      BY <1>9, <2>1
  <1>12. QED
    BY <1>2, <1>9, <1>11

(* g, what a walk along the list of i comes by. *)
Walk(g, i) ==
  g = [n \in 0 .. Cardinality(Slots) |->
         IF n = 0 THEN resources.slots[i].obj
         ELSE IF g[n - 1] = NoSlot THEN NoSlot ELSE slot[g[n - 1]].next]

(* A walk comes by the slots of the list, and each slot's neighbours know  *)
(* it.                                                                     *)
LEMMA ListOfIs ==
  ASSUME ViewsFit(Now), NEW i \in 1 .. Len(resources.slots), resources.slots[i].alive
  PROVE  /\ ListOf(i) = {s \in Slots : slot[s].resource.index = i}
         /\ \A s \in ListOf(i) : IF slot[s].previous = NoSlot THEN resources.slots[i].obj = s
                                 ELSE slot[slot[s].previous].next = s
  <1> DEFINE N == Cardinality(Slots)
  <1>1. N \in Nat /\ NoSlot \notin Slots
    BY Assumed
  <1>2. Now.resources = resources /\ Now.slot = slot
    BY DEF Now
  <1>3. PICK n \in 0 .. N : \E q \in [1 .. n -> Slots] : AsListed(Now, i, n, q)
    BY <1>2 DEF ViewsFit, Listed
  <1>4. PICK q \in [1 .. n -> Slots] : AsListed(Now, i, n, q)
    BY <1>3
  <1>5. /\ \A k, l \in 1 .. n : q[k] = q[l] => k = l
        /\ \A s \in Slots : slot[s].resource.index = i <=> \E k \in 1 .. n : q[k] = s
        /\ resources.slots[i].obj = IF n = 0 THEN NoSlot ELSE q[1]
        /\ \A k \in 1 .. n : /\ slot[q[k]].previous = IF k = 1 THEN NoSlot ELSE q[k - 1]
                             /\ slot[q[k]].next = IF k = n THEN NoSlot ELSE q[k + 1]
        /\ n \in Nat
    BY <1>2, <1>4 DEF AsListed
  <1> DEFINE W == [m \in 0 .. N |-> IF m < n THEN q[m + 1] ELSE NoSlot]
  <1>6. Walk(W, i)
    <2>1. ASSUME NEW m \in 0 .. N
          PROVE  W[m] = IF m = 0 THEN resources.slots[i].obj
                        ELSE IF W[m - 1] = NoSlot THEN NoSlot ELSE slot[W[m - 1]].next
      <3>1. CASE m = 0
        BY <1>5, <3>1
      <3>2. CASE m # 0 /\ m <= n
        <4>1. m - 1 \in 0 .. N /\ m \in 1 .. n /\ m - 1 < n /\ m - 1 + 1 = m
          BY <1>1, <1>5, <3>2
        <4>2. W[m - 1] = q[m] /\ q[m] # NoSlot
          BY <1>1, <4>1
        <4>3. slot[q[m]].next = IF m = n THEN NoSlot ELSE q[m + 1]
          BY <1>5, <4>1
        <4>4. W[m] = IF m = n THEN NoSlot ELSE q[m + 1]
          BY <1>5, <3>2
        <4> HIDE DEF W
        <4>5. QED
          BY <3>2, <4>2, <4>3, <4>4
      <3>3. CASE m > n
        <4>1. m - 1 \in 0 .. N /\ ~ (m - 1 < n) /\ ~ (m < n) /\ m # 0
          BY <1>1, <1>5, <3>3
        <4>2. W[m - 1] = NoSlot /\ W[m] = NoSlot
          BY <4>1
        <4> HIDE DEF W
        <4>3. QED
          BY <4>1, <4>2
      <3>4. QED
        BY <1>5, <3>1, <3>2, <3>3
    <2>2. W = [m \in 0 .. N |-> W[m]]
      OBVIOUS
    <2> HIDE DEF W
    <2>3. QED
      BY <2>1, <2>2 DEF Walk
  <1> DEFINE walk == CHOOSE g : Walk(g, i)
  <1>7. Walk(walk, i)
    BY <1>6
  <1>8. ListOf(i) = {walk[m] : m \in DOMAIN walk} \ {NoSlot}
    BY DEF ListOf, Walk
  <1> HIDE DEF walk, W
  <1>9. \A m \in 0 .. N : walk[m] = W[m]
    <2> DEFINE Bad == {m \in 0 .. N : walk[m] # W[m]}
    <2>1. SUFFICES ASSUME Bad # {} PROVE FALSE
      OBVIOUS
    <2>2. Bad \in SUBSET Nat
      BY <1>1
    <2>3. PICK m \in Bad : \A x \in Bad : m <= x
      <3> HIDE DEF Bad
      <3>1. QED
        BY <2>1, <2>2, Smallest
    <2>4. CASE m = 0
      BY <1>6, <1>7, <2>3, <2>4 DEF Walk
    <2>5. CASE m # 0
      <3>1. m - 1 \in 0 .. N /\ m - 1 \notin Bad
        BY <1>1, <2>3, <2>5
      <3>2. walk[m - 1] = W[m - 1]
        BY <3>1
      <3>3. m \in 0 .. N
        BY <2>3
      <3>4. walk[m] = IF walk[m - 1] = NoSlot THEN NoSlot ELSE slot[walk[m - 1]].next
        BY <1>7, <2>5, <3>3 DEF Walk
      <3>5. W[m] = IF W[m - 1] = NoSlot THEN NoSlot ELSE slot[W[m - 1]].next
        BY <1>6, <2>5, <3>3 DEF Walk
      <3>6. walk[m] # W[m]
        BY <2>3
      <3>7. QED
        BY <3>2, <3>4, <3>5, <3>6
    <2>6. QED
      BY <2>4, <2>5
  <1>10. \A s : s \in ListOf(i) <=> \E k \in 1 .. n : s = q[k]
    <2>1. DOMAIN walk = 0 .. N
      BY <1>7 DEF Walk
    <2>2. \A m \in 0 .. N : walk[m] = IF m < n THEN q[m + 1] ELSE NoSlot
      BY <1>9 DEF W
    <2>3. ASSUME NEW s, s \in ListOf(i) PROVE \E k \in 1 .. n : s = q[k]
      <3>1. PICK m \in 0 .. N : walk[m] = s /\ s # NoSlot
        BY <1>8, <2>1, <2>3
      <3>2. m + 1 \in 1 .. n /\ s = q[m + 1]
        BY <1>1, <1>5, <2>2, <3>1
      <3>3. QED
        BY <3>2
    <2>4. ASSUME NEW k \in 1 .. n PROVE q[k] \in ListOf(i)
      <3>1. k - 1 \in 0 .. N /\ k - 1 < n /\ k - 1 + 1 = k /\ q[k] \in Slots
        BY <1>1, <1>3, <1>5
      <3>2. walk[k - 1] = q[k] /\ q[k] # NoSlot
        BY <1>1, <2>2, <3>1
      <3>3. QED
        BY <1>8, <2>1, <3>1, <3>2
    <2>5. QED
      BY <2>3, <2>4
  <1>11. ListOf(i) = {s \in Slots : slot[s].resource.index = i}
    BY <1>5, <1>10
  <1>12. ASSUME NEW s \in ListOf(i)
         PROVE  IF slot[s].previous = NoSlot THEN resources.slots[i].obj = s
                ELSE slot[slot[s].previous].next = s
    <2>1. PICK k \in 1 .. n : s = q[k]
      BY <1>10
    <2>2. CASE k = 1
      BY <1>5, <2>1, <2>2
    <2>3. CASE k # 1
      <3>1. k - 1 \in 1 .. n /\ k - 1 # n /\ k - 1 + 1 = k
        BY <1>5, <2>3
      <3>2. slot[s].previous = q[k - 1] /\ q[k - 1] \in Slots /\ slot[q[k - 1]].next = s
        BY <1>5, <2>1, <2>3, <3>1
      <3>3. QED
        BY <1>1, <3>2
    <2>4. QED
      BY <2>2, <2>3
  <1>13. QED
    BY <1>11, <1>12

(* g, the views after the slots of every part of S were reset.             *)
Wipe(g, S) ==
  g = [T \in SUBSET S |->
         IF T = {} THEN Now
         ELSE Reset(g[T \ {CHOOSE x \in T : TRUE}], CHOOSE x \in T : TRUE)]

(* Finite sets can be built up one element at a time. *)
LEMMA SmallestSet ==
  ASSUME NEW S, IsFiniteSet(S), NEW F \in SUBSET SUBSET S, F # {}
  PROVE  \E T \in F : \A x \in T : T \ {x} \notin F
  <1> DEFINE Sizes == {Cardinality(T) : T \in F}
  <1>1. \A T \in F : IsFiniteSet(T) /\ Cardinality(T) \in Nat
    BY FS_Subset, FS_CardinalityType
  <1>2. Sizes \in SUBSET Nat /\ Sizes # {}
    BY <1>1
  <1>3. PICK n \in Sizes : \A m \in Sizes : n <= m
    <2> HIDE DEF Sizes
    <2>1. QED
      BY <1>2, Smallest
  <1>4. PICK T \in F : Cardinality(T) = n
    BY <1>3
  <1>5. ASSUME NEW x \in T, T \ {x} \in F PROVE FALSE
    <2>1. Cardinality(T \ {x}) = Cardinality(T) - 1
      BY <1>1, FS_RemoveElement
    <2>2. n <= Cardinality(T \ {x})
      BY <1>3, <1>5
    <2>3. QED
      BY <1>1, <1>4, <2>1, <2>2
  <1>6. QED
    BY <1>5

(* All the slots of a finite set can be reset. *)
LEMMA WipeExists ==
  ASSUME NEW S, IsFiniteSet(S)
  PROVE  \E g : Wipe(g, S)
  <1> DEFINE Small(n) == {T \in SUBSET S : Cardinality(T) <= n}
             Rest(T) == T \ {CHOOSE x \in T : TRUE}
             Step(g, T) == IF T = {} THEN Now ELSE Reset(g[Rest(T)], CHOOSE x \in T : TRUE)
             Can(n) == \E g : g = [T \in Small(n) |-> Step(g, T)]
             Bad == {n \in Nat : ~ Can(n)}
  <1>1. \A T \in SUBSET S : T # {} =>
          /\ Rest(T) \in SUBSET S /\ Cardinality(T) \in Nat
          /\ Cardinality(Rest(T)) = Cardinality(T) - 1
    <2>1. TAKE T \in SUBSET S
    <2>2. HAVE T # {}
    <2>3. (CHOOSE x \in T : TRUE) \in T
      BY <2>2
    <2>4. IsFiniteSet(T)
      BY FS_Subset
    <2>5. QED
      BY <2>3, <2>4, FS_RemoveElement, FS_CardinalityType
  <1>2. \A T \in SUBSET S : Cardinality(T) \in Nat
    BY FS_Subset, FS_CardinalityType
  <1> HIDE DEF Rest
  <1>3. Bad = {}
    <2>1. SUFFICES ASSUME Bad # {} PROVE FALSE
      OBVIOUS
    <2>2. Bad \in SUBSET Nat
      OBVIOUS
    <2>3. PICK n \in Bad : \A m \in Bad : n <= m
      <3> HIDE DEF Bad
      <3>1. QED
        BY <2>1, <2>2, Smallest
    <2>4. CASE n = 0
      <3>1. \A T \in Small(0) : T = {}
        <4>1. TAKE T \in Small(0)
        <4>2. Cardinality(T) = 0 /\ IsFiniteSet(T)
          BY <1>2, FS_Subset
        <4>3. QED
          BY <4>2, FS_EmptySet
      <3> DEFINE g == [T \in Small(0) |-> Now]
      <3>2. \A T \in Small(0) : Step(g, T) = Now
        BY <3>1
      <3> HIDE DEF Step
      <3>3. g = [T \in Small(0) |-> Step(g, T)]
        BY <3>2
      <3>4. QED
        BY <2>3, <2>4, <3>3
    <2>5. CASE n # 0
      <3>1. n \in Nat /\ n - 1 \in Nat /\ n - 1 \notin Bad
        <4> HIDE DEF Bad
        <4>1. QED
          BY <2>2, <2>3, <2>5
      <3>2. PICK g : g = [T \in Small(n - 1) |-> Step(g, T)]
        BY <3>1
      <3> DEFINE f == [T \in Small(n) |-> Step(g, T)]
      <3>3. ASSUME NEW T \in Small(n), T # {} PROVE Rest(T) \in Small(n - 1) /\ Rest(T) \in Small(n)
        BY <1>1, <3>1, <3>3
      <3>4. \A T \in Small(n - 1) : T \in Small(n)
        BY <1>2, <3>1
      <3>5. \A T \in Small(n - 1) : f[T] = g[T]
        <4>1. TAKE T \in Small(n - 1)
        <4>2. g[T] = Step(g, T) /\ f[T] = Step(g, T)
          <5> HIDE DEF Step
          <5>1. QED
            BY <3>2, <3>4
        <4>3. QED
          BY <4>2
      <3>6. ASSUME NEW T \in Small(n) PROVE f[T] = Step(f, T)
        <4>1. f[T] = Step(g, T)
          OBVIOUS
        <4>2. T # {} => f[Rest(T)] = g[Rest(T)]
          BY <3>3, <3>5
        <4> HIDE DEF f
        <4>3. QED
          BY <4>1, <4>2
      <3>7. f = [T \in Small(n) |-> f[T]]
        OBVIOUS
      <3> HIDE DEF f, Step
      <3>8. f = [T \in Small(n) |-> Step(f, T)]
        BY <3>6, <3>7
      <3>9. QED
        BY <2>3, <3>8
    <2>6. QED
      BY <2>4, <2>5
  <1>4. Cardinality(S) \in Nat
    BY FS_CardinalityType
  <1>5. PICK g : g = [T \in Small(Cardinality(S)) |-> Step(g, T)]
    BY <1>3, <1>4
  <1>6. Small(Cardinality(S)) = SUBSET S
    BY FS_Subset
  <1>7. g = [T \in SUBSET S |-> Step(g, T)]
    BY <1>5, <1>6
  <1>8. Wipe(g, S)
    BY <1>7 DEF Wipe, Rest
  <1>9. QED
    BY <1>8

(* What destroying a heap with the slots S makes of the views. *)
Wiped(S) == FoldSet(LAMBDA s, v : Reset(v, s), Now, S)

(* It resets the slots, in whatever order. *)
LEMMA WipedFits ==
  ASSUME ViewsFit(Now), NEW S \in SUBSET Slots, NEW w, w = Wiped(S)
  PROVE  /\ ViewsFit(w) /\ SameHandles(resources, w.resources)
         /\ \A t \in Slots : w.slot[t].resource = IF t \in S THEN NoResource ELSE slot[t].resource
  <1> DEFINE Kept(v, T) ==
               /\ ViewsFit(v) /\ SameHandles(resources, v.resources)
               /\ \A t \in Slots : v.slot[t].resource = IF t \in T THEN NoResource ELSE slot[t].resource
             g == CHOOSE k : Wipe(k, S)
  <1>1. IsFiniteSet(S)
    BY Assumed, FS_Subset
  <1>2. Wipe(g, S)
    BY <1>1, WipeExists
  <1>3. w = g[S]
    BY DEF Wiped, FoldSet, MapThenFoldSet, Wipe
  <1> HIDE DEF g
  <1>4. PICK u : u = Now
    OBVIOUS
  <1>5. ViewsFit(u) /\ u.resources = resources /\ u.slot = slot
    BY <1>4 DEF Now
  <1> DEFINE Bad == {T \in SUBSET S : ~ Kept(g[T], T)}
  <1>6. Bad = {}
    <2>1. SUFFICES ASSUME Bad # {} PROVE FALSE
      OBVIOUS
    <2>2. PICK T \in Bad : \A x \in T : T \ {x} \notin Bad
      <3>1. Bad \in SUBSET SUBSET S
        OBVIOUS
      <3> HIDE DEF Bad
      <3>2. QED
        BY <1>1, <2>1, <3>1, SmallestSet
    <2>3. T \in SUBSET S /\ ~ Kept(g[T], T)
      BY <2>2
    <2>4. CASE T = {}
      <3>1. g[T] = u
        BY <1>2, <1>4, <2>3, <2>4 DEF Wipe
      <3>2. Kept(u, {})
        BY <1>5 DEF SameHandles
      <3> HIDE DEF Kept
      <3>3. QED
        BY <2>3, <2>4, <3>1, <3>2
    <2>5. CASE T # {}
      <3> DEFINE x == CHOOSE y \in T : TRUE
                 v == g[T \ {x}]
      <3>1. x \in T /\ x \in Slots
        BY <2>3, <2>5
      <3>2. g[T] = Reset(v, x)
        BY <1>2, <2>3, <2>5 DEF Wipe
      <3> HIDE DEF x, v
      <3>3. Kept(v, T \ {x})
        BY <2>2, <2>3, <3>1 DEF v
      <3>4. /\ ViewsFit(Reset(v, x)) /\ SameHandles(v.resources, Reset(v, x).resources)
            /\ Reset(v, x).slot[x].resource = NoResource
            /\ \A t \in Slots : t # x => Reset(v, x).slot[t].resource = v.slot[t].resource
        BY <3>1, <3>3, ResetFits
      <3>5. SameHandles(resources, Reset(v, x).resources)
        BY <3>3, <3>4 DEF SameHandles
      <3>6. Kept(Reset(v, x), T)
        BY <3>1, <3>3, <3>4, <3>5
      <3> HIDE DEF Kept
      <3>7. QED
        BY <2>3, <3>2, <3>6
    <2>6. QED
      BY <2>4, <2>5
  <1>7. Kept(g[S], S)
    <2> HIDE DEF Kept
    <2>1. QED
      BY <1>6
  <1>8. QED
    BY <1>3, <1>7
-----------------------------------------------------------------------------
(* Resources come and go. *)
With(r) == [resources |-> r, slot |-> slot]

(* A new resource has a new handle and no views. *)
LEMMA AllocFits ==
  ASSUME ViewsFit(Now), HasRoom, NEW r, r = Alloc(resources, NoSlot),
         NEW h, h = NextHandle(resources)
  PROVE  /\ ViewsFit(With(r)) /\ h \in Handles
         /\ Resolves(r, h) /\ ~ Resolves(resources, h)
         /\ \A g : g # h => (g \in Handles => (Resolves(r, g) <=> Resolves(resources, g)))
         /\ \A i \in 1 .. Len(r.slots) : r.slots[i].alive =>
              \/ Handle(i, r.slots[i].generation) = h
              \/ /\ i \in 1 .. Len(resources.slots) /\ resources.slots[i].alive
                 /\ r.slots[i].generation = resources.slots[i].generation
  <1> DEFINE q == resources
  <1>1. /\ RegistryFits(q) /\ slot \in [Slots -> Nodes] /\ WellFormed(q, Objects)
        /\ \A i \in 1 .. Len(q.slots) : q.slots[i].alive => Listed(Now, i)
        /\ \A s \in Slots : slot[s].resource # NoResource => Resolves(q, slot[s].resource)
        /\ DOMAIN q.slots = 1 .. Len(q.slots) /\ Len(q.slots) \in Nat
        /\ NoSlot \in Objects /\ MaxResources \in Nat /\ MaxGeneration \in Nat
    BY Parts, Assumed DEF ViewsFit, RegistryFits, Now, Objects
  <1>2. h.index <= MaxResources /\ h.generation <= MaxGeneration
    BY DEF HasRoom
  <1> DEFINE new == [obj |-> NoSlot, generation |-> h.generation, alive |-> TRUE]
  <1>3. /\ h.index \in Nat \ {0} /\ h.generation \in Nat \ {0}
        /\ Len(r.slots) \in Nat /\ h.index \in 1 .. Len(r.slots)
        /\ DOMAIN r.slots = 1 .. Len(r.slots)
        /\ 1 .. Len(q.slots) \subseteq 1 .. Len(r.slots)
        /\ r.slots[h.index] = new
        /\ \A k \in 1 .. Len(r.slots) :
             k # h.index => k \in 1 .. Len(q.slots) /\ r.slots[k] = q.slots[k]
    BY <1>1, SlotsOfAlloc
  <1>4. h \in Handles /\ h = Handle(h.index, h.generation)
    <2>1. h = Handle(h.index, h.generation)
      BY DEF NextHandle, Handle
    <2>2. QED
      BY <1>1, <1>2, <1>3, <2>1 DEF Handle, Handles
  <1>5. ~ Resolves(q, h) /\ (h.index \in 1 .. Len(q.slots) => ~ q.slots[h.index].alive)
    <2>1. CASE q.freelist = <<>>
      <3>1. h.index = Len(q.slots) + 1
        BY <1>1, <2>1, SlotsOfAlloc
      <3>2. QED
        BY <1>1, <3>1 DEF Resolves
    <2>2. CASE q.freelist # <<>>
      BY <1>1, <2>2, NextIndex DEF Resolves
    <2>3. QED
      BY <2>1, <2>2
  <1>6. Resolves(r, h)
    BY <1>3 DEF Resolves
  <1>7. ASSUME NEW g \in Handles, g # h PROVE Resolves(r, g) <=> Resolves(q, g)
    <2>1. CASE g.index = h.index
      <3>1. g.generation # h.generation
        BY <1>4, <1>7, <2>1 DEF Handles
      <3>2. ~ Resolves(r, g)
        BY <1>3, <2>1, <3>1 DEF Resolves
      <3>3. ~ Resolves(q, g)
        BY <1>1, <1>5, <2>1 DEF Resolves
      <3>4. QED
        BY <3>2, <3>3
    <2>2. CASE g.index # h.index
      BY <1>1, <1>3, <2>2 DEF Resolves
    <2>3. QED
      BY <2>1, <2>2
  <1>8. WellFormed(r, Objects)
    BY <1>1, StaysWellFormed
  <1>9. Len(r.slots) <= MaxResources
    <2>1. h.index = Len(r.slots) \/ Len(r.slots) \in 1 .. Len(q.slots)
      BY <1>3
    <2>2. Len(q.slots) <= MaxResources
      BY <1>1 DEF RegistryFits
    <2>3. QED
      BY <1>1, <1>2, <1>3, <2>1, <2>2
  <1>10. RegistryFits(r)
    <2>1. ASSUME NEW i \in 1 .. Len(r.slots)
          PROVE  /\ r.slots[i].generation \in 1 .. MaxGeneration
                 /\ r.slots[i].obj \in IF r.slots[i].alive THEN Objects ELSE {NoObject}
      <3>1. CASE i = h.index
        BY <1>1, <1>2, <1>3, <3>1
      <3>2. CASE i # h.index
        BY <1>1, <1>3, <3>2 DEF RegistryFits
      <3>3. QED
        BY <3>1, <3>2
    <2>2. QED
      BY <1>8, <1>9, <2>1 DEF RegistryFits
  <1>11. \A s \in Slots : slot[s].resource # NoResource => Resolves(r, slot[s].resource)
    <2>1. \A s \in Slots : slot[s].resource \in Handles
      BY <1>1 DEF Nodes
    <2>2. QED
      BY <1>1, <1>5, <1>7, <2>1
  <1>12. ASSUME NEW i \in 1 .. Len(r.slots), r.slots[i].alive PROVE Listed(With(r), i)
    <2>1. CASE i = h.index
      <3>1. \A s \in Slots : slot[s].resource.index # i
        <4>1. ASSUME NEW s \in Slots, slot[s].resource.index = i PROVE FALSE
          <5>1. slot[s].resource # NoResource
            BY <1>3, <2>1, <4>1 DEF NoResource, Handle
          <5>2. Resolves(q, slot[s].resource)
            BY <1>1, <5>1
          <5>3. QED
            BY <1>1, <1>5, <2>1, <4>1, <5>2 DEF Resolves
        <4>2. QED
          BY <4>1
      <3>2. AsListed(With(r), i, 0, [k \in 1 .. 0 |-> NoSlot])
        BY <1>3, <2>1, <3>1 DEF AsListed, With
      <3>3. 0 \in 0 .. Cardinality(Slots) /\ [k \in 1 .. 0 |-> NoSlot] \in [1 .. 0 -> Slots]
        BY Assumed
      <3>4. QED
        BY <3>2, <3>3 DEF Listed
    <2>2. CASE i # h.index
      <3>1. i \in 1 .. Len(q.slots) /\ r.slots[i] = q.slots[i]
        BY <1>3, <2>2
      <3>2. PICK n \in 0 .. Cardinality(Slots) : \E p \in [1 .. n -> Slots] : AsListed(Now, i, n, p)
        BY <1>1, <1>12, <3>1 DEF Listed
      <3>3. PICK p \in [1 .. n -> Slots] : AsListed(Now, i, n, p)
        BY <3>2
      <3>4. AsListed(With(r), i, n, p)
        BY <3>1, <3>3 DEF AsListed, With, Now
      <3>5. QED
        BY <3>4 DEF Listed
    <2>3. QED
      BY <2>1, <2>2
  <1>13. ViewsFit(With(r))
    BY <1>1, <1>10, <1>11, <1>12 DEF ViewsFit, With
  <1>14. ASSUME NEW i \in 1 .. Len(r.slots), r.slots[i].alive, Handle(i, r.slots[i].generation) # h
         PROVE  /\ i \in 1 .. Len(q.slots) /\ q.slots[i].alive
                /\ r.slots[i].generation = q.slots[i].generation
    <2>1. i # h.index
      BY <1>3, <1>4, <1>14
    <2>2. QED
      BY <1>3, <1>14, <2>1
  <1>15. QED
    BY <1>4, <1>5, <1>6, <1>7, <1>13, <1>14

(* A resource without views may go. *)
LEMMA FreeFits ==
  ASSUME ViewsFit(Now), NEW h \in Handles, Resolves(resources, h),
         \A s \in Slots : slot[s].resource # h, NEW r, r = Free(resources, h)
  PROVE  /\ ViewsFit(With(r)) /\ ~ Resolves(r, h)
         /\ \A g : g # h => (g \in Handles => (Resolves(r, g) <=> Resolves(resources, g)))
         /\ \A i \in 1 .. Len(r.slots) : r.slots[i].alive =>
              /\ Handle(i, r.slots[i].generation) # h
              /\ i \in 1 .. Len(resources.slots) /\ resources.slots[i].alive
              /\ r.slots[i].generation = resources.slots[i].generation
  <1> DEFINE q == resources
             j == h.index
  <1>1. /\ RegistryFits(q) /\ slot \in [Slots -> Nodes] /\ WellFormed(q, Objects)
        /\ \A i \in 1 .. Len(q.slots) : q.slots[i].alive => Listed(Now, i)
        /\ \A s \in Slots : slot[s].resource # NoResource => Resolves(q, slot[s].resource)
        /\ DOMAIN q.slots = 1 .. Len(q.slots) /\ Len(q.slots) \in Nat
        /\ q.slots \in [1 .. Len(q.slots) -> Slot(Objects)] /\ NoSlot \in Objects
    <2>1. q.slots \in Seq(Slot(Objects)) /\ WellFormed(q, Objects)
      BY DEF ViewsFit, RegistryFits, Now, WellFormed
    <2>2. q.slots \in [1 .. Len(q.slots) -> Slot(Objects)]
      BY <2>1
    <2>3. QED
      BY <2>1, <2>2, Parts DEF ViewsFit, RegistryFits, Now, Objects
  <1>2. /\ j \in 1 .. Len(q.slots) /\ q.slots[j].alive /\ q.slots[j].generation = h.generation
        /\ h = Handle(h.index, h.generation) /\ h.index \in Nat /\ h.generation \in Nat
    BY <1>1 DEF Resolves, Handles, Handle
  <1> DEFINE gone == [q.slots[j] EXCEPT !.alive = FALSE, !.obj = NoObject]
  <1>3. r.slots = [q.slots EXCEPT ![j] = gone]
    <2>1. r.slots = [q.slots EXCEPT ![j].alive = FALSE, ![j].obj = NoObject]
      BY DEF Free
    <2>2. QED
      BY <1>1, <1>2, <2>1
  <1>4. WellFormed(r, Objects)
    <2>1. WellFormed(Free(q, Handle(h.index, h.generation)), Objects)
      BY <1>1, <1>2, StaysWellFormed
    <2>2. QED
      BY <1>2, <2>1
  <1>5. ~ gone.alive /\ gone.obj = NoObject /\ gone.generation = h.generation
    <2>1. q.slots[j] \in [obj : Objects \cup {NoObject}, generation : Nat \ {0}, alive : BOOLEAN]
      BY <1>1, <1>2 DEF Slot
    <2>2. \A x \in [obj : Objects \cup {NoObject}, generation : Nat \ {0}, alive : BOOLEAN] :
            LET y == [x EXCEPT !.alive = FALSE, !.obj = NoObject]
            IN ~ y.alive /\ y.obj = NoObject /\ y.generation = x.generation
      OBVIOUS
    <2>3. QED
      BY <1>2, <2>1, <2>2
  <1> HIDE DEF gone
  <1>6. /\ DOMAIN r.slots = 1 .. Len(r.slots) /\ Len(r.slots) = Len(q.slots)
        /\ r.slots[j] = gone
        /\ \A i \in 1 .. Len(q.slots) : i # j => r.slots[i] = q.slots[i]
    <2>1. Len(r.slots) \in Nat /\ DOMAIN r.slots = 1 .. Len(r.slots)
      BY <1>4, Parts
    <2>2. DOMAIN r.slots = 1 .. Len(q.slots)
      BY <1>1, <1>3
    <2>3. Len(r.slots) = Len(q.slots)
      BY <1>1, <2>1, <2>2
    <2>4. QED
      BY <1>1, <1>2, <1>3, <2>1, <2>3
  <1>7. ~ Resolves(r, h)
    BY <1>5, <1>6 DEF Resolves
  <1>8. ASSUME NEW g \in Handles, g # h PROVE Resolves(r, g) <=> Resolves(q, g)
    <2>1. CASE g.index = j
      <3>1. g.generation # h.generation
        BY <1>8, <2>1 DEF Handles
      <3>2. ~ Resolves(r, g)
        BY <1>5, <1>6, <2>1 DEF Resolves
      <3>3. ~ Resolves(q, g)
        BY <1>2, <2>1, <3>1 DEF Resolves
      <3>4. QED
        BY <3>2, <3>3
    <2>2. CASE g.index # j
      BY <1>1, <1>6, <2>2 DEF Resolves
    <2>3. QED
      BY <2>1, <2>2
  <1>9. RegistryFits(r)
    <2>1. ASSUME NEW i \in 1 .. Len(r.slots)
          PROVE  /\ r.slots[i].generation \in 1 .. MaxGeneration
                 /\ r.slots[i].obj \in IF r.slots[i].alive THEN Objects ELSE {NoObject}
      <3>1. CASE i = j
        BY <1>1, <1>2, <1>5, <1>6, <3>1 DEF RegistryFits
      <3>2. CASE i # j
        BY <1>1, <1>6, <3>2 DEF RegistryFits
      <3>3. QED
        BY <3>1, <3>2
    <2>2. QED
      BY <1>1, <1>4, <1>6, <2>1 DEF RegistryFits
  <1>10. \A s \in Slots : slot[s].resource # NoResource => Resolves(r, slot[s].resource)
    <2>1. \A s \in Slots : slot[s].resource \in Handles
      BY <1>1 DEF Nodes
    <2>2. QED
      BY <1>1, <1>8, <2>1
  <1>11. ASSUME NEW i \in 1 .. Len(r.slots), r.slots[i].alive PROVE Listed(With(r), i) /\ i # j
    <2>1. i # j /\ i \in 1 .. Len(q.slots) /\ r.slots[i] = q.slots[i]
      BY <1>5, <1>6, <1>11
    <2>2. PICK n \in 0 .. Cardinality(Slots) : \E p \in [1 .. n -> Slots] : AsListed(Now, i, n, p)
      BY <1>1, <1>11, <2>1 DEF Listed
    <2>3. PICK p \in [1 .. n -> Slots] : AsListed(Now, i, n, p)
      BY <2>2
    <2>4. AsListed(With(r), i, n, p)
      BY <2>1, <2>3 DEF AsListed, With, Now
    <2>5. QED
      BY <2>1, <2>4 DEF Listed
  <1>12. ViewsFit(With(r))
    BY <1>1, <1>9, <1>10, <1>11 DEF ViewsFit, With
  <1>13. ASSUME NEW i \in 1 .. Len(r.slots), r.slots[i].alive
         PROVE  /\ Handle(i, r.slots[i].generation) # h
                /\ i \in 1 .. Len(q.slots) /\ q.slots[i].alive
                /\ r.slots[i].generation = q.slots[i].generation
    BY <1>2, <1>6, <1>11, <1>13 DEF Handle
  <1>14. QED
    BY <1>7, <1>8, <1>12, <1>13

(* A resource without views has no first view. *)
LEMMA BareFits ==
  ASSUME ViewsFit(Now), NEW h \in Handles, Resolves(resources, h),
         \A s \in Slots : slot[s].resource # h
  PROVE  /\ \A s \in Slots : slot[s].resource.index # h.index
         /\ Object(resources, h) = NoSlot
         /\ [resources EXCEPT !.slots[h.index].obj = NoSlot] = resources
  <1>1. /\ RegistryFits(resources) /\ slot \in [Slots -> Nodes]
        /\ \A i \in 1 .. Len(resources.slots) : resources.slots[i].alive => Listed(Now, i)
        /\ \A s \in Slots : slot[s].resource # NoResource => Resolves(resources, slot[s].resource)
        /\ DOMAIN resources.slots = 1 .. Len(resources.slots) /\ Len(resources.slots) \in Nat
        /\ resources \in [slots : Seq(Slot(Objects)), freelist : Seq(Nat)]
        /\ resources.slots \in [1 .. Len(resources.slots) -> Slot(Objects)]
    <2>1. resources.slots \in Seq(Slot(Objects)) /\ WellFormed(resources, Objects)
      BY DEF ViewsFit, RegistryFits, Now, WellFormed
    <2>2. resources.slots \in [1 .. Len(resources.slots) -> Slot(Objects)]
      BY <2>1
    <2>3. QED
      BY <2>1, <2>2, Parts DEF ViewsFit, RegistryFits, Now, WellFormed
  <1>2. h.index \in 1 .. Len(resources.slots) /\ resources.slots[h.index].alive
    BY <1>1 DEF Resolves
  <1>3. \A s \in Slots : slot[s].resource.index # h.index
    <2>1. ASSUME NEW s \in Slots, slot[s].resource.index = h.index PROVE FALSE
      <3>1. slot[s].resource # NoResource
        BY <1>2, <2>1 DEF NoResource, Handle
      <3>2. slot[s].resource \in Handles /\ slot[s].resource.generation = h.generation
        BY <1>1, <2>1, <3>1 DEF Resolves, Nodes
      <3>3. slot[s].resource = h
        BY <2>1, <3>2 DEF Handles
      <3>4. QED
        BY <3>3
    <2>2. QED
      BY <2>1
  <1>4. resources.slots[h.index].obj = NoSlot
    <2>1. PICK n \in 0 .. Cardinality(Slots) : \E p \in [1 .. n -> Slots] : AsListed(Now, h.index, n, p)
      BY <1>1, <1>2 DEF Listed
    <2>2. PICK p \in [1 .. n -> Slots] : AsListed(Now, h.index, n, p)
      BY <2>1
    <2>3. n = 0
      <3>1. CASE n # 0
        <4>1. 1 \in 1 .. n /\ p[1] \in Slots
          BY <3>1
        <4>2. QED
          BY <1>3, <2>2, <4>1 DEF AsListed, Now
      <3>2. QED
        BY <3>1
    <2>4. QED
      BY <2>2, <2>3 DEF AsListed, Now
  <1>5. [resources EXCEPT !.slots[h.index].obj = NoSlot] = resources
    <2> DEFINE x == resources.slots[h.index]
    <2>1. x \in [obj : Objects \cup {NoObject}, generation : Nat \ {0}, alive : BOOLEAN]
      BY <1>1, <1>2 DEF Slot
    <2>2. \A y \in [obj : Objects \cup {NoObject}, generation : Nat \ {0}, alive : BOOLEAN] :
            y.obj = NoSlot => [y EXCEPT !.obj = NoSlot] = y
      OBVIOUS
    <2>3. [x EXCEPT !.obj = NoSlot] = x
      BY <1>4, <2>1, <2>2
    <2>4. [resources.slots EXCEPT ![h.index] = x] = resources.slots
      BY <1>1, <1>2
    <2>5. [resources EXCEPT !.slots[h.index].obj = NoSlot]
            = [resources EXCEPT !.slots = [resources.slots EXCEPT ![h.index] = [x EXCEPT !.obj = NoSlot]]]
      BY <1>1
    <2> HIDE DEF x
    <2>6. QED
      BY <1>1, <2>3, <2>4, <2>5
  <1>6. QED
    BY <1>3, <1>4, <1>5 DEF Object
-----------------------------------------------------------------------------
(* The sampler cache.                                                      *)
Having(d) == {s \in SamplerSlots : sampler[s] = d}

SamplersFit ==
  /\ sampler \in [SamplerSlots -> Descriptions \cup {NoSampler}]
  /\ cache \in [Descriptions -> Nat]
  /\ \A d \in Descriptions : cache[d] = Cardinality(Having(d))
  /\ Distinct(cache) <= SamplerBudget

(* A set that gains or loses an element, counted. *)
LEMMA OneMoreOrLess ==
  ASSUME NEW S, IsFiniteSet(S), NEW x
  PROVE  /\ IsFiniteSet(S \cup {x}) /\ IsFiniteSet(S \ {x}) /\ Cardinality(S) \in Nat
         /\ x \notin S => Cardinality(S \cup {x}) = Cardinality(S) + 1
         /\ x \in S => Cardinality(S \ {x}) = Cardinality(S) - 1
  BY FS_AddElement, FS_RemoveElement, FS_CardinalityType, FS_Subset

(* Releasing the sampler of a slot counts the other slots. *)
LEMMA ReleasedCacheCounts ==
  ASSUME SamplersFit, NEW s \in SamplerSlots
  PROVE  /\ ReleasedCache(s) \in [Descriptions -> Nat]
         /\ \A d \in Descriptions : ReleasedCache(s)[d] = Cardinality(Having(d) \ {s})
         /\ Distinct(ReleasedCache(s)) <= SamplerBudget
  <1> DEFINE c == ReleasedCache(s)
             Some(k) == {d \in Descriptions : k[d] > 0}
  <1>1. ASSUME NEW d \in Descriptions
        PROVE  c[d] \in Nat /\ c[d] = Cardinality(Having(d) \ {s}) /\ c[d] <= cache[d]
    <2>1. IsFiniteSet(Having(d))
      BY Assumed, FS_Subset DEF Having
    <2>2. c[d] = (IF d = sampler[s] THEN cache[d] - 1 ELSE cache[d]) /\ cache[d] = Cardinality(Having(d))
      BY DEF SamplersFit, ReleasedCache
    <2>3. d = sampler[s] <=> s \in Having(d)
      BY DEF Having
    <2>4. CASE s \in Having(d)
      <3>1. Cardinality(Having(d) \ {s}) = Cardinality(Having(d)) - 1
        BY <2>1, <2>4, FS_RemoveElement
      <3>2. Cardinality(Having(d) \ {s}) \in Nat /\ Cardinality(Having(d)) \in Nat
        BY <2>1, FS_CardinalityType, FS_Subset
      <3>3. QED
        BY <2>2, <2>3, <2>4, <3>1, <3>2
    <2>5. CASE s \notin Having(d)
      <3>1. Having(d) \ {s} = Having(d)
        BY <2>5
      <3>2. Cardinality(Having(d)) \in Nat
        BY <2>1, FS_CardinalityType
      <3>3. QED
        BY <2>2, <2>3, <2>5, <3>1, <3>2
    <2>6. QED
      BY <2>4, <2>5
  <1>2. c \in [Descriptions -> Nat]
    <2>1. c = [d \in Descriptions |-> c[d]]
      BY DEF ReleasedCache
    <2> HIDE DEF c
    <2>2. QED
      BY <1>1, <2>1
  <1>3. Distinct(c) <= SamplerBudget
    <2>1. cache \in [Descriptions -> Nat] /\ Distinct(cache) <= SamplerBudget
      BY DEF SamplersFit
    <2>2. Distinct(cache) = Cardinality(Some(cache)) /\ Distinct(c) = Cardinality(Some(c))
      BY <1>2, <2>1 DEF Distinct
    <2>3. Some(c) \subseteq Some(cache) /\ IsFiniteSet(Some(cache)) /\ IsFiniteSet(Some(c))
      <3>1. \A d \in Descriptions : c[d] > 0 => cache[d] > 0
        <4>1. TAKE d \in Descriptions
        <4>2. c[d] \in Nat /\ c[d] <= cache[d] /\ cache[d] \in Nat
          BY <1>1, <2>1
        <4> HIDE DEF c
        <4>3. QED
          BY <4>2
      <3> HIDE DEF c
      <3>2. QED
        BY <3>1, Assumed, FS_Subset
    <2>4. Cardinality(Some(c)) <= Cardinality(Some(cache))
      <3> HIDE DEF c, Some
      <3>1. QED
        BY <2>3, FS_Subset
    <2>5. Cardinality(Some(c)) \in Nat /\ Cardinality(Some(cache)) \in Nat /\ SamplerBudget \in Nat
      <3> HIDE DEF c, Some
      <3>1. QED
        BY <2>3, FS_CardinalityType, Assumed
    <2> HIDE DEF c, Some
    <2>6. QED
      BY <2>1, <2>2, <2>4, <2>5
  <1>4. QED
    BY <1>1, <1>2, <1>3

(* The budget is not exceeded by a sampler it allows. *)
LEMMA AcquiredFits ==
  ASSUME NEW c \in [Descriptions -> Nat], Distinct(c) <= SamplerBudget,
         NEW d \in Descriptions, CanAcquire(c, d)
  PROVE  Distinct([c EXCEPT ![d] = @ + 1]) <= SamplerBudget
  <1> DEFINE e == [c EXCEPT ![d] = @ + 1]
             Some(k) == {x \in Descriptions : k[x] > 0}
  <1>1. /\ e \in [Descriptions -> Nat] /\ e[d] = c[d] + 1
        /\ \A x \in Descriptions : x # d => e[x] = c[x]
    OBVIOUS
  <1>2. Distinct(c) = Cardinality(Some(c)) /\ Distinct(e) = Cardinality(Some(e))
    BY <1>1 DEF Distinct
  <1>3. IsFiniteSet(Some(c)) /\ SamplerBudget \in Nat
    BY Assumed, FS_Subset
  <1>4. Some(e) = Some(c) \cup {d}
    <2> HIDE DEF e
    <2>1. QED
      BY <1>1
  <1>5. CASE c[d] > 0
    <2>1. Some(e) = Some(c)
      BY <1>4, <1>5
    <2>2. QED
      BY <1>2, <2>1
  <1>6. CASE ~ (c[d] > 0)
    <2>1. d \notin Some(c) /\ Distinct(c) < SamplerBudget
      BY <1>6 DEF CanAcquire
    <2>2. Cardinality(Some(c) \cup {d}) = Cardinality(Some(c)) + 1 /\ Cardinality(Some(c)) \in Nat
      <3> HIDE DEF Some
      <3>1. QED
        BY <1>3, <2>1, OneMoreOrLess
    <2>3. Distinct(e) <= SamplerBudget
      <3> HIDE DEF Some, e
      <3>1. QED
        BY <1>2, <1>3, <1>4, <2>1, <2>2
    <2>4. QED
      BY <2>3
  <1>7. QED
    BY <1>5, <1>6

(* Every step keeps the cache exact. *)
LEMMA SamplersStep ==
  ASSUME SamplersFit, [Next]_vars
  PROVE  SamplersFit'
  <1>1. CASE WriteSamplers
    <2>1. ASSUME NEW s \in SamplerSlots, NEW d \in Descriptions, CreateSampler(s, d)
          PROVE  SamplersFit'
      <3> DEFINE c == ReleasedCache(s)
      <3>1. /\ c \in [Descriptions -> Nat] /\ Distinct(c) <= SamplerBudget
            /\ \A x \in Descriptions : c[x] = Cardinality(Having(x) \ {s})
        BY ReleasedCacheCounts
      <3> HIDE DEF c
      <3>2. sampler \in [SamplerSlots -> Descriptions \cup {NoSampler}] /\ NoSampler \notin Descriptions
        BY Assumed DEF SamplersFit
      <3>3. CASE CanAcquire(c, d) /\ cache' = [c EXCEPT ![d] = @ + 1] /\ sampler' = [sampler EXCEPT ![s] = d]
        <4>1. /\ Having(d)' = (Having(d) \ {s}) \cup {s}
              /\ \A x \in Descriptions : x # d => Having(x)' = Having(x) \ {s}
          BY <3>2, <3>3 DEF Having
        <4>2. Cardinality(Having(d)') = Cardinality(Having(d) \ {s}) + 1
          <5>1. IsFiniteSet(Having(d) \ {s}) /\ s \notin Having(d) \ {s}
            BY Assumed, FS_Subset DEF Having
          <5>2. QED
            BY <4>1, <5>1, OneMoreOrLess
        <4>3. \A x \in Descriptions : cache'[x] = Cardinality(Having(x)')
          BY <3>1, <3>3, <4>1, <4>2
        <4>4. Distinct(cache') <= SamplerBudget
          BY <3>1, <3>3, AcquiredFits
        <4>5. cache' \in [Descriptions -> Nat] /\ sampler' \in [SamplerSlots -> Descriptions \cup {NoSampler}]
          BY <3>1, <3>2, <3>3
        <4>6. QED
          BY <4>3, <4>4, <4>5 DEF SamplersFit
      <3>4. CASE cache' = c /\ sampler' = [sampler EXCEPT ![s] = NoSampler]
        <4>1. \A x \in Descriptions : Having(x)' = Having(x) \ {s}
          BY <3>2, <3>4 DEF Having
        <4>2. sampler' \in [SamplerSlots -> Descriptions \cup {NoSampler}]
          BY <3>2, <3>4
        <4>3. QED
          BY <3>1, <3>4, <4>1, <4>2 DEF SamplersFit
      <3>5. QED
        BY <2>1, <3>3, <3>4 DEF CreateSampler, c
    <2>2. CASE DestroySamplerHeap
      <3>1. \A d \in Descriptions : cache[d] = Cardinality(Having(d)) /\ Cardinality(Having(d)) \in Nat
        BY DEF SamplersFit
      <3>2. cache' = [d \in Descriptions |-> cache[d] - Cardinality(Having(d))]
        BY <2>2 DEF DestroySamplerHeap, Having
      <3>3. cache' = [d \in Descriptions |-> 0]
        BY <3>1, <3>2
      <3>4. sampler' = [s \in SamplerSlots |-> NoSampler]
        BY <2>2 DEF DestroySamplerHeap
      <3>5. \A d \in Descriptions : Having(d)' = {}
        BY <3>4, Assumed DEF Having
      <3>6. {d \in DOMAIN cache' : cache'[d] > 0} = {}
        BY <3>3
      <3>7. Cardinality({}) = 0
        BY FS_EmptySet
      <3>8. Distinct(cache') = 0
        BY <3>6, <3>7 DEF Distinct
      <3>9. cache' \in [Descriptions -> Nat] /\ \A d \in Descriptions : cache'[d] = Cardinality(Having(d)')
        BY <3>3, <3>5, <3>7
      <3>10. sampler' \in [SamplerSlots -> Descriptions \cup {NoSampler}]
        BY <3>4
      <3>11. QED
        BY <3>8, <3>9, <3>10, Assumed DEF SamplersFit
    <2>3. QED
      BY <1>1, <2>1, <2>2 DEF WriteSamplers
  <1>2. CASE UNCHANGED samplers
    BY <1>2 DEF samplers, SamplersFit, Having, Distinct
  <1>3. QED
    BY <1>1, <1>2 DEF Next, vars, samplers, CreateResource, CreateView, CreateNullView,
      CreateDescriptorHeap, DestroyDescriptorHeap, DestroyBuffer, DestroySwapchain, ReleaseViews,
      DestroyResource, FreeHandle, ResizeSwapchain, PopulateImage, ResizeSucceeds, ResizeFails

(* The cache starts empty. *)
LEMMA SamplersInit == Init => SamplersFit
  <1> SUFFICES ASSUME Init PROVE SamplersFit
    OBVIOUS
  <1>1. sampler = [s \in SamplerSlots |-> NoSampler] /\ cache = [d \in Descriptions |-> 0]
    BY DEF Init
  <1>2. \A d \in Descriptions : Having(d) = {}
    BY <1>1, Assumed DEF Having
  <1>3. {d \in DOMAIN cache : cache[d] > 0} = {}
    BY <1>1
  <1>4. Cardinality({}) = 0
    BY FS_EmptySet
  <1>5. Distinct(cache) = 0
    BY <1>3, <1>4 DEF Distinct
  <1>6. QED
    <2>1. /\ sampler \in [SamplerSlots -> Descriptions \cup {NoSampler}]
          /\ cache \in [Descriptions -> Nat]
      BY <1>1
    <2>2. \A d \in Descriptions : cache[d] = Cardinality(Having(d))
      BY <1>1, <1>2, <1>4
    <2>3. 0 <= SamplerBudget
      BY Assumed
    <2>4. QED
      BY <1>5, <2>1, <2>2, <2>3 DEF SamplersFit

(* The cache of samplers is exact, whatever is written, and however often: *)
(* the samplers of the slots, counted, and no more of them than the device *)
(* may have.                                                               *)
THEOREM SamplersAlwaysExact == Spec => []SamplersExact
  <1>1. SamplersFit => SamplersExact
    BY DEF SamplersFit, SamplersExact, Having
  <1>2. QED
    BY <1>1, SamplersInit, SamplersStep, PTL DEF Spec

-----------------------------------------------------------------------------
(* Who a resource belongs to.                                              *)
Once(q) == \A k, l \in 1 .. Len(q) : q[k] = q[l] => k = l

Populatings == [step : {"populating"}, todo : {<<>>}, swapchain : {TRUE}, restore : Seq(Handles)]
Destroyings ==
  [step : {"releasing", "destroying", "freeing"}, releases : BOOLEAN,
   todo : Seq(Handles), swapchain : BOOLEAN, restore : Seq(Handles)]

(* What a call holds, each resource once. *)
CallFits(c) ==
  \/ c = Idle
  \/ c \in Populatings /\ Once(c.restore)
  \/ /\ c \in Destroyings /\ c.todo # <<>>
     /\ c.step = "releasing" => c.releases
     /\ ~ c.swapchain => c.restore = <<>>
     /\ Once(c.todo) /\ Once(c.restore)
     /\ Range(c.todo) \cap Range(c.restore) = {}

Calls == {c \in {Idle} \cup Populatings \cup Destroyings : CallFits(c)}

HeldBy(c) == IF c.step = "idle" THEN {} ELSE Range(c.todo) \cup Range(c.restore)
WorksOn(c) == c.step # "idle" /\ c.swapchain

(* The images shown, as the calls c and the images im of the swapchain are. *)
ShownOf(c, im) ==
  IF \A t \in Threads : WorksOn(c[t]) => c[t].step = "populating" THEN Range(im) ELSE {}

(* The callers, who have o, the swapchain and the calls have nothing in    *)
(* common, and exactly the handles they have resolve in r.                 *)
OwnersFit(o, im, c, r) ==
  /\ o \subseteq Handles /\ im \in Seq(Handles) /\ Once(im)
  /\ c \in [Threads -> Calls]
  /\ \A t, u \in Threads : WorksOn(c[t]) /\ WorksOn(c[u]) => t = u
  /\ o \cap ShownOf(c, im) = {}
  /\ \A t \in Threads : (o \cup ShownOf(c, im)) \cap HeldBy(c[t]) = {}
  /\ \A t, u \in Threads : t # u => HeldBy(c[t]) \cap HeldBy(c[u]) = {}
  /\ \A h \in Handles :
       Resolves(r, h) <=>
         (h \in o \cup ShownOf(c, im) \/ \E t \in Threads : h \in HeldBy(c[t]))

(* Sequences whose elements are all different. *)
LEMMA RangeIn ==
  ASSUME NEW q, q \in Seq(Handles)
  PROVE  /\ Range(q) = {q[k] : k \in 1 .. Len(q)} /\ Range(q) \subseteq Handles
         /\ q = <<>> => Range(q) = {}
  <1>1. DOMAIN q = 1 .. Len(q) /\ \A k \in 1 .. Len(q) : q[k] \in Handles
    OBVIOUS
  <1>2. Range(q) = {q[k] : k \in 1 .. Len(q)}
    BY <1>1 DEF Range
  <1>3. q = <<>> => 1 .. Len(q) = {}
    OBVIOUS
  <1>4. Range(q) \subseteq Handles
    BY <1>1, <1>2
  <1>5. q = <<>> => Range(q) = {}
    BY <1>2, <1>3
  <1>6. QED
    BY <1>2, <1>4, <1>5

(* Without its first element ... *)
LEMMA RangeOfTail ==
  ASSUME NEW q, q \in Seq(Handles), Once(q), q # <<>>
  PROVE  /\ Head(q) \in Range(q) /\ Head(q) \in Handles /\ Tail(q) \in Seq(Handles)
         /\ Once(Tail(q)) /\ Range(Tail(q)) = Range(q) \ {Head(q)}
  <1>1. Range(q) = {q[k] : k \in 1 .. Len(q)} /\ Len(q) \in Nat
    BY RangeIn
  <1>2. /\ Head(q) = q[1] /\ 1 \in 1 .. Len(q) /\ Tail(q) \in Seq(Handles)
        /\ Len(Tail(q)) = Len(q) - 1 /\ q[1] \in Handles
        /\ \A k \in 1 .. Len(q) - 1 : Tail(q)[k] = q[k + 1]
    OBVIOUS
  <1>3. Range(Tail(q)) = {Tail(q)[k] : k \in 1 .. Len(q) - 1}
    BY <1>2, RangeIn
  <1>4. Once(Tail(q))
    BY <1>1, <1>2 DEF Once
  <1>5. ASSUME NEW x \in Range(q), x # Head(q) PROVE x \in Range(Tail(q))
    <2>1. PICK k \in 1 .. Len(q) : q[k] = x
      BY <1>1
    <2>2. k - 1 \in 1 .. Len(q) - 1 /\ k - 1 + 1 = k
      BY <1>1, <1>2, <1>5, <2>1
    <2>3. QED
      BY <1>2, <1>3, <2>1, <2>2
  <1>6. ASSUME NEW x \in Range(Tail(q)) PROVE x \in Range(q) /\ x # Head(q)
    <2>1. PICK k \in 1 .. Len(q) - 1 : Tail(q)[k] = x
      BY <1>3
    <2>2. x = q[k + 1] /\ k + 1 \in 1 .. Len(q) /\ k + 1 # 1
      BY <1>1, <1>2, <2>1
    <2>3. QED
      BY <1>1, <1>2, <2>2 DEF Once
  <1>7. Range(Tail(q)) = Range(q) \ {Head(q)}
    BY <1>5, <1>6
  <1>8. Head(q) \in Range(q)
    BY <1>1, <1>2
  <1>9. QED
    BY <1>2, <1>4, <1>7, <1>8

(* ... and with another at its end. *)
LEMMA RangeOfAppend ==
  ASSUME NEW q, q \in Seq(Handles), Once(q), NEW x \in Handles, x \notin Range(q)
  PROVE  /\ Append(q, x) \in Seq(Handles) /\ Once(Append(q, x))
         /\ Range(Append(q, x)) = Range(q) \cup {x}
  <1>1. Range(q) = {q[k] : k \in 1 .. Len(q)} /\ Len(q) \in Nat
    BY RangeIn
  <1>2. /\ Append(q, x) \in Seq(Handles) /\ Len(Append(q, x)) = Len(q) + 1
        /\ \A k \in 1 .. Len(q) : Append(q, x)[k] = q[k]
        /\ Append(q, x)[Len(q) + 1] = x
    OBVIOUS
  <1>3. Range(Append(q, x)) = {Append(q, x)[k] : k \in 1 .. Len(q) + 1}
    BY <1>2, RangeIn
  <1>4. \A k \in 1 .. Len(q) + 1 : k \in 1 .. Len(q) \/ k = Len(q) + 1
    BY <1>1
  <1>5. Once(Append(q, x))
    BY <1>1, <1>2, <1>4 DEF Once
  <1>6. Len(q) + 1 \in 1 .. Len(q) + 1 /\ 1 .. Len(q) \subseteq 1 .. Len(q) + 1
    BY <1>1
  <1>7. Range(Append(q, x)) = Range(q) \cup {x}
    BY <1>1, <1>2, <1>3, <1>4, <1>6
  <1>8. QED
    BY <1>2, <1>5, <1>7

(* The shapes of calls. *)
LEMMA ShapesOfCalls ==
  ASSUME NEW c \in Calls
  PROVE  /\ CallFits(c)
         /\ c.step = "idle" => c = Idle
         /\ c.step = "populating" => c \in Populatings /\ Once(c.restore)
         /\ c.step \in {"releasing", "destroying", "freeing"} =>
              /\ c \in Destroyings /\ c.todo # <<>>
              /\ c.step = "releasing" => c.releases
              /\ ~ c.swapchain => c.restore = <<>>
              /\ Once(c.todo) /\ Once(c.restore)
              /\ Range(c.todo) \cap Range(c.restore) = {}
         /\ c.step \in {"idle", "populating", "releasing", "destroying", "freeing"}
         /\ HeldBy(c) \subseteq Handles
  <1>1. CallFits(c)
    BY DEF Calls
  <1>2. CASE c = Idle
    BY <1>1, <1>2 DEF Idle, HeldBy
  <1>3. CASE c \in Populatings /\ Once(c.restore)
    <2>1. c.step = "populating" /\ c.todo = <<>> /\ c.restore \in Seq(Handles)
      BY <1>3 DEF Populatings
    <2>2. Once(c.todo) /\ c.todo \in Seq(Handles)
      BY <2>1 DEF Once
    <2>3. HeldBy(c) \subseteq Handles
      BY <2>1, <2>2, RangeIn DEF HeldBy
    <2>4. QED
      BY <1>1, <1>3, <2>1, <2>3
  <1>4. CASE c \in Destroyings /\ ~ (c = Idle) /\ ~ (c \in Populatings /\ Once(c.restore))
    <2>1. /\ c.step \in {"releasing", "destroying", "freeing"}
          /\ c.todo \in Seq(Handles) /\ c.restore \in Seq(Handles)
      BY <1>4 DEF Destroyings
    <2>2. /\ c.todo # <<>>
          /\ c.step = "releasing" => c.releases
          /\ ~ c.swapchain => c.restore = <<>>
          /\ Once(c.todo) /\ Once(c.restore)
          /\ Range(c.todo) \cap Range(c.restore) = {}
      BY <1>1, <1>4 DEF CallFits
    <2>3. HeldBy(c) \subseteq Handles
      BY <2>1, <2>2, RangeIn DEF HeldBy
    <2>4. c.step # "idle" /\ c.step # "populating"
      BY <2>1
    <2> HIDE DEF Populatings
    <2>5. QED
      BY <1>1, <1>4, <2>1, <2>2, <2>3, <2>4
  <1>5. QED
    BY <1>1, <1>2, <1>3, <1>4 DEF CallFits

(* A call that destroys, at its first step: what it has ... *)
LEMMA DestroyingHas ==
  ASSUME NEW step \in {"releasing", "destroying"}, NEW todo, NEW swapchain \in BOOLEAN, NEW restore,
         NEW c, c = Destroying(step, todo, swapchain, restore)
  PROVE  /\ todo = <<>> => c = Idle /\ HeldBy(c) = {} /\ ~ WorksOn(c) /\ c.step = "idle"
         /\ todo # <<>> =>
              /\ HeldBy(c) = Range(todo) \cup Range(restore)
              /\ c.step = step /\ (c.releases <=> step = "releasing")
              /\ c.todo = todo /\ c.restore = restore
              /\ WorksOn(c) <=> swapchain
  <1>1. CASE todo = <<>>
    BY <1>1 DEF Destroying, HeldBy, WorksOn, Idle
  <1>2. CASE todo # <<>>
    <2>1. c = [step |-> step, releases |-> step = "releasing",
               todo |-> todo, swapchain |-> swapchain, restore |-> restore]
      BY <1>2 DEF Destroying
    <2>2. /\ c.step = step /\ c.swapchain = swapchain /\ c.releases = (step = "releasing")
          /\ c.todo = todo /\ c.restore = restore
      BY <2>1
    <2>3. QED
      BY <1>2, <2>2 DEF HeldBy, WorksOn
  <1>3. QED
    BY <1>1, <1>2

(* ... and that it keeps to what calls are ... *)
LEMMA DestroyingFits ==
  ASSUME NEW step \in {"releasing", "destroying"}, NEW todo \in Seq(Handles), Once(todo),
         NEW swapchain \in BOOLEAN, NEW restore \in Seq(Handles), Once(restore),
         ~ swapchain => restore = <<>>, Range(todo) \cap Range(restore) = {},
         NEW c, c = Destroying(step, todo, swapchain, restore)
  PROVE  c \in Calls
  <1>1. CASE todo = <<>>
    <2>1. c = Idle
      BY <1>1 DEF Destroying
    <2>2. QED
      BY <2>1 DEF Calls, CallFits
  <1>2. CASE todo # <<>>
    <2>1. c = [step |-> step, releases |-> step = "releasing",
               todo |-> todo, swapchain |-> swapchain, restore |-> restore]
      BY <1>2 DEF Destroying
    <2>2. /\ c.step = step /\ c.swapchain = swapchain /\ c.releases = (step = "releasing")
          /\ c.todo = todo /\ c.restore = restore
      BY <2>1
    <2>3. c \in Destroyings
      BY <2>1 DEF Destroyings
    <2>4. CallFits(c)
      BY <1>2, <2>2, <2>3 DEF CallFits
    <2>5. QED
      BY <2>3, <2>4 DEF Calls
  <1>3. QED
    BY <1>1, <1>2

Stepped(c, step) == [c EXCEPT !.step = step]

(* ... at a later one ... *)
LEMMA StepTaken ==
  ASSUME NEW c \in Calls, c \in Destroyings, c.todo # <<>>,
         NEW step \in {"destroying", "freeing"}, NEW d, d = Stepped(c, step)
  PROVE  /\ d \in Calls /\ HeldBy(d) = HeldBy(c) /\ (WorksOn(d) <=> WorksOn(c))
         /\ d.step = step /\ d.todo = c.todo /\ (d.releases <=> c.releases)
  <1>1. /\ d \in Destroyings /\ d.step = step /\ d.todo = c.todo /\ (d.releases <=> c.releases)
        /\ d.swapchain = c.swapchain /\ d.restore = c.restore
        /\ c.step \in {"releasing", "destroying", "freeing"}
    BY DEF Destroyings, Stepped
  <1>2. CallFits(d)
    BY <1>1, ShapesOfCalls DEF CallFits
  <1>3. QED
    BY <1>1, <1>2 DEF Calls, HeldBy, WorksOn

(* ... and when it turns to its next resource. *)
LEMMA NextOne ==
  ASSUME NEW c \in Calls, c \in Destroyings, c.todo # <<>>
  PROVE  /\ Head(c.todo) \in HeldBy(c) /\ Head(c.todo) \in Handles
         /\ Head(c.todo) \notin Range(c.restore)
         /\ Range(c.todo) \subseteq HeldBy(c) /\ Range(c.restore) \subseteq HeldBy(c)
         /\ Tail(c.todo) = <<>> => HeldBy(c) = {Head(c.todo)} \cup Range(c.restore)
         /\ Tail(c.todo) # <<>> =>
              \A step \in {"releasing", "destroying"} :
                LET d == [c EXCEPT !.todo = Tail(c.todo), !.step = step]
                IN (step = "releasing" => c.releases) =>
                   /\ d \in Calls /\ HeldBy(d) = HeldBy(c) \ {Head(c.todo)}
                   /\ WorksOn(d) <=> WorksOn(c)
                   /\ d.step = step /\ d.todo = Tail(c.todo) /\ d.releases = c.releases
                   /\ Range(d.todo) \subseteq Range(c.todo) /\ Head(d.todo) \in Range(c.todo)
  <1>1. /\ c.step \in {"releasing", "destroying", "freeing"}
        /\ c.todo \in Seq(Handles) /\ c.restore \in Seq(Handles)
    BY DEF Destroyings
  <1>2. /\ ~ c.swapchain => c.restore = <<>>
        /\ Once(c.todo) /\ Once(c.restore) /\ Range(c.todo) \cap Range(c.restore) = {}
    BY <1>1, ShapesOfCalls
  <1>3. /\ Head(c.todo) \in Range(c.todo) /\ Head(c.todo) \in Handles /\ Tail(c.todo) \in Seq(Handles)
        /\ Once(Tail(c.todo)) /\ Range(Tail(c.todo)) = Range(c.todo) \ {Head(c.todo)}
    BY <1>1, <1>2, RangeOfTail
  <1>4. HeldBy(c) = Range(c.todo) \cup Range(c.restore)
    BY <1>1 DEF HeldBy
  <1>5. Tail(c.todo) = <<>> => Range(Tail(c.todo)) = {}
    BY <1>3, RangeIn
  <1>6. ASSUME Tail(c.todo) # <<>>, NEW step \in {"releasing", "destroying"},
               step = "releasing" => c.releases
        PROVE  LET d == [c EXCEPT !.todo = Tail(c.todo), !.step = step]
               IN /\ d \in Calls /\ HeldBy(d) = HeldBy(c) \ {Head(c.todo)}
                  /\ WorksOn(d) <=> WorksOn(c)
                  /\ d.step = step /\ d.todo = Tail(c.todo) /\ d.releases = c.releases
                  /\ Range(d.todo) \subseteq Range(c.todo) /\ Head(d.todo) \in Range(c.todo)
    <2> DEFINE d == [c EXCEPT !.todo = Tail(c.todo), !.step = step]
    <2>1. /\ d \in Destroyings /\ d.step = step /\ d.todo = Tail(c.todo) /\ d.releases = c.releases
          /\ d.swapchain = c.swapchain /\ d.restore = c.restore
      BY <1>1, <1>3 DEF Destroyings
    <2> HIDE DEF d
    <2>2. Range(d.todo) = Range(c.todo) \ {Head(c.todo)}
      BY <1>3, <2>1
    <2>3. CallFits(d)
      <3>1. Range(d.todo) \cap Range(d.restore) = {}
        BY <1>2, <2>1, <2>2
      <3>2. QED
        BY <1>2, <1>3, <1>6, <2>1, <3>1 DEF CallFits
    <2>4. d \in Calls
      BY <2>1, <2>3 DEF Calls
    <2>5. HeldBy(d) = HeldBy(c) \ {Head(c.todo)}
      <3>1. HeldBy(d) = Range(d.todo) \cup Range(d.restore)
        BY <2>1 DEF HeldBy
      <3>2. QED
        BY <1>2, <1>3, <1>4, <2>1, <2>2, <3>1
    <2>6. Head(d.todo) \in Range(c.todo)
      <3>1. Head(Tail(c.todo)) \in Range(Tail(c.todo))
        BY <1>3, <1>6, RangeOfTail
      <3>2. QED
        BY <1>3, <2>1, <3>1
    <2>7. WorksOn(d) <=> WorksOn(c)
      BY <1>1, <2>1 DEF WorksOn
    <2>8. QED
      BY <2>1, <2>2, <2>4, <2>5, <2>6, <2>7 DEF d
  <1>7. QED
    BY <1>2, <1>3, <1>4, <1>5, <1>6

-----------------------------------------------------------------------------
(* One thread's call changes, and with it who the resources belong to.     *)
LEMMA ShownAfter ==
  ASSUME OwnersFit(owned, images, call, resources), NEW t \in Threads, NEW k \in Calls,
         call' = [call EXCEPT ![t] = k]
  PROVE  /\ WorksOn(call[t]) \/ (\A u \in Threads : ~ WorksOn(call[u])) =>
              ShownOf(call', images') = IF WorksOn(k) /\ k.step # "populating" THEN {} ELSE Range(images')
         /\ WorksOn(call[t]) =>
              ShownOf(call, images) = IF call[t].step # "populating" THEN {} ELSE Range(images)
         /\ (\A u \in Threads : ~ WorksOn(call[u])) => ShownOf(call, images) = Range(images)
         /\ ~ WorksOn(call[t]) /\ ~ WorksOn(k) => ShownOf(call', images) = ShownOf(call, images)
  <1>1. /\ call'[t] = k /\ \A u \in Threads : u # t => call'[u] = call[u]
        /\ \A u, v \in Threads : WorksOn(call[u]) /\ WorksOn(call[v]) => u = v
    BY DEF OwnersFit
  <1>2. ASSUME WorksOn(call[t]) \/ \A u \in Threads : ~ WorksOn(call[u])
        PROVE  ShownOf(call', images') = IF WorksOn(k) /\ k.step # "populating" THEN {} ELSE Range(images')
    <2>1. \A u \in Threads : u # t => ~ WorksOn(call'[u])
      BY <1>1, <1>2
    <2>2. QED
      BY <1>1, <2>1 DEF ShownOf
  <1>3. ASSUME WorksOn(call[t])
        PROVE  ShownOf(call, images) = IF call[t].step # "populating" THEN {} ELSE Range(images)
    BY <1>1, <1>3 DEF ShownOf
  <1>4. ASSUME ~ WorksOn(call[t]), ~ WorksOn(k) PROVE ShownOf(call', images) = ShownOf(call, images)
    <2>1. \A u \in Threads : (WorksOn(call'[u]) => call'[u].step = "populating")
                               <=> (WorksOn(call[u]) => call[u].step = "populating")
      BY <1>1, <1>4
    <2>2. QED
      BY <2>1 DEF ShownOf
  <1>5. ASSUME \A u \in Threads : ~ WorksOn(call[u]) PROVE ShownOf(call, images) = Range(images)
    BY <1>5 DEF ShownOf
  <1>6. QED
    BY <1>2, <1>3, <1>4, <1>5

(* The resources G go, N come, and what the callers, the swapchain and the *)
(* call of t have is apart again: then all of it is.                       *)
LEMMA Moved ==
  ASSUME OwnersFit(owned, images, call, resources),
         owned' \subseteq Handles, images' \in Seq(Handles), Once(images'),
         NEW t \in Threads, NEW k \in Calls, call' = [call EXCEPT ![t] = k],
         WorksOn(k) => WorksOn(call[t]) \/ (\A u \in Threads : ~ WorksOn(call[u])),
         NEW G, G \subseteq owned \cup ShownOf(call, images) \cup HeldBy(call[t]),
         NEW N, N \subseteq Handles, \A h \in N : ~ Resolves(resources, h),
         owned' \cup ShownOf(call', images') \cup HeldBy(k)
           = ((owned \cup ShownOf(call, images) \cup HeldBy(call[t])) \ G) \cup N,
         owned' \cap ShownOf(call', images') = {},
         (owned' \cup ShownOf(call', images')) \cap HeldBy(k) = {},
         \A h \in Handles : Resolves(resources', h) <=> (h \in N \/ (Resolves(resources, h) /\ h \notin G))
  PROVE  OwnersFit(owned', images', call', resources')
  <1> DEFINE s == ShownOf(call, images)
             z == ShownOf(call', images')
             H(u) == HeldBy(call[u])
             K(u) == HeldBy(call'[u])
  <1>1. /\ call \in [Threads -> Calls]
        /\ \A u, v \in Threads : WorksOn(call[u]) /\ WorksOn(call[v]) => u = v
        /\ owned \cap s = {} /\ \A u \in Threads : (owned \cup s) \cap H(u) = {}
        /\ \A u, v \in Threads : u # v => H(u) \cap H(v) = {}
        /\ \A h \in Handles :
             Resolves(resources, h) <=> (h \in owned \cup s \/ \E u \in Threads : h \in H(u))
    BY DEF OwnersFit
  <1>2. /\ call' \in [Threads -> Calls] /\ call'[t] = k
        /\ \A u \in Threads : u # t => call'[u] = call[u]
    BY <1>1
  <1>3. \A u, v \in Threads : WorksOn(call'[u]) /\ WorksOn(call'[v]) => u = v
    BY <1>1, <1>2
  <1>4. K(t) = HeldBy(k) /\ \A u \in Threads : u # t => K(u) = H(u)
    BY <1>2
  <1>5. \A u \in Threads : H(u) \subseteq Handles
    BY <1>1, ShapesOfCalls
  <1>6. owned' \cup z \cup K(t) = ((owned \cup s \cup H(t)) \ G) \cup N /\ G \subseteq owned \cup s \cup H(t)
        /\ owned' \cap z = {} /\ (owned' \cup z) \cap K(t) = {}
    BY <1>4
  <1> HIDE DEF s, z, H, K
  <1>7. \A u \in Threads : u # t => N \cap H(u) = {} /\ G \cap H(u) = {}
    BY <1>1, <1>5, <1>6
  <1>8. ASSUME NEW u \in Threads, u # t PROVE (owned' \cup z \cup K(t)) \cap K(u) = {}
    <2>1. K(u) = H(u) /\ (owned \cup s) \cap H(u) = {} /\ H(t) \cap H(u) = {} /\ N \cap H(u) = {}
      BY <1>1, <1>4, <1>7, <1>8
    <2>2. QED
      BY <1>6, <2>1
  <1>9. \A u \in Threads : (owned' \cup z) \cap K(u) = {}
    BY <1>6, <1>8
  <1>10. \A u, v \in Threads : u # v => K(u) \cap K(v) = {}
    <2>1. ASSUME NEW u \in Threads, NEW v \in Threads, u # v PROVE K(u) \cap K(v) = {}
      <3>1. CASE u = t
        BY <1>8, <2>1, <3>1
      <3>2. CASE v = t
        BY <1>8, <2>1, <3>2
      <3>3. CASE u # t /\ v # t
        BY <1>1, <1>4, <2>1, <3>3
      <3>4. QED
        BY <3>1, <3>2, <3>3
    <2>2. QED
      BY <2>1
  <1>11. ASSUME NEW h \in Handles
         PROVE  Resolves(resources', h) <=> (h \in owned' \cup z \/ \E u \in Threads : h \in K(u))
    <2>1. (\E u \in Threads : h \in K(u)) <=> (h \in K(t) \/ \E u \in Threads : u # t /\ h \in H(u))
      BY <1>4
    <2>2. (\E u \in Threads : h \in H(u)) <=> (h \in H(t) \/ \E u \in Threads : u # t /\ h \in H(u))
      OBVIOUS
    <2>3. Resolves(resources, h) <=> (h \in owned \cup s \cup H(t) \/ \E u \in Threads : u # t /\ h \in H(u))
      BY <1>1, <2>2
    <2>4. Resolves(resources', h) <=> (h \in N \/ (Resolves(resources, h) /\ h \notin G))
      OBVIOUS
    <2>5. (\E u \in Threads : u # t /\ h \in H(u)) => h \notin G
      BY <1>7
    <2>6. h \in owned' \cup z \cup K(t) <=> ((h \in owned \cup s \cup H(t) /\ h \notin G) \/ h \in N)
      BY <1>6
    <2>7. QED
      BY <2>1, <2>3, <2>4, <2>5, <2>6
  <1>12. QED
    BY <1>2, <1>3, <1>6, <1>9, <1>10, <1>11 DEF OwnersFit, z, K

(* A step at which nothing changes hands. *)
LEMMA NobodyMoves ==
  ASSUME NEW o, NEW im, NEW c, NEW r, OwnersFit(o, im, c, r), NEW q,
         \A h \in Handles : Resolves(q, h) <=> Resolves(r, h)
  PROVE  OwnersFit(o, im, c, q)
  BY DEF OwnersFit

-----------------------------------------------------------------------------
(* Views of resources being destroyed.                                     *)
BareIn(sl, h) == \A s \in Slots : sl[s].resource # h

(* What a call is about to destroy, or to let go of when a resize          *)
(* succeeds, has no views.                                                 *)
StripFits(c, sl) ==
  \A t \in Threads :
    /\ c[t].step \in {"destroying", "freeing"} =>
         /\ BareIn(sl, Head(c[t].todo))
         /\ ~ c[t].releases => \A h \in Range(c[t].todo) : BareIn(sl, h)
    /\ c[t].step = "populating" => \A h \in Range(c[t].restore) : BareIn(sl, h)

HeapsFit(hs, sl) ==
  /\ hs \subseteq Heaps
  /\ \A s \in Slots : sl[s].resource # NoResource => HeapOf[s] \in hs

IInv ==
  /\ ViewsFit(Now)
  /\ OwnersFit(owned, images, call, resources)
  /\ StripFits(call, slot)
  /\ HeapsFit(heaps, slot)

(* Nothing hangs on a resource of a call that did not before.              *)
LEMMA StripKept ==
  ASSUME NEW c \in [Threads -> Calls], NEW sl, StripFits(c, sl), NEW tl,
         \A t \in Threads : \A h \in HeldBy(c[t]) : BareIn(sl, h) => BareIn(tl, h)
  PROVE  StripFits(c, tl)
  <1>1. ASSUME NEW t \in Threads, c[t].step \in {"destroying", "freeing"}
        PROVE  /\ BareIn(tl, Head(c[t].todo))
               /\ ~ c[t].releases => \A h \in Range(c[t].todo) : BareIn(tl, h)
    <2>1. c[t] \in Calls /\ c[t] \in Destroyings /\ c[t].todo # <<>>
      BY <1>1, ShapesOfCalls
    <2>2. Head(c[t].todo) \in HeldBy(c[t]) /\ Range(c[t].todo) \subseteq HeldBy(c[t])
      BY <2>1, NextOne
    <2>3. QED
      BY <1>1, <2>2 DEF StripFits
  <1>2. ASSUME NEW t \in Threads, c[t].step = "populating", NEW h \in Range(c[t].restore)
        PROVE  BareIn(tl, h)
    <2>1. h \in HeldBy(c[t])
      BY <1>2 DEF HeldBy
    <2>2. QED
      BY <1>2, <2>1 DEF StripFits
  <1>3. QED
    BY <1>1, <1>2 DEF StripFits

(* A thread's call becomes one that keeps to it. *)
LEMMA StripMoved ==
  ASSUME NEW c \in [Threads -> Calls], NEW sl, StripFits(c, sl),
         NEW t \in Threads, NEW k, NEW d, d = [c EXCEPT ![t] = k],
         k.step \in {"destroying", "freeing"} =>
           /\ BareIn(sl, Head(k.todo))
           /\ ~ k.releases => \A h \in Range(k.todo) : BareIn(sl, h),
         k.step = "populating" => \A h \in Range(k.restore) : BareIn(sl, h)
  PROVE  StripFits(d, sl)
  BY DEF StripFits

(* Only the registry and the slots matter. *)
LEMMA SameViews ==
  ASSUME NEW v, NEW w, ViewsFit(v), w.resources = v.resources, w.slot = v.slot
  PROVE  ViewsFit(w)
  <1>1. \A i : Listed(v, i) <=> Listed(w, i)
    BY DEF Listed, AsListed
  <1>2. QED
    BY <1>1 DEF ViewsFit

(* New values for old. *)
LEMMA PrimedParts ==
  ASSUME NEW v, ViewsFit(v), Becomes(v)
  PROVE  ViewsFit(Now)' /\ resources' = v.resources /\ slot' = v.slot
  <1>1. resources' = v.resources /\ slot' = v.slot
    BY DEF Becomes
  <1>2. PICK w : w = [resources |-> resources', slot |-> slot']
    OBVIOUS
  <1>3. ViewsFit(w)
    BY <1>1, <1>2, SameViews
  <1>4. ViewsFit(Now)'
    BY <1>2, <1>3 DEF Now
  <1>5. QED
    BY <1>1, <1>4

-----------------------------------------------------------------------------
(* One action after the other.  First those that only write views.         *)

(* What a call holds is alive. *)
LEMMA HeldResolve ==
  ASSUME IInv, NEW h, h \in owned \cup ShownOf(call, images) \/ \E t \in Threads : h \in HeldBy(call[t])
  PROVE  h \in Handles /\ Resolves(resources, h) /\ h # NoResource
  <1>1. OwnersFit(owned, images, call, resources) /\ DOMAIN resources.slots = 1 .. Len(resources.slots)
    BY Parts DEF IInv, ViewsFit, RegistryFits, Now
  <1>2. h \in Handles
    <2>1. Range(images) \subseteq Handles
      BY <1>1, RangeIn DEF OwnersFit
    <2>2. ShownOf(call, images) \subseteq Handles
      BY <2>1 DEF ShownOf
    <2>3. \A t \in Threads : HeldBy(call[t]) \subseteq Handles
      BY <1>1, ShapesOfCalls DEF OwnersFit
    <2>4. QED
      BY <1>1, <2>2, <2>3 DEF OwnersFit
  <1>3. Resolves(resources, h)
    BY <1>1, <1>2 DEF OwnersFit
  <1>4. h # NoResource
    BY <1>1, <1>3 DEF Resolves, NoResource, Handle
  <1>5. QED
    BY <1>2, <1>3, <1>4

(* A step that changes views and first views, and nothing else. *)
LEMMA ViewsStep ==
  ASSUME IInv, NEW v, ViewsFit(v), SameHandles(resources, v.resources), Becomes(v)
  PROVE  /\ ViewsFit(Now)' /\ slot' = v.slot
         /\ OwnersFit(owned, images, call, resources')
         /\ \A h : Resolves(resources', h) <=> Resolves(resources, h)
  <1>1. ViewsFit(Now)' /\ resources' = v.resources /\ slot' = v.slot
    BY PrimedParts
  <1>2. RegistryFits(resources) /\ RegistryFits(v.resources)
    BY DEF IInv, ViewsFit, Now
  <1>3. \A h : Resolves(resources', h) <=> Resolves(resources, h)
    BY <1>1, <1>2, SameResolves
  <1>4. OwnersFit(owned, images, call, resources')
    <2>1. OwnersFit(owned, images, call, resources)
      BY DEF IInv
    <2>2. QED
      BY <1>3, <2>1, NobodyMoves
  <1>5. QED
    BY <1>1, <1>3, <1>4

(* Some slots are reset, and the heap of every slot that keeps its view is *)
(* kept.                                                                   *)
LEMMA ResettingKeeps ==
  ASSUME IInv, NEW v, ViewsFit(v), SameHandles(resources, v.resources), Becomes(v),
         UNCHANGED <<owned, images, call>>, heaps' \subseteq Heaps,
         NEW R, \A s \in Slots : v.slot[s].resource = IF s \in R THEN NoResource ELSE slot[s].resource,
         \A s \in Slots : s \notin R /\ HeapOf[s] \in heaps => HeapOf[s] \in heaps'
  PROVE  IInv'
  <1>1. ViewsFit(Now)' /\ slot' = v.slot /\ OwnersFit(owned, images, call, resources')
    BY ViewsStep
  <1>2. OwnersFit(owned, images, call, resources)'
    BY <1>1
  <1>3. StripFits(call, slot') /\ StripFits(call', slot')
    <2>1. \A t \in Threads : \A h \in HeldBy(call[t]) : h # NoResource
      BY HeldResolve
    <2>2. \A t \in Threads : \A h \in HeldBy(call[t]) : BareIn(slot, h) => BareIn(slot', h)
      BY <1>1, <2>1 DEF BareIn
    <2>3. call \in [Threads -> Calls] /\ StripFits(call, slot)
      BY DEF IInv, OwnersFit
    <2>4. StripFits(call, slot')
      BY <2>2, <2>3, StripKept
    <2>5. QED
      BY <2>4
  <1>4. HeapsFit(heaps', slot')
    BY <1>1 DEF IInv, HeapsFit
  <1>5. QED
    BY <1>1, <1>2, <1>3, <1>4 DEF IInv

(* CreateNullView, and the views that fail once the slot is reset.         *)
LEMMA ResetKeeps ==
  ASSUME IInv, NEW s \in Slots, Becomes(Reset(Now, s)), UNCHANGED <<heaps, owned, images, call>>
  PROVE  IInv'
  <1>1. PICK u : u = Now
    OBVIOUS
  <1>2. ViewsFit(u) /\ u.resources = resources /\ u.slot = slot /\ heaps \subseteq Heaps
    BY <1>1 DEF Now, IInv, HeapsFit
  <1>3. PICK v : v = Reset(u, s)
    OBVIOUS
  <1>4. /\ ViewsFit(v) /\ SameHandles(u.resources, v.resources)
        /\ v.slot[s].resource = NoResource
        /\ \A t \in Slots : t # s => v.slot[t].resource = u.slot[t].resource
    BY <1>2, <1>3, ResetFits
  <1>5. Becomes(v)
    BY <1>1, <1>3
  <1>6. \A t \in Slots : v.slot[t].resource = IF t \in {s} THEN NoResource ELSE slot[t].resource
    BY <1>2, <1>4
  <1>7. QED
    BY <1>2, <1>4, <1>5, <1>6, ResettingKeeps

(* CreateView: the resource is none that a call holds, and the heap of the *)
(* slot exists.                                                            *)
LEMMA CreateViewKeeps ==
  ASSUME IInv, NEW s \in Slots, NEW h \in Usable, CreateView(s, h)
  PROVE  IInv'
  <1>1. CASE Becomes(Reset(Now, s))
    BY <1>1, ResetKeeps DEF CreateView
  <1>2. CASE Becomes(Link(Reset(Now, s), s, h))
    <2>1. PICK u : u = Now
      OBVIOUS
    <2>2. /\ ViewsFit(u) /\ u.resources = resources /\ u.slot = slot
          /\ HeapsFit(heaps, slot) /\ HeapOf[s] \in heaps /\ Resolves(resources, h)
          /\ UNCHANGED <<heaps, owned, images, call>>
          /\ call \in [Threads -> Calls] /\ StripFits(call, slot)
          /\ OwnersFit(owned, images, call, resources)
      BY <2>1 DEF Now, IInv, CreateView, OwnersFit
    <2>3. PICK w : w = Reset(u, s)
      OBVIOUS
    <2>4. /\ ViewsFit(w) /\ SameHandles(resources, w.resources)
          /\ w.slot[s].resource = NoResource
          /\ \A t \in Slots : t # s => w.slot[t].resource = slot[t].resource
      BY <2>2, <2>3, ResetFits
    <2>5. h \in Handles /\ h # NoResource
      <3>1. /\ DOMAIN resources.slots = 1 .. Len(resources.slots)
            /\ Len(resources.slots) \in Nat /\ Len(resources.slots) <= MaxResources
        BY Parts DEF IInv, ViewsFit, RegistryFits, Now
      <3>2. PICK i \in DOMAIN resources.slots, g \in 1 .. MaxGeneration : h = Handle(i, g)
        BY DEF Usable
      <3>3. i \in 0 .. MaxResources /\ g \in 0 .. MaxGeneration /\ i # 0
        BY <3>1, <3>2, Assumed
      <3>4. QED
        BY <3>2, <3>3 DEF Handle, Handles, NoResource
    <2>6. Resolves(w.resources, h)
      <3>1. RegistryFits(resources) /\ RegistryFits(w.resources)
        BY <2>2, <2>4 DEF ViewsFit
      <3>2. QED
        BY <2>2, <2>4, <3>1, SameResolves
    <2>7. PICK v : v = Link(w, s, h)
      OBVIOUS
    <2>8. /\ ViewsFit(v) /\ SameHandles(w.resources, v.resources)
          /\ v.slot[s].resource = h
          /\ \A t \in Slots : t # s => v.slot[t].resource = w.slot[t].resource
      BY <2>4, <2>5, <2>6, <2>7, LinkFits
    <2>9. SameHandles(resources, v.resources) /\ Becomes(v)
      BY <1>2, <2>1, <2>3, <2>4, <2>7, <2>8 DEF SameHandles
    <2>10. ViewsFit(Now)' /\ slot' = v.slot /\ OwnersFit(owned, images, call, resources')
      BY <2>8, <2>9, ViewsStep
    <2>11. \A t \in Threads : \A g \in HeldBy(call[t]) : g # h
      <3>1. h \notin InUse
        BY DEF Usable
      <3>2. ASSUME NEW t \in Threads, NEW g \in HeldBy(call[t]) PROVE g \in InUse
        BY <3>2 DEF InUse, HeldBy, At
      <3>3. QED
        BY <3>1, <3>2
    <2>12. \A t \in Threads : \A g \in HeldBy(call[t]) : BareIn(slot, g) => BareIn(slot', g)
      BY <2>4, <2>8, <2>10, <2>11 DEF BareIn
    <2>13. StripFits(call, slot')
      BY <2>2, <2>12, StripKept
    <2>14. HeapsFit(heaps, slot')
      BY <2>2, <2>4, <2>8, <2>10 DEF HeapsFit
    <2>15. QED
      BY <2>2, <2>10, <2>13, <2>14 DEF IInv
  <1>3. QED
    BY <1>1, <1>2 DEF CreateView

(* DestroyDescriptorHeap: every slot of the heap is reset.                 *)
LEMMA DestroyHeapKeeps ==
  ASSUME IInv, NEW g \in Heaps, DestroyDescriptorHeap(g)
  PROVE  IInv'
  <1> DEFINE S == {s \in Slots : HeapOf[s] = g}
  <1>1. PICK w : w = Wiped(S)
    OBVIOUS
  <1>2. /\ Becomes(w) /\ heaps' = heaps \ {g} /\ UNCHANGED <<owned, images, call>>
        /\ ViewsFit(Now) /\ heaps \subseteq Heaps
    BY <1>1 DEF DestroyDescriptorHeap, Wiped, IInv, HeapsFit
  <1>3. S \in SUBSET Slots
    OBVIOUS
  <1>4. /\ ViewsFit(w) /\ SameHandles(resources, w.resources)
        /\ \A t \in Slots : w.slot[t].resource = IF t \in S THEN NoResource ELSE slot[t].resource
    <2> HIDE DEF S
    <2>1. QED
      BY <1>1, <1>2, <1>3, WipedFits
  <1>5. \A s \in Slots : s \notin S /\ HeapOf[s] \in heaps => HeapOf[s] \in heaps'
    BY <1>2
  <1> HIDE DEF S
  <1>6. heaps' \subseteq Heaps
    BY <1>2
  <1>7. QED
    BY <1>2, <1>4, <1>5, <1>6, ResettingKeeps

(* Steps that change no view and nobody's resources. *)
LEMMA OthersKeep ==
  ASSUME IInv, UNCHANGED <<views, owned, images, call>>, heaps \subseteq heaps', heaps' \subseteq Heaps
  PROVE  IInv'
  <1>1. resources' = resources /\ slot' = slot /\ owned' = owned /\ images' = images /\ call' = call
    BY DEF views
  <1>2. PICK v : v = Now
    OBVIOUS
  <1>3. ViewsFit(v) /\ Becomes(v)
    BY <1>1, <1>2 DEF IInv, Becomes, Now
  <1>4. ViewsFit(Now)'
    BY <1>3, PrimedParts
  <1>5. HeapsFit(heaps', slot)
    BY DEF IInv, HeapsFit
  <1>6. QED
    BY <1>1, <1>4, <1>5 DEF IInv

(* CreateResource: the caller has one more. *)
LEMMA CreateResourceKeeps ==
  ASSUME IInv, CreateResource
  PROVE  IInv'
  <1>1. PICK r, h : r = Alloc(resources, NoSlot) /\ h = NextHandle(resources)
    OBVIOUS
  <1>2. /\ HasRoom /\ resources' = r /\ owned' = owned \cup {h}
        /\ UNCHANGED <<slot, heaps, images, call>>
        /\ ViewsFit(Now) /\ OwnersFit(owned, images, call, resources)
    BY <1>1 DEF CreateResource, IInv
  <1>3. /\ ViewsFit(With(r)) /\ h \in Handles /\ Resolves(r, h) /\ ~ Resolves(resources, h)
        /\ \A g : g # h => (g \in Handles => (Resolves(r, g) <=> Resolves(resources, g)))
    BY <1>1, <1>2, AllocFits
  <1>4. PICK v : v = With(r)
    OBVIOUS
  <1>5. ViewsFit(v) /\ Becomes(v)
    BY <1>2, <1>3, <1>4 DEF With, Becomes
  <1>6. ViewsFit(Now)'
    BY <1>5, PrimedParts
  <1>7. OwnersFit(owned \cup {h}, images, call, r)
    <2>1. h \notin ShownOf(call, images) /\ \A t \in Threads : h \notin HeldBy(call[t])
      BY <1>3, HeldResolve
    <2>2. ASSUME NEW g \in Handles
          PROVE  Resolves(r, g) <=> (g \in (owned \cup {h}) \cup ShownOf(call, images)
                                     \/ \E t \in Threads : g \in HeldBy(call[t]))
      BY <1>2, <1>3 DEF OwnersFit
    <2>3. QED
      BY <1>2, <1>3, <2>1, <2>2 DEF OwnersFit
  <1>8. QED
    BY <1>2, <1>6, <1>7 DEF IInv

-----------------------------------------------------------------------------
(* Then those of the calls that destroy and resize.                        *)

(* No view is written. *)
LEMMA NoViewWritten ==
  ASSUME IInv, UNCHANGED views
  PROVE  ViewsFit(Now)' /\ resources' = resources /\ slot' = slot
  <1>1. PICK v : v = Now
    OBVIOUS
  <1>2. ViewsFit(v) /\ Becomes(v)
    BY <1>1 DEF IInv, Becomes, Now, views
  <1>3. QED
    BY <1>2, PrimedParts DEF views

(* What is known of the thread that takes a step. *)
LEMMA Mine ==
  ASSUME IInv, NEW t \in Threads
  PROVE  /\ call[t] \in Calls /\ call \in [Threads -> Calls]
         /\ images \in Seq(Handles) /\ Once(images) /\ Range(images) \subseteq Handles
         /\ owned \subseteq Handles
         /\ \A u, v \in Threads : WorksOn(call[u]) /\ WorksOn(call[v]) => u = v
         /\ owned \cap ShownOf(call, images) = {}
         /\ (owned \cup ShownOf(call, images)) \cap HeldBy(call[t]) = {}
         /\ OwnersFit(owned, images, call, resources)
         /\ StripFits(call, slot) /\ HeapsFit(heaps, slot)
         /\ call[t].step = "idle" => HeldBy(call[t]) = {} /\ ~ WorksOn(call[t])
         /\ OnSwapchain = {} => \A u \in Threads : ~ WorksOn(call[u])
         /\ <<>> \in Seq(Handles) /\ Once(<<>>) /\ Range(<<>>) = {}
  <1>1. /\ OwnersFit(owned, images, call, resources)
        /\ StripFits(call, slot) /\ HeapsFit(heaps, slot)
    BY DEF IInv
  <1>2. /\ images \in Seq(Handles) /\ Once(images) /\ owned \subseteq Handles
        /\ call[t] \in Calls /\ call \in [Threads -> Calls]
        /\ \A u, v \in Threads : WorksOn(call[u]) /\ WorksOn(call[v]) => u = v
        /\ owned \cap ShownOf(call, images) = {}
        /\ (owned \cup ShownOf(call, images)) \cap HeldBy(call[t]) = {}
    BY <1>1 DEF OwnersFit
  <1>3. <<>> \in Seq(Handles) /\ Once(<<>>)
    BY DEF Once
  <1>4. Range(images) \subseteq Handles /\ Range(<<>>) = {}
    BY <1>2, <1>3, RangeIn
  <1>5. OnSwapchain = {} => \A u \in Threads : ~ WorksOn(call[u])
    BY DEF OnSwapchain, WorksOn, At
  <1>6. call[t].step = "idle" => HeldBy(call[t]) = {} /\ ~ WorksOn(call[t])
    BY DEF HeldBy, WorksOn
  <1>7. QED
    BY <1>1, <1>2, <1>3, <1>4, <1>5, <1>6

(* A call takes a step that moves no resource. *)
LEMMA StepMoved ==
  ASSUME OwnersFit(owned, images, call, resources), NEW t \in Threads, NEW k \in Calls,
         call' = [call EXCEPT ![t] = k], UNCHANGED <<owned, images>>,
         HeldBy(k) = HeldBy(call[t]), WorksOn(k) <=> WorksOn(call[t]),
         k.step = "populating" <=> call[t].step = "populating",
         \A h \in Handles : Resolves(resources', h) <=> Resolves(resources, h)
  PROVE  OwnersFit(owned', images', call', resources')
  <1>1. /\ owned' \subseteq Handles /\ images' \in Seq(Handles) /\ Once(images')
        /\ owned \cap ShownOf(call, images) = {}
        /\ (owned \cup ShownOf(call, images)) \cap HeldBy(call[t]) = {}
        /\ owned' = owned /\ images' = images
    BY DEF OwnersFit
  <1>2. ShownOf(call', images') = ShownOf(call, images)
    <2>1. CASE WorksOn(call[t])
      BY <1>1, <2>1, ShownAfter
    <2>2. CASE ~ WorksOn(call[t])
      BY <1>1, <2>2, ShownAfter
    <2>3. QED
      BY <2>1, <2>2
  <1>3. PICK none : none = {}
    OBVIOUS
  <1>4. /\ none \subseteq owned \cup ShownOf(call, images) \cup HeldBy(call[t]) /\ none \subseteq Handles
        /\ \A h \in none : ~ Resolves(resources, h)
        /\ \A h \in Handles :
             Resolves(resources', h) <=> (h \in none \/ (Resolves(resources, h) /\ h \notin none))
        /\ owned' \cup ShownOf(call', images') \cup HeldBy(k)
             = ((owned \cup ShownOf(call, images) \cup HeldBy(call[t])) \ none) \cup none
    BY <1>1, <1>2, <1>3
  <1>5. owned' \cap ShownOf(call', images') = {} /\ (owned' \cup ShownOf(call', images')) \cap HeldBy(k) = {}
    BY <1>1, <1>2
  <1>6. QED
    BY <1>1, <1>4, <1>5, Moved

(* Resources change hands, and none comes or goes. *)
LEMMA HandedOn ==
  ASSUME IInv, NEW t \in Threads, NEW k \in Calls, call' = [call EXCEPT ![t] = k],
         owned' \subseteq Handles, images' \in Seq(Handles), Once(images'),
         WorksOn(k) => WorksOn(call[t]) \/ (\A u \in Threads : ~ WorksOn(call[u])),
         owned' \cup ShownOf(call', images') \cup HeldBy(k)
           = owned \cup ShownOf(call, images) \cup HeldBy(call[t]),
         owned' \cap ShownOf(call', images') = {},
         (owned' \cup ShownOf(call', images')) \cap HeldBy(k) = {},
         UNCHANGED <<views, heaps>>,
         k.step \in {"destroying", "freeing"} =>
           /\ BareIn(slot, Head(k.todo))
           /\ ~ k.releases => \A h \in Range(k.todo) : BareIn(slot, h),
         k.step = "populating" => \A h \in Range(k.restore) : BareIn(slot, h)
  PROVE  IInv'
  <1>1. ViewsFit(Now)' /\ resources' = resources /\ slot' = slot /\ heaps' = heaps
    BY NoViewWritten
  <1>2. StripFits(call', slot) /\ HeapsFit(heaps, slot)
    BY Mine, StripMoved
  <1> PICK none : none = {}
    OBVIOUS
  <1>3. /\ none \subseteq owned \cup ShownOf(call, images) \cup HeldBy(call[t]) /\ none \subseteq Handles
        /\ \A h \in none : ~ Resolves(resources, h)
        /\ \A h \in Handles :
             Resolves(resources, h) <=> (h \in none \/ (Resolves(resources, h) /\ h \notin none))
        /\ owned' \cup ShownOf(call', images') \cup HeldBy(k)
             = ((owned \cup ShownOf(call, images) \cup HeldBy(call[t])) \ none) \cup none
    OBVIOUS
  <1>4. OwnersFit(owned, images, call, resources)
    BY DEF IInv
  <1>5. OwnersFit(owned', images', call', resources')
    <2>1. \A h \in Handles : Resolves(resources', h) <=> (h \in none \/ (Resolves(resources, h) /\ h \notin none))
      BY <1>1, <1>3
    <2>2. QED
      BY <1>3, <1>4, <2>1, Moved, ZenonT(60)
  <1>6. QED
    BY <1>1, <1>2, <1>5 DEF IInv

(* DestroyBuffer: a caller's resource is the call's. *)
LEMMA DestroyBufferKeeps ==
  ASSUME IInv, NEW t \in Threads, DestroyBuffer(t)
  PROVE  IInv'
  <1>1. PICK h \in owned : /\ owned' = owned \ {h}
                           /\ call' = [call EXCEPT ![t] = Destroying("releasing", <<h>>, FALSE, <<>>)]
    BY DEF DestroyBuffer
  <1>2. call[t].step = "idle" /\ UNCHANGED <<views, heaps, images>>
    BY DEF DestroyBuffer, At
  <1>3. h \in Handles /\ <<h>> \in Seq(Handles) /\ Once(<<h>>) /\ <<h>> # <<>>
    BY Mine DEF Once
  <1>4. Range(<<h>>) = {h}
    BY DEF Range
  <1>5. PICK k, no, todo, none : /\ k = Destroying("releasing", todo, no, none)
                                 /\ no = FALSE /\ todo = <<h>> /\ none = <<>>
    OBVIOUS
  <1>6. /\ k \in Calls /\ HeldBy(k) = {h} /\ k.step = "releasing" /\ ~ WorksOn(k)
    <2>1. "releasing" \in {"releasing", "destroying"}
      OBVIOUS
    <2>2. /\ Range(todo) \cap Range(none) = {} /\ Range(todo) \cup Range(none) = {h}
          /\ todo # <<>> /\ todo \in Seq(Handles) /\ Once(todo)
      BY <1>3, <1>4, <1>5, Mine
    <2>3. none \in Seq(Handles) /\ Once(none) /\ no \in BOOLEAN /\ ~ no /\ none = <<>>
      BY <1>5, Mine
    <2>4. k \in Calls
      BY <1>5, <2>1, <2>2, <2>3, DestroyingFits
    <2>5. HeldBy(k) = Range(todo) \cup Range(none) /\ k.step = "releasing" /\ (WorksOn(k) <=> no)
      BY <1>5, <2>1, <2>2, <2>3, DestroyingHas
    <2>6. QED
      BY <2>2, <2>3, <2>4, <2>5
  <1>7. ShownOf(call', images) = ShownOf(call, images)
    BY <1>1, <1>2, <1>5, <1>6, Mine, ShownAfter
  <1>8. /\ HeldBy(call[t]) = {} /\ owned \subseteq Handles
        /\ owned \cap ShownOf(call, images) = {} /\ images \in Seq(Handles) /\ Once(images)
    BY <1>2, Mine
  <1>9. images' = images
    BY <1>2
  <1>10. /\ owned' \cup ShownOf(call', images') \cup HeldBy(k)
              = owned \cup ShownOf(call, images) \cup HeldBy(call[t])
         /\ owned' \cap ShownOf(call', images') = {}
         /\ (owned' \cup ShownOf(call', images')) \cap HeldBy(k) = {}
         /\ owned' \subseteq Handles /\ images' \in Seq(Handles) /\ Once(images')
    BY <1>1, <1>6, <1>7, <1>8, <1>9
  <1>11. call' = [call EXCEPT ![t] = k]
    BY <1>1, <1>5
  <1>12. QED
    BY <1>2, <1>6, <1>10, <1>11, HandedOn

(* DestroySwapchain: the images are the call's. *)
LEMMA DestroySwapchainKeeps ==
  ASSUME IInv, NEW t \in Threads, DestroySwapchain(t)
  PROVE  IInv'
  <1>1. /\ call[t].step = "idle" /\ OnSwapchain = {} /\ images # <<>>
        /\ call' = [call EXCEPT ![t] = Destroying("releasing", images, TRUE, <<>>)]
        /\ UNCHANGED <<views, heaps, images, owned>>
    BY DEF DestroySwapchain, At
  <1>2. PICK k, yes, none : /\ k = Destroying("releasing", images, yes, none)
                            /\ yes = TRUE /\ none = <<>>
    OBVIOUS
  <1>3. k \in Calls /\ HeldBy(k) = Range(images) /\ k.step = "releasing" /\ WorksOn(k)
    <2>1. "releasing" \in {"releasing", "destroying"}
      OBVIOUS
    <2>2. /\ Range(images) \cap Range(none) = {} /\ Range(images) \cup Range(none) = Range(images)
          /\ none \in Seq(Handles) /\ Once(none) /\ images \in Seq(Handles) /\ Once(images)
          /\ yes \in BOOLEAN /\ yes
      BY <1>2, Mine
    <2>3. k \in Calls
      BY <1>1, <1>2, <2>1, <2>2, DestroyingFits
    <2>4. images # <<>>
      BY <1>1
    <2>5. HeldBy(k) = Range(images) \cup Range(none) /\ k.step = "releasing" /\ WorksOn(k)
      <3>1. k = [step |-> "releasing", releases |-> "releasing" = "releasing",
                 todo |-> images, swapchain |-> yes, restore |-> none]
        BY <1>2, <2>4 DEF Destroying
      <3>2. k.step = "releasing" /\ k.todo = images /\ k.swapchain = yes /\ k.restore = none
        BY <3>1
      <3>3. QED
        BY <1>2, <3>2 DEF HeldBy, WorksOn
    <2>6. QED
      BY <2>2, <2>3, <2>5
  <1>4. \A u \in Threads : ~ WorksOn(call[u])
    BY <1>1, Mine
  <1>5. ShownOf(call', images) = {} /\ ShownOf(call, images) = Range(images)
    BY <1>1, <1>2, <1>3, <1>4, Mine, ShownAfter
  <1>6. /\ HeldBy(call[t]) = {} /\ owned \subseteq Handles
        /\ owned \cap ShownOf(call, images) = {} /\ images \in Seq(Handles) /\ Once(images)
    BY <1>1, Mine
  <1>7. /\ owned' \cup ShownOf(call', images') \cup HeldBy(k)
             = owned \cup ShownOf(call, images) \cup HeldBy(call[t])
        /\ owned' \cap ShownOf(call', images') = {}
        /\ (owned' \cup ShownOf(call', images')) \cap HeldBy(k) = {}
        /\ owned' \subseteq Handles /\ images' \in Seq(Handles) /\ Once(images')
    BY <1>1, <1>3, <1>5, <1>6
  <1>8. call' = [call EXCEPT ![t] = k]
    BY <1>1, <1>2
  <1>9. QED
    BY <1>1, <1>3, <1>4, <1>7, <1>8, HandedOn

(* ReleaseViews: what is to be destroyed has no views left. *)
LEMMA ReleaseViewsKeeps ==
  ASSUME IInv, NEW t \in Threads, ReleaseViews(t)
  PROVE  IInv'
  <1> DEFINE c == call[t]
  <1>1. /\ c.step = "releasing" /\ Becomes(Released(Head(c.todo)))
        /\ call' = [call EXCEPT ![t] = [c EXCEPT !.step = "destroying"]]
        /\ UNCHANGED <<heaps, owned, images>>
    BY DEF ReleaseViews, At
  <1>2. PICK h : h = Head(c.todo)
    OBVIOUS
  <1>3. c \in Calls /\ c \in Destroyings /\ c.todo # <<>> /\ c.releases
    BY <1>1, Mine, ShapesOfCalls
  <1>4. h \in HeldBy(c) /\ h \in Handles /\ Resolves(resources, h) /\ h # NoResource
    BY <1>2, <1>3, NextOne, HeldResolve
  <1>5. PICK v : v = Released(h)
    OBVIOUS
  <1>6. /\ ViewsFit(v) /\ SameHandles(resources, v.resources)
        /\ \A s \in Slots : v.slot[s].resource = IF slot[s].resource = h THEN NoResource ELSE slot[s].resource
    BY <1>4, <1>5, ReleasedFits DEF IInv
  <1>7. Becomes(v)
    BY <1>1, <1>2, <1>5
  <1>8. /\ ViewsFit(Now)' /\ slot' = v.slot
        /\ \A g : Resolves(resources', g) <=> Resolves(resources, g)
    BY <1>6, <1>7, ViewsStep
  <1>9. PICK k : k = Stepped(c, "destroying")
    OBVIOUS
  <1>10. /\ k \in Calls /\ HeldBy(k) = HeldBy(c) /\ (WorksOn(k) <=> WorksOn(c))
         /\ k.step = "destroying" /\ k.todo = c.todo /\ (k.releases <=> c.releases)
    BY <1>3, <1>9, StepTaken
  <1>11. OwnersFit(owned', images', call', resources')
    <2>1. call' = [call EXCEPT ![t] = k] /\ k.step # "populating" /\ call[t].step # "populating"
      BY <1>1, <1>9, <1>10 DEF Stepped
    <2>2. OwnersFit(owned, images, call, resources)
      BY DEF IInv
    <2>3. QED
      BY <1>1, <1>8, <1>10, <2>1, <2>2, StepMoved
  <1>12. StripFits(call, slot')
    <2>1. \A u \in Threads : \A g \in HeldBy(call[u]) : g # NoResource
      BY HeldResolve
    <2>2. \A u \in Threads : \A g \in HeldBy(call[u]) : BareIn(slot, g) => BareIn(slot', g)
      BY <1>6, <1>8, <2>1 DEF BareIn
    <2>3. QED
      BY <2>2, Mine, StripKept
  <1>13. BareIn(slot', h)
    BY <1>4, <1>6, <1>8 DEF BareIn
  <1>14. StripFits(call', slot')
    <2>1. call \in [Threads -> Calls] /\ k.releases /\ Head(k.todo) = h /\ k.step # "populating"
      BY <1>2, <1>3, <1>10, Mine
    <2>2. QED
      BY <1>1, <1>9, <1>12, <1>13, <2>1, StripMoved DEF Stepped
  <1>15. HeapsFit(heaps, slot')
    BY <1>6, <1>8 DEF IInv, HeapsFit
  <1>16. QED
    BY <1>1, <1>8, <1>11, <1>14, <1>15 DEF IInv

(* DestroyResource: the object, which has no views, is as new.             *)
LEMMA DestroyResourceKeeps ==
  ASSUME IInv, NEW t \in Threads, DestroyResource(t)
  PROVE  IInv'
  <1> DEFINE c == call[t]
  <1>1. /\ c.step = "destroying"
        /\ resources' = IF Resolves(resources, Head(c.todo))
                          THEN [resources EXCEPT !.slots[Head(c.todo).index].obj = NoSlot]
                          ELSE resources
        /\ call' = [call EXCEPT ![t] = [c EXCEPT !.step = "freeing"]]
        /\ UNCHANGED <<slot, heaps, owned, images>>
    BY DEF DestroyResource, At
  <1>2. PICK h : h = Head(c.todo)
    OBVIOUS
  <1>3. c \in Calls /\ c \in Destroyings /\ c.todo # <<>>
    BY <1>1, Mine, ShapesOfCalls
  <1>4. h \in HeldBy(c) /\ h \in Handles /\ Resolves(resources, h)
    BY <1>2, <1>3, NextOne, HeldResolve
  <1>5. /\ BareIn(slot, h)
        /\ ~ c.releases => \A g \in Range(c.todo) : BareIn(slot, g)
    BY <1>1, <1>2, Mine DEF StripFits
  <1>6. resources' = resources
    <2>1. ViewsFit(Now) /\ \A s \in Slots : slot[s].resource # h
      BY <1>5 DEF IInv, BareIn
    <2>2. [resources EXCEPT !.slots[h.index].obj = NoSlot] = resources
      BY <1>4, <2>1, BareFits
    <2>3. QED
      BY <1>1, <1>2, <1>4, <2>2
  <1>7. PICK k : k = Stepped(c, "freeing")
    OBVIOUS
  <1>8. /\ k \in Calls /\ HeldBy(k) = HeldBy(c) /\ (WorksOn(k) <=> WorksOn(c))
        /\ k.step = "freeing" /\ k.todo = c.todo /\ (k.releases <=> c.releases)
    BY <1>3, <1>7, StepTaken
  <1>9. call' = [call EXCEPT ![t] = k]
    BY <1>1, <1>7 DEF Stepped
  <1>10. ViewsFit(Now)' /\ slot' = slot
    BY <1>1, <1>6, NoViewWritten DEF views
  <1>11. OwnersFit(owned', images', call', resources')
    <2>1. /\ OwnersFit(owned, images, call, resources)
          /\ \A g \in Handles : Resolves(resources', g) <=> Resolves(resources, g)
          /\ k.step # "populating" /\ call[t].step # "populating"
      BY <1>1, <1>6, <1>8 DEF IInv
    <2>2. QED
      BY <1>1, <1>8, <1>9, <2>1, StepMoved
  <1>12. StripFits(call', slot)
    <2>1. /\ BareIn(slot, Head(k.todo)) /\ k.step # "populating"
          /\ ~ k.releases => \A g \in Range(k.todo) : BareIn(slot, g)
      BY <1>2, <1>5, <1>8
    <2>2. call \in [Threads -> Calls] /\ StripFits(call, slot)
      BY Mine
    <2>3. QED
      BY <1>9, <2>1, <2>2, StripMoved
  <1>13. QED
    BY <1>1, <1>10, <1>11, <1>12 DEF IInv

(* FreeHandle: the handle resolves no more.                                *)
LEMMA FreeHandleKeeps ==
  ASSUME IInv, NEW t \in Threads, FreeHandle(t)
  PROVE  IInv'
  <1> DEFINE c == call[t]
             rest == Tail(c.todo)
  <1>1. /\ c.step = "freeing"
        /\ resources' = Free(resources, Head(c.todo))
        /\ call' = [call EXCEPT ![t] =
                      IF rest = <<>> THEN Idle
                      ELSE [c EXCEPT !.todo = rest,
                                     !.step = IF c.releases THEN "releasing" ELSE "destroying"]]
        /\ images' = IF rest = <<>> /\ c.swapchain THEN c.restore ELSE images
        /\ UNCHANGED <<slot, heaps, owned>>
    BY DEF FreeHandle, At
  <1>2. PICK h : h = Head(c.todo)
    OBVIOUS
  <1>3. c \in Calls /\ c \in Destroyings /\ c.todo # <<>>
    BY <1>1, Mine, ShapesOfCalls
  <1>4. h \in HeldBy(c) /\ h \in Handles /\ Resolves(resources, h)
    BY <1>2, <1>3, NextOne, HeldResolve
  <1>5. /\ BareIn(slot, h)
        /\ ~ c.releases => \A g \in Range(c.todo) : BareIn(slot, g)
    BY <1>1, <1>2, Mine DEF StripFits
  <1>6. PICK r : r = Free(resources, h)
    OBVIOUS
  <1>7. /\ ViewsFit(With(r)) /\ ~ Resolves(r, h)
        /\ \A g : g # h => (g \in Handles => (Resolves(r, g) <=> Resolves(resources, g)))
    <2>1. ViewsFit(Now) /\ \A s \in Slots : slot[s].resource # h
      BY <1>5 DEF IInv, BareIn
    <2>2. QED
      BY <1>4, <1>6, <2>1, FreeFits
  <1>8. ViewsFit(Now)' /\ resources' = r
    <2>1. PICK v : v = With(r)
      OBVIOUS
    <2>2. ViewsFit(v) /\ Becomes(v)
      BY <1>1, <1>2, <1>6, <1>7, <2>1 DEF With, Becomes
    <2>3. QED
      BY <1>1, <1>2, <1>6, <2>2, PrimedParts
  <1>9. PICK G, none : G = {h} /\ none = {}
    OBVIOUS
  <1>10. /\ \A g \in Handles :
              Resolves(resources', g) <=> (g \in none \/ (Resolves(resources, g) /\ g \notin G))
         /\ G \subseteq owned \cup ShownOf(call, images) \cup HeldBy(c)
         /\ none \subseteq Handles /\ \A g \in none : ~ Resolves(resources, g)
         /\ OwnersFit(owned, images, call, resources)
    BY <1>4, <1>7, <1>8, <1>9, Mine
  <1>11. /\ owned \cap ShownOf(call, images) = {} /\ owned \subseteq Handles /\ owned' = owned
         /\ (owned \cup ShownOf(call, images)) \cap HeldBy(c) = {}
         /\ images \in Seq(Handles) /\ Once(images)
         /\ call \in [Threads -> Calls] /\ StripFits(call, slot)
    BY <1>1, Mine
  <1>12. WorksOn(c) <=> c.swapchain
    BY <1>1 DEF WorksOn
  <1>13. CASE rest # <<>>
    <2>1. PICK step : step = IF c.releases THEN "releasing" ELSE "destroying"
      OBVIOUS
    <2>2. PICK k : k = [c EXCEPT !.todo = Tail(c.todo), !.step = step]
      OBVIOUS
    <2>3. step \in {"releasing", "destroying"} /\ (step = "releasing" => c.releases)
      BY <2>1
    <2>4. /\ k \in Calls /\ HeldBy(k) = HeldBy(c) \ {h} /\ (WorksOn(k) <=> WorksOn(c))
          /\ k.step = step /\ k.todo = Tail(c.todo) /\ k.releases = c.releases
          /\ Range(k.todo) \subseteq Range(c.todo) /\ Head(k.todo) \in Range(c.todo)
      BY <1>2, <1>3, <1>13, <2>2, <2>3, NextOne, ZenonT(60)
    <2>5. call' = [call EXCEPT ![t] = k] /\ images' = images
      BY <1>1, <1>13, <2>1, <2>2
    <2>6. k.step # "populating" /\ c.step # "populating" /\ k.step # "freeing"
      BY <1>1, <2>3, <2>4
    <2>7. ShownOf(call', images') = ShownOf(call, images)
      <3>1. CASE WorksOn(c)
        <4>1. ShownOf(call', images') = {}
          BY <1>10, <2>4, <2>5, <2>6, <3>1, ShownAfter
        <4>2. ShownOf(call, images) = {}
          BY <1>10, <2>4, <2>5, <2>6, <3>1, ShownAfter
        <4>3. QED
          BY <4>1, <4>2
      <3>2. CASE ~ WorksOn(c)
        BY <1>10, <2>4, <2>5, <3>2, ShownAfter
      <3>3. QED
        BY <3>1, <3>2
    <2>8. /\ owned' \cup ShownOf(call', images') \cup HeldBy(k)
               = ((owned \cup ShownOf(call, images) \cup HeldBy(c)) \ G) \cup none
          /\ owned' \cap ShownOf(call', images') = {}
          /\ (owned' \cup ShownOf(call', images')) \cap HeldBy(k) = {}
          /\ owned' \subseteq Handles /\ images' \in Seq(Handles) /\ Once(images')
      BY <1>4, <1>9, <1>11, <2>4, <2>5, <2>7
    <2>9. OwnersFit(owned', images', call', resources')
      BY <1>10, <2>4, <2>5, <2>8, Moved
    <2>10. StripFits(call', slot)
      <3>1. k.step = "destroying" => \A g \in Range(c.todo) : BareIn(slot, g)
        BY <1>5, <2>1, <2>4
      <3>2. k.step \in {"destroying", "freeing"} =>
              /\ BareIn(slot, Head(k.todo))
              /\ ~ k.releases => \A g \in Range(k.todo) : BareIn(slot, g)
        BY <2>4, <2>6, <3>1
      <3>3. QED
        BY <1>11, <2>5, <2>6, <3>2, StripMoved
    <2>11. QED
      BY <1>1, <1>8, <2>9, <2>10 DEF IInv
  <1>14. CASE rest = <<>>
    <2>1. PICK k : k = Idle
      OBVIOUS
    <2>2. k \in Calls /\ HeldBy(k) = {} /\ ~ WorksOn(k) /\ k.step = "idle"
      BY <2>1 DEF Calls, CallFits, HeldBy, WorksOn, Idle
    <2>3. call' = [call EXCEPT ![t] = k]
      BY <1>1, <1>14, <2>1
    <2>4. HeldBy(c) = {h} \cup Range(c.restore) /\ h \notin Range(c.restore)
      BY <1>2, <1>3, <1>14, NextOne
    <2>5. StripFits(call', slot)
      BY <1>11, <2>2, <2>3, StripMoved
    <2>6. /\ c.restore \in Seq(Handles) /\ Once(c.restore)
          /\ ~ c.swapchain => c.restore = <<>>
      BY <1>1, <1>3, ShapesOfCalls DEF Destroyings
    <2>7. /\ owned' \cup ShownOf(call', images') \cup HeldBy(k)
               = ((owned \cup ShownOf(call, images) \cup HeldBy(c)) \ G) \cup none
          /\ owned' \cap ShownOf(call', images') = {}
          /\ (owned' \cup ShownOf(call', images')) \cap HeldBy(k) = {}
          /\ owned' \subseteq Handles /\ images' \in Seq(Handles) /\ Once(images')
      <3>1. CASE c.swapchain
        <4>1. images' = c.restore
          BY <1>1, <1>14, <3>1
        <4>2. c.step # "populating" /\ WorksOn(c)
          BY <1>1, <1>12, <3>1
        <4>3. ShownOf(call', images') = Range(c.restore)
          BY <1>10, <2>2, <2>3, <4>1, <4>2, ShownAfter
        <4>4. ShownOf(call, images) = {}
          BY <1>10, <2>2, <2>3, <4>2, ShownAfter
        <4>5. QED
          BY <1>4, <1>9, <1>11, <2>2, <2>4, <2>6, <4>1, <4>3, <4>4
      <3>2. CASE ~ c.swapchain
        <4>1. images' = images /\ ~ WorksOn(c)
          BY <1>1, <1>12, <3>2
        <4>2. ShownOf(call', images') = ShownOf(call, images)
          BY <1>10, <2>2, <2>3, <4>1, ShownAfter
        <4>3. Range(c.restore) = {}
          BY <2>6, <3>2, RangeIn
        <4>4. h \notin owned \cup ShownOf(call, images)
          BY <1>4, <1>11
        <4>5. QED
          BY <1>9, <1>11, <2>2, <2>4, <4>1, <4>2, <4>3, <4>4
      <3>3. QED
        BY <3>1, <3>2
    <2>8. OwnersFit(owned', images', call', resources')
      BY <1>10, <2>2, <2>3, <2>7, Moved
    <2>9. QED
      BY <1>1, <1>8, <2>5, <2>8 DEF IInv
  <1>15. QED
    BY <1>13, <1>14

(* ResizeSwapchain: the images, which have no views, are put aside.        *)
LEMMA ResizeSwapchainKeeps ==
  ASSUME IInv, ~ ViewsKeptAcrossResize, NEW t \in Threads, ResizeSwapchain(t)
  PROVE  IInv'
  <1>1. PICK k : k = [step |-> "populating", todo |-> <<>>, swapchain |-> TRUE, restore |-> images]
    OBVIOUS
  <1>2. /\ call[t].step = "idle" /\ OnSwapchain = {} /\ images' = <<>>
        /\ \A s \in Slots : slot[s].resource \notin Range(images)
        /\ call' = [call EXCEPT ![t] = k]
        /\ UNCHANGED <<views, heaps, owned>>
    BY <1>1 DEF ResizeSwapchain, At
  <1>3. k.step = "populating" /\ k.todo = <<>> /\ k.swapchain /\ k.restore = images
    BY <1>1
  <1>4. k \in Calls
    <2>1. images \in Seq(Handles) /\ Once(images)
      BY Mine
    <2>2. k \in Populatings
      BY <1>1, <2>1 DEF Populatings
    <2>3. QED
      BY <1>3, <2>1, <2>2 DEF Calls, CallFits
  <1>5. HeldBy(k) = Range(images) /\ WorksOn(k)
    <2>1. Range(<<>>) = {}
      BY Mine
    <2>2. QED
      BY <1>3, <2>1 DEF HeldBy, WorksOn
  <1>6. \A u \in Threads : ~ WorksOn(call[u])
    BY <1>2, Mine
  <1>7. ShownOf(call', images') = {} /\ ShownOf(call, images) = Range(images)
    <2>1. Range(images') = {} /\ OwnersFit(owned, images, call, resources)
      BY <1>2, Mine
    <2>2. ShownOf(call', images') = Range(images')
      BY <1>2, <1>3, <1>4, <1>6, <2>1, ShownAfter
    <2>3. ShownOf(call, images) = Range(images)
      BY <1>2, <1>4, <1>6, <2>1, ShownAfter
    <2>4. QED
      BY <2>1, <2>2, <2>3
  <1>8. /\ HeldBy(call[t]) = {} /\ owned \subseteq Handles
        /\ owned \cap ShownOf(call, images) = {}
        /\ images' \in Seq(Handles) /\ Once(images')
    BY <1>2, Mine
  <1>9. /\ owned' \cup ShownOf(call', images') \cup HeldBy(k)
             = owned \cup ShownOf(call, images) \cup HeldBy(call[t])
        /\ owned' \cap ShownOf(call', images') = {}
        /\ (owned' \cup ShownOf(call', images')) \cap HeldBy(k) = {}
        /\ owned' \subseteq Handles
    BY <1>2, <1>5, <1>7, <1>8
  <1>10. \A h \in Range(k.restore) : BareIn(slot, h)
    BY <1>2, <1>3 DEF BareIn
  <1>11. UNCHANGED <<views, heaps>>
    BY <1>2
  <1>12. QED
    BY <1>2, <1>3, <1>4, <1>6, <1>8, <1>9, <1>10, <1>11, HandedOn

(* PopulateImage: the swapchain has one more image.                        *)
LEMMA PopulateImageKeeps ==
  ASSUME IInv, NEW t \in Threads, PopulateImage(t)
  PROVE  IInv'
  <1> DEFINE c == call[t]
  <1>1. PICK r, h : r = Alloc(resources, NoSlot) /\ h = NextHandle(resources)
    OBVIOUS
  <1>2. /\ c.step = "populating" /\ HasRoom /\ resources' = r /\ images' = Append(images, h)
        /\ UNCHANGED <<slot, heaps, owned, call>>
        /\ ViewsFit(Now) /\ OwnersFit(owned, images, call, resources)
    BY <1>1 DEF PopulateImage, At, IInv
  <1>3. /\ ViewsFit(With(r)) /\ h \in Handles /\ Resolves(r, h) /\ ~ Resolves(resources, h)
        /\ \A g : g # h => (g \in Handles => (Resolves(r, g) <=> Resolves(resources, g)))
    BY <1>1, <1>2, AllocFits
  <1>4. PICK v : v = With(r)
    OBVIOUS
  <1>5. ViewsFit(v) /\ Becomes(v)
    BY <1>2, <1>3, <1>4 DEF With, Becomes
  <1>6. ViewsFit(Now)'
    BY <1>5, PrimedParts
  <1>7. c \in Calls /\ WorksOn(c) /\ call' = [call EXCEPT ![t] = c]
    <2>1. c \in Calls /\ call \in [Threads -> Calls]
      BY Mine
    <2>2. c \in Populatings
      BY <1>2, <2>1, ShapesOfCalls
    <2>3. WorksOn(c)
      BY <1>2, <2>2 DEF WorksOn, Populatings
    <2>4. QED
      BY <1>2, <2>1, <2>3
  <1>8. h \notin owned \cup ShownOf(call, images) /\ h \notin HeldBy(c)
    BY <1>3, HeldResolve
  <1>9. ShownOf(call, images) = Range(images) /\ ShownOf(call', images') = Range(images')
    <2>1. ShownOf(call, images) = Range(images)
      BY <1>2, <1>7, ShownAfter
    <2>2. ShownOf(call', images') = Range(images')
      BY <1>2, <1>7, ShownAfter
    <2>3. QED
      BY <2>1, <2>2
  <1>10. images' \in Seq(Handles) /\ Once(images') /\ Range(images') = Range(images) \cup {h}
    <2>1. images \in Seq(Handles) /\ Once(images) /\ h \notin Range(images)
      BY <1>8, <1>9, Mine
    <2>2. QED
      BY <1>2, <1>3, <2>1, RangeOfAppend
  <1>11. PICK none, N : none = {} /\ N = {h}
    OBVIOUS
  <1>12. /\ \A g \in Handles :
              Resolves(resources', g) <=> (g \in N \/ (Resolves(resources, g) /\ g \notin none))
         /\ none \subseteq owned \cup ShownOf(call, images) \cup HeldBy(c)
         /\ N \subseteq Handles /\ \A g \in N : ~ Resolves(resources, g)
    BY <1>2, <1>3, <1>11
  <1>13. /\ owned \cap ShownOf(call, images) = {} /\ owned \subseteq Handles /\ owned' = owned
         /\ (owned \cup ShownOf(call, images)) \cap HeldBy(c) = {}
    BY <1>2, Mine
  <1>14. /\ owned' \cup ShownOf(call', images') \cup HeldBy(c)
               = ((owned \cup ShownOf(call, images) \cup HeldBy(c)) \ none) \cup N
         /\ owned' \cap ShownOf(call', images') = {}
         /\ (owned' \cup ShownOf(call', images')) \cap HeldBy(c) = {}
         /\ owned' \subseteq Handles
    BY <1>8, <1>9, <1>10, <1>11, <1>13
  <1>15. OwnersFit(owned', images', call', resources')
    BY <1>2, <1>7, <1>10, <1>12, <1>14, Moved
  <1>16. QED
    BY <1>2, <1>6, <1>15 DEF IInv

(* The images of a thread that populates the swapchain, and those it has   *)
(* put aside.                                                              *)
LEMMA Populating ==
  ASSUME IInv, NEW t \in Threads, call[t].step = "populating"
  PROVE  /\ WorksOn(call[t]) /\ HeldBy(call[t]) = Range(call[t].restore)
         /\ call[t].restore \in Seq(Handles) /\ Once(call[t].restore)
         /\ ShownOf(call, images) = Range(images)
         /\ Range(call[t].restore) \cap Range(images) = {}
         /\ \A h \in Range(call[t].restore) : BareIn(slot, h)
  <1>1. call[t] \in Populatings /\ Once(call[t].restore)
    BY Mine, ShapesOfCalls
  <1>2. call[t].swapchain /\ call[t].todo = <<>> /\ call[t].restore \in Seq(Handles)
    BY <1>1 DEF Populatings
  <1>3. WorksOn(call[t])
    BY <1>2 DEF WorksOn
  <1>4. HeldBy(call[t]) = Range(call[t].restore)
    <2>1. Range(<<>>) = {}
      BY Mine
    <2>2. QED
      BY <1>2, <2>1 DEF HeldBy
  <1>5. ShownOf(call, images) = Range(images)
    <2>1. \A u \in Threads : WorksOn(call[u]) => u = t
      BY <1>3, Mine
    <2>2. QED
      BY <2>1 DEF ShownOf
  <1>6. Range(call[t].restore) \cap Range(images) = {}
    BY <1>4, <1>5, Mine
  <1>7. \A h \in Range(call[t].restore) : BareIn(slot, h)
    BY Mine DEF StripFits
  <1>8. QED
    BY <1>1, <1>2, <1>3, <1>4, <1>5, <1>6, <1>7

(* ResizeSucceeds: the images shown are what is left, and those put aside  *)
(* are to be destroyed.                                                    *)
LEMMA ResizeSucceedsKeeps ==
  ASSUME IInv, NEW t \in Threads, ResizeSucceeds(t)
  PROVE  IInv'
  <1>1. PICK old : old = call[t].restore
    OBVIOUS
  <1>2. PICK yes \in BOOLEAN : yes = TRUE
    OBVIOUS
  <1>3. PICK k : k = Destroying("destroying", old, yes, images)
    OBVIOUS
  <1>4. /\ call[t].step = "populating" /\ call' = [call EXCEPT ![t] = k]
        /\ UNCHANGED <<views, heaps, images, owned>>
    BY <1>1, <1>2, <1>3 DEF ResizeSucceeds, At
  <1>5. /\ WorksOn(call[t]) /\ HeldBy(call[t]) = Range(old)
        /\ old \in Seq(Handles) /\ Once(old)
        /\ ShownOf(call, images) = Range(images) /\ Range(old) \cap Range(images) = {}
        /\ \A h \in Range(old) : BareIn(slot, h)
    BY <1>1, <1>4, Populating
  <1>6. /\ images \in Seq(Handles) /\ Once(images) /\ owned \subseteq Handles
        /\ owned \cap ShownOf(call, images) = {}
        /\ (owned \cup ShownOf(call, images)) \cap HeldBy(call[t]) = {}
        /\ OwnersFit(owned, images, call, resources)
        /\ owned' = owned /\ images' = images
    BY <1>4, Mine
  <1>7. k \in Calls
    <2>1. "destroying" \in {"releasing", "destroying"} /\ yes
      BY <1>2
    <2>2. QED
      BY <1>3, <1>5, <1>6, <2>1, DestroyingFits
  <1>8. CASE old = <<>>
    <2>1. HeldBy(k) = {} /\ ~ WorksOn(k) /\ k.step = "idle"
      BY <1>3, <1>8 DEF Destroying, Idle, HeldBy, WorksOn
    <2>2. ShownOf(call', images') = Range(images')
      BY <1>4, <1>5, <1>6, <1>7, <2>1, ShownAfter
    <2>3. Range(old) = {}
      BY <1>5, <1>8, RangeIn
    <2>4. /\ owned' \cup ShownOf(call', images') \cup HeldBy(k)
               = owned \cup ShownOf(call, images) \cup HeldBy(call[t])
          /\ owned' \cap ShownOf(call', images') = {}
          /\ (owned' \cup ShownOf(call', images')) \cap HeldBy(k) = {}
          /\ owned' \subseteq Handles /\ images' \in Seq(Handles) /\ Once(images')
      BY <1>5, <1>6, <2>1, <2>2, <2>3
    <2>5. UNCHANGED <<views, heaps>>
      BY <1>4
    <2>6. QED
      BY <1>4, <1>7, <2>1, <2>4, <2>5, HandedOn
  <1>9. CASE old # <<>>
    <2>1. k = [step |-> "destroying", releases |-> "destroying" = "releasing",
               todo |-> old, swapchain |-> yes, restore |-> images]
      BY <1>3, <1>9 DEF Destroying
    <2>2. /\ k.step = "destroying" /\ k.todo = old /\ k.swapchain = yes /\ k.restore = images
      BY <2>1
    <2>3. HeldBy(k) = Range(old) \cup Range(images) /\ WorksOn(k)
      BY <1>2, <2>2 DEF HeldBy, WorksOn
    <2>4. ShownOf(call', images') = {}
      BY <1>4, <1>5, <1>6, <1>7, <2>2, <2>3, ShownAfter
    <2>5. /\ owned' \cup ShownOf(call', images') \cup HeldBy(k)
               = owned \cup ShownOf(call, images) \cup HeldBy(call[t])
          /\ owned' \cap ShownOf(call', images') = {}
          /\ (owned' \cup ShownOf(call', images')) \cap HeldBy(k) = {}
          /\ owned' \subseteq Handles /\ images' \in Seq(Handles) /\ Once(images')
      BY <1>5, <1>6, <2>3, <2>4
    <2>6. Head(k.todo) \in Range(k.todo)
      BY <1>5, <1>9, <2>2, RangeOfTail
    <2>7. /\ BareIn(slot, Head(k.todo)) /\ \A h \in Range(k.todo) : BareIn(slot, h)
      BY <1>5, <2>2, <2>6
    <2>8. UNCHANGED <<views, heaps>>
      BY <1>4
    <2>9. QED
      BY <1>4, <1>5, <1>7, <2>2, <2>5, <2>7, <2>8, HandedOn
  <1>10. QED
    BY <1>8, <1>9

(* ResizeFails: the images there are so far are to be destroyed, and those *)
(* put aside are put back.                                                 *)
LEMMA ResizeFailsKeeps ==
  ASSUME IInv, NEW t \in Threads, ResizeFails(t)
  PROVE  IInv'
  <1>1. PICK old : old = call[t].restore
    OBVIOUS
  <1>2. PICK yes \in BOOLEAN : yes = TRUE
    OBVIOUS
  <1>3. PICK k : k = Destroying("releasing", images, yes, old)
    OBVIOUS
  <1>4. /\ call[t].step = "populating" /\ call' = [call EXCEPT ![t] = k]
        /\ images' = IF images = <<>> THEN old ELSE images
        /\ UNCHANGED <<views, heaps, owned>>
    BY <1>1, <1>2, <1>3 DEF ResizeFails, At
  <1>5. /\ WorksOn(call[t]) /\ HeldBy(call[t]) = Range(old)
        /\ old \in Seq(Handles) /\ Once(old)
        /\ ShownOf(call, images) = Range(images) /\ Range(images) \cap Range(old) = {}
    BY <1>1, <1>4, Populating
  <1>6. /\ images \in Seq(Handles) /\ Once(images) /\ owned \subseteq Handles
        /\ owned \cap ShownOf(call, images) = {}
        /\ (owned \cup ShownOf(call, images)) \cap HeldBy(call[t]) = {}
        /\ OwnersFit(owned, images, call, resources)
        /\ owned' = owned
    BY <1>4, Mine
  <1>7. k \in Calls
    <2>1. "releasing" \in {"releasing", "destroying"} /\ yes
      BY <1>2
    <2>2. QED
      BY <1>3, <1>5, <1>6, <2>1, DestroyingFits
  <1>8. CASE images = <<>>
    <2>1. HeldBy(k) = {} /\ ~ WorksOn(k) /\ k.step = "idle"
      BY <1>3, <1>8 DEF Destroying, Idle, HeldBy, WorksOn
    <2>2. images' = old
      BY <1>4, <1>8
    <2>3. ShownOf(call', images') = Range(images')
      BY <1>4, <1>5, <1>6, <1>7, <2>1, ShownAfter
    <2>4. Range(images) = {}
      BY <1>6, <1>8, RangeIn
    <2>5. /\ owned' \cup ShownOf(call', images') \cup HeldBy(k)
               = owned \cup ShownOf(call, images) \cup HeldBy(call[t])
          /\ owned' \cap ShownOf(call', images') = {}
          /\ (owned' \cup ShownOf(call', images')) \cap HeldBy(k) = {}
          /\ owned' \subseteq Handles /\ images' \in Seq(Handles) /\ Once(images')
      BY <1>5, <1>6, <2>1, <2>2, <2>3, <2>4
    <2>6. UNCHANGED <<views, heaps>>
      BY <1>4
    <2>7. QED
      BY <1>4, <1>7, <2>1, <2>5, <2>6, HandedOn
  <1>9. CASE images # <<>>
    <2>1. k = [step |-> "releasing", releases |-> "releasing" = "releasing",
               todo |-> images, swapchain |-> yes, restore |-> old]
      BY <1>3, <1>9 DEF Destroying
    <2>2. /\ k.step = "releasing" /\ k.todo = images /\ k.swapchain = yes /\ k.restore = old
      BY <2>1
    <2>3. HeldBy(k) = Range(images) \cup Range(old) /\ WorksOn(k)
      BY <1>2, <2>2 DEF HeldBy, WorksOn
    <2>4. images' = images
      BY <1>4, <1>9
    <2>5. ShownOf(call', images') = {}
      BY <1>4, <1>5, <1>6, <1>7, <2>2, <2>3, ShownAfter
    <2>6. /\ owned' \cup ShownOf(call', images') \cup HeldBy(k)
               = owned \cup ShownOf(call, images) \cup HeldBy(call[t])
          /\ owned' \cap ShownOf(call', images') = {}
          /\ (owned' \cup ShownOf(call', images')) \cap HeldBy(k) = {}
          /\ owned' \subseteq Handles /\ images' \in Seq(Handles) /\ Once(images')
      BY <1>5, <1>6, <2>3, <2>4, <2>5
    <2>7. UNCHANGED <<views, heaps>>
      BY <1>4
    <2>8. QED
      BY <1>4, <1>5, <1>7, <2>2, <2>6, <2>7, HandedOn
  <1>10. QED
    BY <1>8, <1>9

-----------------------------------------------------------------------------
(* The invariant holds at first ... *)
LEMMA IInvInit == Init => IInv
  <1> SUFFICES ASSUME Init PROVE IInv
    OBVIOUS
  <1>1. /\ resources = EmptyRegistry /\ slot = [s \in Slots |-> EmptySlot] /\ heaps = Heaps
        /\ owned = {} /\ images = <<>> /\ call = [t \in Threads |-> Idle]
    BY DEF Init
  <1>2. resources.slots = <<>> /\ Len(resources.slots) = 0 /\ DOMAIN resources.slots = {}
    BY <1>1 DEF EmptyRegistry
  <1>3. WellFormed(resources, Objects)
    BY <1>1 DEF WellFormed, EmptyRegistry, Slot
  <1>4. RegistryFits(resources)
    BY <1>2, <1>3, Assumed DEF RegistryFits
  <1>5. slot \in [Slots -> Nodes] /\ \A s \in Slots : slot[s].resource = NoResource
    <2>1. EmptySlot \in Nodes /\ EmptySlot.resource = NoResource
      BY Assumed DEF EmptySlot, Nodes, NoResource, Handle, Handles, Objects
    <2>2. QED
      BY <1>1, <2>1
  <1>6. ViewsFit(Now)
    BY <1>2, <1>4, <1>5 DEF ViewsFit, Now
  <1>7. Idle \in Calls /\ HeldBy(Idle) = {} /\ ~ WorksOn(Idle) /\ Idle.step = "idle"
    BY DEF Calls, CallFits, HeldBy, WorksOn, Idle
  <1>8. images \in Seq(Handles) /\ Once(images) /\ Range(images) = {}
    <2>1. images \in Seq(Handles) /\ Once(images)
      BY <1>1 DEF Once
    <2>2. QED
      BY <1>1, <2>1, RangeIn
  <1>9. ShownOf(call, images) = {}
    BY <1>8 DEF ShownOf
  <1>10. call \in [Threads -> Calls] /\ \A t \in Threads : call[t] = Idle
    BY <1>1, <1>7
  <1>11. \A h : ~ Resolves(resources, h)
    BY <1>2 DEF Resolves
  <1>12. OwnersFit(owned, images, call, resources)
    BY <1>1, <1>7, <1>8, <1>9, <1>10, <1>11 DEF OwnersFit
  <1>13. StripFits(call, slot)
    BY <1>7, <1>10 DEF StripFits
  <1>14. HeapsFit(heaps, slot)
    BY <1>1, <1>5 DEF HeapsFit
  <1>15. QED
    BY <1>6, <1>12, <1>13, <1>14 DEF IInv

(* ... and every step keeps it, if no views of the images exist when the   *)
(* swapchain is resized.                                                   *)
LEMMA IInvNext ==
  ASSUME ~ ViewsKeptAcrossResize, IInv, [Next]_vars
  PROVE  IInv'
  <1>1. CASE CreateResource
    BY <1>1, CreateResourceKeeps
  <1>2. CASE \E s \in Slots : CreateNullView(s) \/ \E h \in Usable : CreateView(s, h)
    <2>1. ASSUME NEW s \in Slots, CreateNullView(s) PROVE IInv'
      BY <2>1, ResetKeeps DEF CreateNullView
    <2>2. ASSUME NEW s \in Slots, NEW h \in Usable, CreateView(s, h) PROVE IInv'
      BY <2>2, CreateViewKeeps
    <2>3. QED
      BY <1>2, <2>1, <2>2
  <1>3. CASE \E g \in Heaps : CreateDescriptorHeap(g) \/ DestroyDescriptorHeap(g)
    <2>1. ASSUME NEW g \in Heaps, CreateDescriptorHeap(g) PROVE IInv'
      <3>1. heaps \subseteq Heaps
        BY DEF IInv, HeapsFit
      <3>2. QED
        BY <2>1, <3>1, OthersKeep DEF CreateDescriptorHeap
    <2>2. ASSUME NEW g \in Heaps, DestroyDescriptorHeap(g) PROVE IInv'
      BY <2>2, DestroyHeapKeeps
    <2>3. QED
      BY <1>3, <2>1, <2>2
  <1>4. CASE WriteSamplers \/ UNCHANGED vars
    <2>1. heaps \subseteq Heaps
      BY DEF IInv, HeapsFit
    <2>2. UNCHANGED <<views, owned, images, call>> /\ heaps' = heaps
      BY <1>4 DEF WriteSamplers, vars, views
    <2>3. QED
      BY <2>1, <2>2, OthersKeep
  <1>5. ASSUME NEW t \in Threads,
               \/ DestroyBuffer(t) \/ DestroySwapchain(t)
               \/ ReleaseViews(t) \/ DestroyResource(t) \/ FreeHandle(t)
               \/ ResizeSwapchain(t) \/ PopulateImage(t) \/ ResizeSucceeds(t) \/ ResizeFails(t)
        PROVE  IInv'
    BY <1>5, DestroyBufferKeeps, DestroySwapchainKeeps, ReleaseViewsKeeps, DestroyResourceKeeps,
       FreeHandleKeeps, ResizeSwapchainKeeps, PopulateImageKeeps, ResizeSucceedsKeeps, ResizeFailsKeeps
  <1>6. QED
    BY <1>1, <1>2, <1>3, <1>4, <1>5 DEF Next

(* What the calls hold is in use, and what the swapchain shows is shown.   *)
LEMMA OwnersNamed ==
  ASSUME IInv
  PROVE  /\ Shown = ShownOf(call, images)
         /\ \A h : h \in InUse <=> \E t \in Threads : h \in HeldBy(call[t])
  <1>1. Shown = ShownOf(call, images)
    BY DEF Shown, ShownOf, OnSwapchain, WorksOn, At
  <1>2. ASSUME NEW h, h \in InUse PROVE \E t \in Threads : h \in HeldBy(call[t])
    BY <1>2 DEF InUse, HeldBy, At
  <1>3. ASSUME NEW t \in Threads, NEW h \in HeldBy(call[t]) PROVE h \in InUse
    BY <1>3 DEF InUse, HeldBy, At
  <1>4. QED
    BY <1>1, <1>2, <1>3

(* Whoever reads the lists finds them exact. *)
LEMMA IInvLists ==
  ASSUME IInv, SamplersFit
  PROVE  ListsExact
  <1>1. /\ RegistryFits(resources) /\ slot \in [Slots -> Nodes] /\ ViewsFit(Now)
        /\ DOMAIN resources.slots = 1 .. Len(resources.slots) /\ heaps \subseteq Heaps
        /\ owned \subseteq Handles /\ images \in Seq(Handles)
    BY Parts DEF IInv, ViewsFit, Now, RegistryFits, OwnersFit, HeapsFit
  <1>2. cache \in [Descriptions -> 0 .. Cardinality(SamplerSlots)]
    <2>1. ASSUME NEW d \in Descriptions PROVE cache[d] \in 0 .. Cardinality(SamplerSlots)
      <3>1. Having(d) \subseteq SamplerSlots
        BY DEF Having
      <3>2. Cardinality(Having(d)) <= Cardinality(SamplerSlots)
        BY <3>1, Assumed, FS_Subset
      <3>3. cache[d] = Cardinality(Having(d)) /\ cache[d] \in Nat
        BY DEF SamplersFit
      <3>4. QED
        BY <3>2, <3>3, Assumed
    <2>2. QED
      BY <2>1 DEF SamplersFit
  <1>3. TypeOK
    <2>1. \A i \in 1 .. Len(resources.slots) : resources.slots[i].alive \in BOOLEAN
      BY <1>1, Parts DEF RegistryFits
    <2>2. images \in [1 .. Len(images) -> Handles]
      BY <1>1
    <2>3. slot \in [Slots -> [resource : Handles, previous : Slots \cup {NoSlot}, next : Slots \cup {NoSlot}]]
      BY <1>1 DEF Nodes, Objects
    <2>4. sampler \in [SamplerSlots -> Descriptions \cup {NoSampler}]
      BY DEF SamplersFit
    <2>5. \A i \in DOMAIN resources.slots :
            LET r == resources.slots[i]
            IN /\ r.generation \in 1 .. MaxGeneration /\ r.alive \in BOOLEAN
               /\ r.obj \in IF r.alive THEN Slots \cup {NoSlot} ELSE {NoObject}
      BY <1>1, <2>1 DEF RegistryFits, Objects
    <2>6. Len(resources.slots) <= MaxResources
      BY <1>1 DEF RegistryFits
    <2>7. QED
      BY <1>1, <1>2, <2>2, <2>3, <2>4, <2>5, <2>6 DEF TypeOK
  <1>4. ASSUME NEW i \in DOMAIN resources.slots, resources.slots[i].alive
        PROVE  /\ ListOf(i) = {s \in Slots : slot[s].resource.index = i}
               /\ \A s \in ListOf(i) : IF slot[s].previous = NoSlot THEN resources.slots[i].obj = s
                                       ELSE slot[slot[s].previous].next = s
    BY <1>1, <1>4, ListOfIs
  <1>5. QED
    BY <1>3, <1>4 DEF ListsExact

(* Every resource belongs to someone. *)
LEMMA IInvAccounted ==
  ASSUME IInv
  PROVE  ResourcesAccounted
  <1>1. /\ RegistryFits(resources) /\ DOMAIN resources.slots = 1 .. Len(resources.slots)
        /\ Len(resources.slots) \in Nat /\ Len(resources.slots) <= MaxResources
    BY Parts DEF IInv, ViewsFit, Now, RegistryFits
  <1>2. ASSUME NEW i \in DOMAIN resources.slots, resources.slots[i].alive
        PROVE  Handle(i, resources.slots[i].generation) \in owned \cup Shown \cup InUse
    <2>1. PICK h : h = Handle(i, resources.slots[i].generation)
      OBVIOUS
    <2>2. resources.slots[i].generation \in 0 .. MaxGeneration /\ i \in 0 .. MaxResources
      BY <1>1, Assumed DEF RegistryFits
    <2>3. h \in Handles /\ Resolves(resources, h)
      BY <1>2, <2>1, <2>2 DEF Handle, Handles, Resolves
    <2>4. h \in owned \cup ShownOf(call, images) \/ \E t \in Threads : h \in HeldBy(call[t])
      BY <2>3 DEF IInv, OwnersFit
    <2>5. QED
      BY <2>1, <2>4, OwnersNamed
  <1>3. ASSUME NEW h \in owned \cup Shown \cup InUse PROVE Resolves(resources, h)
    BY <1>3, OwnersNamed, HeldResolve
  <1>4. QED
    BY <1>2, <1>3 DEF ResourcesAccounted

(* Every resource lists exactly the slots with a view of it, linked both   *)
(* ways, and belongs to a caller, the swapchain or a call that is to free  *)
(* it, each handle once: for any number of threads, heaps, slots and       *)
(* images, when no views of the images exist as the swapchain is resized.  *)
THEOREM ResourcesAlwaysExact ==
  ASSUME ~ ViewsKeptAcrossResize
  PROVE  Spec => []ResourcesExact
  <1>1. IInv /\ SamplersFit => ResourcesExact
    BY IInvLists, IInvAccounted DEF ResourcesExact
  <1>2. IInv /\ [Next]_vars => IInv'
    BY IInvNext
  <1>3. QED
    BY <1>1, <1>2, IInvInit, SamplersInit, SamplersStep, PTL DEF Spec

(* No slot points to a resource that is gone, or to the one that took its  *)
(* place, and no heap that is gone holds a view.                           *)
THEOREM ViewsAlwaysOfLive ==
  ASSUME ~ ViewsKeptAcrossResize
  PROVE  Spec => []ViewsOfLiveResources
  <1>1. IInv => ViewsOfLiveResources
    BY DEF IInv, ViewsFit, Now, HeapsFit, ViewsOfLiveResources, Linked
  <1>2. IInv /\ [Next]_vars => IInv'
    BY IInvNext
  <1>3. QED
    BY <1>1, <1>2, IInvInit, PTL DEF Spec
=============================================================================
