------------------------- MODULE CommandList_proofs -------------------------
(***************************************************************************)
(* Proofs about CommandList, for any number of lists, heaps and preprocess *)
(* pages: preprocess memory is never shared; and when resetting a list     *)
(* that records does not fail half-way, push data is what was given, the   *)
(* pass and the bindings a list believes in are those of its buffer, and   *)
(* what Submit accepts can be run.                                         *)
(*                                                                         *)
(* A command changes one list, a preprocess two.  Each command is shown to *)
(* leave its list Almost right, that is, right but for what Settled and    *)
(* Left take from a list that failed; the rest is common to all of them.   *)
(***************************************************************************)
EXTENDS CommandList, SequenceTheorems, TLAPS

(* Types. *)
States == {"none", "initial", "recording", "executable", "invalid", "discarded"}
ListSet ==
  [kind : {"primary", "secondary", "adopted"}, isRecording : BOOLEAN, error : BOOLEAN,
   passActive : BOOLEAN, continues : BOOLEAN, layout : Layouts \cup {None},
   heap : Heaps \cup {None}, emitted : Heaps \cup {None}, image : SUBSET (1 .. 3),
   pushedDirty : BOOLEAN, spilledDirty : BOOLEAN, pages : SUBSET Pages,
   preprocessed : Seq(BOOLEAN), barrierPending : BOOLEAN, ended : BOOLEAN]
BufferSet ==
  [state : States, rendering : {"none", "inline", "secondaries"}, heap : Heaps \cup {None},
   push : SUBSET (1 .. 3), spill : Lists \cup {None}, units : SUBSET (Pages \X Nat),
   unflushed : BOOLEAN, executed : SUBSET Lists,
   wrong : SUBSET {"push", "rendering", "shared", "unflushed"}]
PageSet == [capacity : Nat, cursor : Nat]

Typed ==
  /\ bufferModel \in BOOLEAN
  /\ DOMAIN list \subseteq Lists /\ list \in [DOMAIN list -> ListSet]
  /\ gpu \in [DOMAIN list -> BufferSet]
  /\ \A l \in DOMAIN list : Len(list[l].preprocessed) <= MaxRecords
  /\ DOMAIN page \subseteq Pages /\ page \in [DOMAIN page -> PageSet]
  /\ pool \in [DOMAIN pool -> Nat]

(* Every page is one list's or the pool's, and what a list's commands use  *)
(* lies in its pages below the cursors.                                    *)
PagesInv ==
  /\ \A l \in DOMAIN list : "shared" \notin gpu[l].wrong
  /\ \A p : p \in DOMAIN page <=> p \in DOMAIN pool \/ \E l \in DOMAIN list : p \in list[l].pages
  /\ \A p \in DOMAIN page : page[p].cursor <= page[p].capacity
  /\ \A l \in DOMAIN list :
       /\ list[l].pages \cap DOMAIN pool = {}
       /\ \A k \in DOMAIN list \ {l} : list[l].pages \cap list[k].pages = {}
       /\ \A u \in gpu[l].units : u[1] \in list[l].pages /\ u[2] < page[u[1]].cursor

(* What is to be pushed is there, or known to be missing. *)
Known(l, s, g) ==
  bufferModel \/ g.executed = {} =>
    /\ ~ s.pushedDirty => PushedOf(s.layout) \cap s.image \subseteq g.push
    /\ Spills(s.layout) /\ ~ s.spilledDirty /\ s.image \ PushedOf(s.layout) # {} => g.spill = l

(* A list and its buffer agree. *)
Agree(l, s, g) ==
  /\ g.rendering # "none" <=> s.passActive /\ ~ s.continues
  /\ s.emitted # None => g.heap = s.emitted
  /\ g.unflushed => s.barrierPending /\ ~ s.passActive
  /\ Known(l, s, g)

Stages(s, g) ==
  /\ s.isRecording => g.state \in {"recording", "invalid"}
  /\ s.ended => g.state = "executable" /\ ~ s.isRecording

Blank(s, g) ==
  /\ s.layout = None /\ s.emitted = None /\ ~ s.passActive
  /\ ~ s.pushedDirty /\ ~ s.spilledDirty /\ ~ s.barrierPending /\ s.image = {}

Fine(l, s, g) ==
  /\ g.wrong = {}
  /\ Stages(s, g)
  /\ Agree(l, s, g)
  /\ Recorded(s, g) => Blank(s, g)

(* A list and its buffer before Settled and Left. *)
Almost(l, s, g) ==
  /\ g.wrong \subseteq {"push"} /\ ("push" \in g.wrong => s.error)
  /\ Stages(s, g)
  /\ ~ Recorded(s, g) => Agree(l, s, g)

(* Lists that are executed stay as they are. *)
Executions ==
  \A l \in DOMAIN list : \A k \in gpu[l].executed :
    k \in DOMAIN list /\ gpu[k].state = "executable" /\ ~ list[k].isRecording

RecordsFine == Executions /\ \A l \in DOMAIN list : Fine(l, list[l], gpu[l])

IInv == Typed /\ PagesInv /\ (~ OpenResetMayFail => RecordsFine)
-----------------------------------------------------------------------------
(* What is left of a list that failed or ended is blank, and a list that   *)
(* is almost right is right.                                               *)
LEMMA SettledTyped ==
  ASSUME NEW s \in ListSet, NEW g \in BufferSet
  PROVE  /\ Settled(s, g) \in ListSet /\ Left(s, g) \in BufferSet
         /\ Settled(s, g).pages = s.pages /\ Left(s, g).units = g.units
         /\ Settled(s, g).isRecording = s.isRecording /\ Left(s, g).state = g.state
         /\ Left(s, g).executed \subseteq g.executed
         /\ Left(s, g).wrong \subseteq g.wrong
         /\ Len(s.preprocessed) <= MaxRecords => Len(Settled(s, g).preprocessed) <= MaxRecords
  <1>1. CASE ~ Recorded(s, g)
    <2>1. Settled(s, g) = s
      BY <1>1 DEF Settled
    <2>2. PICK P \in SUBSET (1 .. 3) : P = g.push \cap s.image
      BY DEF BufferSet
    <2>3. Left(s, g) = [g EXCEPT !.push = P]
      BY <1>1, <2>2 DEF Left
    <2>4. /\ Left(s, g) \in BufferSet /\ Left(s, g).units = g.units
          /\ Left(s, g).state = g.state /\ Left(s, g).executed = g.executed
          /\ Left(s, g).wrong = g.wrong
      BY <2>3 DEF BufferSet
    <2>5. QED
      BY <2>1, <2>4
  <1>2. CASE Recorded(s, g)
    <2>1. NewList(s.kind) \in ListSet
      BY EmptySeq, CommandListAssumption DEF NewList, ListSet
    <2>2. Empty(g.state) \in BufferSet
      BY DEF Empty, ListSet, BufferSet, States
    <2>3. Settled(s, g) = [NewList(s.kind) EXCEPT !.isRecording = s.isRecording, !.error = s.error,
                              !.continues = s.continues /\ ~ s.error, !.pages = s.pages,
                              !.ended = s.ended]
      BY <1>2 DEF Settled
    <2>4. Settled(s, g) \in ListSet
      BY <2>1, <2>3 DEF ListSet
    <2>5. PICK w \in SUBSET g.wrong, x \in SUBSET g.executed :
            Left(s, g) = [Empty(g.state) EXCEPT !.units = g.units, !.executed = x, !.wrong = w]
      BY <1>2 DEF Left
    <2>6. Left(s, g) \in BufferSet
      <3>1. /\ w \in SUBSET {"push", "rendering", "shared", "unflushed"} /\ x \in SUBSET Lists
            /\ g.units \in SUBSET (Pages \X Nat)
        BY DEF BufferSet
      <3>2. g.state \in States
        BY DEF BufferSet
      <3>3. Left(s, g) =
              [state |-> g.state, rendering |-> "none", heap |-> None,
               push |-> {}, spill |-> None, units |-> g.units, unflushed |-> FALSE,
               executed |-> x, wrong |-> w]
        BY <2>5 DEF Empty
      <3>4. QED
        BY <3>1, <3>2, <3>3 DEF BufferSet
    <2>7. /\ Settled(s, g).pages = s.pages
          /\ Settled(s, g).isRecording = s.isRecording
          /\ Settled(s, g).preprocessed = <<>>
      BY <2>3 DEF NewList
    <2>8. /\ Left(s, g).units = g.units /\ Left(s, g).state = g.state
          /\ Left(s, g).executed = x /\ Left(s, g).wrong = w
      BY <2>5 DEF Empty
    <2>9. Len(Settled(s, g).preprocessed) = 0
      BY <2>7, EmptySeq
    <2>10. 0 <= MaxRecords
      BY CommandListAssumption
    <2>11. QED
      BY <2>4, <2>6, <2>7, <2>8, <2>9, <2>10
  <1>3. QED
    BY <1>1, <1>2

(* Likewise. *)
LEMMA SettledFine ==
  ASSUME NEW l, NEW s \in ListSet, NEW g \in BufferSet, Almost(l, s, g)
  PROVE  Fine(l, Settled(s, g), Left(s, g))
  <1>1. CASE ~ Recorded(s, g)
    <2> DEFINE G == Left(s, g)
    <2>1. Settled(s, g) = s
      BY <1>1 DEF Settled
    <2>2. PICK P : P = g.push \cap s.image
      OBVIOUS
    <2>3. G = [g EXCEPT !.push = P]
      BY <1>1, <2>2 DEF Left
    <2> HIDE DEF G
    <2>4. /\ G.wrong = g.wrong /\ G.state = g.state /\ G.executed = g.executed
          /\ G.rendering = g.rendering /\ G.heap = g.heap /\ G.unflushed = g.unflushed
          /\ G.spill = g.spill /\ G.push = P
      BY <2>3 DEF BufferSet
    <2>5. g.wrong = {} /\ Stages(s, g) /\ Agree(l, s, g)
      BY <1>1 DEF Almost, Recorded, BufferSet
    <2>6. Known(l, s, G)
      BY <2>2, <2>4, <2>5 DEF Agree, Known
    <2>7. Agree(l, s, G)
      BY <2>4, <2>5, <2>6 DEF Agree
    <2>8. Stages(s, G) /\ ~ Recorded(s, G)
      BY <1>1, <2>4, <2>5 DEF Stages, Recorded
    <2>9. Fine(l, s, G)
      BY <2>4, <2>5, <2>7, <2>8 DEF Fine
    <2>10. QED
      BY <2>1, <2>9 DEF G
  <1>2. CASE Recorded(s, g)
    <2> DEFINE S == Settled(s, g)
               G == Left(s, g)
    <2>1. /\ S.isRecording = s.isRecording /\ S.error = s.error /\ S.ended = s.ended
          /\ S.layout = None /\ S.emitted = None /\ S.passActive = FALSE
          /\ S.pushedDirty = FALSE /\ S.spilledDirty = FALSE /\ S.barrierPending = FALSE
          /\ S.image = {}
      BY <1>2 DEF Settled, NewList
    <2>2. /\ G.state = g.state /\ G.rendering = "none" /\ G.heap = None /\ G.unflushed = FALSE
          /\ G.wrong = IF s.error THEN g.wrong \ {"push"} ELSE g.wrong
      BY <1>2 DEF Left, Empty
    <2>3. G.wrong = {}
      BY <2>2 DEF Almost
    <2>4. Stages(S, G)
      BY <2>1, <2>2 DEF Almost, Stages
    <2>5. Agree(l, S, G)
      BY <2>1, <2>2 DEF Agree, Known
    <2>6. Blank(S, G)
      BY <2>1 DEF Blank
    <2>7. QED
      BY <2>3, <2>4, <2>5, <2>6 DEF Fine
  <1>3. QED
    BY <1>1, <1>2
-----------------------------------------------------------------------------
(* The pair of a list and its buffer that a command makes of list l, where *)
(* it changes the lists of D.                                              *)
PairSet == ListSet \X BufferSet
Records(D, l, s, g) ==
  /\ Almost(l, s, g)
  /\ \A j \in g.executed : /\ j \in DOMAIN list /\ gpu[j].state = "executable" /\ ~ list[j].isRecording
                           /\ j \in D => InUse(j)
  /\ InUse(l) => g.state = "executable" /\ ~ s.isRecording

(* What Become makes of the lists. *)
LEMMA BecomeIs ==
  ASSUME Typed, NEW D \in SUBSET DOMAIN list, NEW new \in [D -> PairSet], Become(new)
  PROVE  /\ DOMAIN list' = DOMAIN list /\ DOMAIN gpu' = DOMAIN list
         /\ list' \in [DOMAIN list -> ListSet] /\ gpu' \in [DOMAIN list -> BufferSet]
         /\ \A k \in D : /\ list'[k] = Settled(new[k][1], new[k][2])
                         /\ gpu'[k] = Left(new[k][1], new[k][2])
                         /\ new[k][1] \in ListSet /\ new[k][2] \in BufferSet
         /\ \A k \in DOMAIN list \ D : list'[k] = list[k] /\ gpu'[k] = gpu[k]
  <1>1. DOMAIN new = D
    OBVIOUS
  <1>2. \A k \in D : new[k][1] \in ListSet /\ new[k][2] \in BufferSet
    BY DEF PairSet
  <1>3. \A k \in D : Settled(new[k][1], new[k][2]) \in ListSet /\ Left(new[k][1], new[k][2]) \in BufferSet
    BY <1>2, SettledTyped
  <1>4. list' = [k \in DOMAIN list |-> IF k \in D THEN Settled(new[k][1], new[k][2]) ELSE list[k]]
    BY <1>1 DEF Become
  <1>5. gpu' = [k \in DOMAIN list |-> IF k \in D THEN Left(new[k][1], new[k][2]) ELSE gpu[k]]
    BY <1>1 DEF Become
  <1>6. list \in [DOMAIN list -> ListSet] /\ gpu \in [DOMAIN list -> BufferSet]
    BY DEF Typed
  <1>7. list' \in [DOMAIN list -> ListSet] /\ gpu' \in [DOMAIN list -> BufferSet]
    BY <1>3, <1>4, <1>5, <1>6
  <1>8. QED
    BY <1>2, <1>4, <1>5, <1>7

(* A command keeps the types of the lists, and what it records as Records  *)
(* says stays fine.                                                        *)
LEMMA BecomeTyped ==
  ASSUME Typed, NEW D \in SUBSET DOMAIN list, NEW new \in [D -> PairSet], Become(new),
         \A k \in D : Len(new[k][1].preprocessed) <= MaxRecords,
         bufferModel' = bufferModel,
         DOMAIN page' \subseteq Pages, page' \in [DOMAIN page' -> PageSet],
         pool' \in [DOMAIN pool' -> Nat]
  PROVE  Typed'
  <1>1. \A k \in DOMAIN list : Len(list'[k].preprocessed) <= MaxRecords
    <2>1. \A k \in D : Len(list'[k].preprocessed) <= MaxRecords
      BY BecomeIs, SettledTyped
    <2>2. \A k \in DOMAIN list \ D : Len(list'[k].preprocessed) <= MaxRecords
      BY BecomeIs DEF Typed
    <2>3. QED
      BY <2>1, <2>2
  <1>2. QED
    BY <1>1, BecomeIs DEF Typed

(* A list that is fine as it will be next.                                 *)
LEMMA FineNext ==
  ASSUME NEW k, bufferModel' = bufferModel,
         \E s, g : s = list'[k] /\ g = gpu'[k] /\ Fine(k, s, g)
  PROVE  Fine(k, list[k], gpu[k])'
  <1>1. PICK s, g : s = list'[k] /\ g = gpu'[k] /\ Fine(k, s, g)
    OBVIOUS
  <1>2. Known(k, list[k], gpu[k])'
    <2>1. Known(k, s, g)
      BY <1>1 DEF Fine, Agree
    <2>2. PushedOf(s.layout)' = PushedOf(s.layout) /\ (Spills(s.layout)' <=> Spills(s.layout))
      BY DEF Spills, PushedOf, CellsOf
    <2>3. PICK P, b : P = PushedOf(s.layout) /\ (b <=> Spills(s.layout))
      OBVIOUS
    <2>4. PushedOf(list[k].layout)' = P
      BY <1>1, <2>2, <2>3 DEF Spills, PushedOf, CellsOf
    <2>5. Spills(list[k].layout)' <=> b
      BY <1>1, <2>2, <2>3 DEF Spills
    <2>6. bufferModel \/ g.executed = {} =>
            /\ ~ s.pushedDirty => P \cap s.image \subseteq g.push
            /\ b /\ ~ s.spilledDirty /\ s.image \ P # {} => g.spill = k
      BY <2>1, <2>3 DEF Known
    <2>7. QED
      BY <1>1, <2>4, <2>5, <2>6 DEF Known
  <1>3. Agree(k, list[k], gpu[k])'
    BY <1>1, <1>2 DEF Fine, Agree
  <1>4. Stages(list[k], gpu[k])'
    BY <1>1 DEF Fine, Stages
  <1>5. (Recorded(list[k], gpu[k]) => Blank(list[k], gpu[k]))'
    BY <1>1 DEF Fine, Recorded, Blank
  <1>6. QED
    BY <1>1, <1>3, <1>4, <1>5 DEF Fine

(* Likewise. *)
LEMMA BecomeFine ==
  ASSUME Typed, RecordsFine, NEW D \in SUBSET DOMAIN list, NEW new \in [D -> PairSet], Become(new),
         \A k \in D : Records(D, k, new[k][1], new[k][2]),
         bufferModel' = bufferModel
  PROVE  RecordsFine'
  <1>1. DOMAIN list' = DOMAIN list
    BY BecomeIs
  <1>2. ASSUME NEW k \in DOMAIN list
        PROVE  \E s, g : s = list'[k] /\ g = gpu'[k] /\ Fine(k, s, g)
    <2>1. CASE k \in D
      <3>1. Fine(k, Settled(new[k][1], new[k][2]), Left(new[k][1], new[k][2]))
        BY <2>1, SettledFine, BecomeIs DEF Records
      <3>2. QED
        BY <2>1, <3>1, BecomeIs
    <2>2. CASE k \notin D
      BY <2>2, BecomeIs DEF RecordsFine
    <2>3. QED
      BY <2>1, <2>2
  <1>3. ASSUME NEW k \in DOMAIN list'
        PROVE  Fine(k, list[k], gpu[k])'
    BY <1>1, <1>2, FineNext
  <1>4. ASSUME NEW k \in DOMAIN list, NEW j \in gpu'[k].executed
        PROVE  /\ j \in DOMAIN list /\ gpu[j].state = "executable" /\ ~ list[j].isRecording
               /\ j \in D => InUse(j)
    <2>1. CASE k \in D
      <3>1. j \in new[k][2].executed
        <4>1. /\ gpu'[k] = Left(new[k][1], new[k][2])
              /\ new[k][1] \in ListSet /\ new[k][2] \in BufferSet
          BY <2>1, BecomeIs
        <4>2. Left(new[k][1], new[k][2]).executed \subseteq new[k][2].executed
          BY <4>1, SettledTyped
        <4>3. QED
          BY <1>4, <4>1, <4>2
      <3>2. QED
        BY <2>1, <3>1 DEF Records
    <2>2. CASE k \notin D
      <3>1. j \in gpu[k].executed
        BY <1>4, <2>2, BecomeIs
      <3>2. DOMAIN gpu = DOMAIN list
        BY DEF Typed
      <3>3. InUse(j)
        BY <3>1, <3>2 DEF InUse
      <3>4. QED
        BY <3>1, <3>3 DEF RecordsFine, Executions
    <2>3. QED
      BY <2>1, <2>2
  <1>5. ASSUME NEW j \in DOMAIN list, gpu[j].state = "executable", ~ list[j].isRecording,
               j \in D => InUse(j)
        PROVE  gpu'[j].state = "executable" /\ ~ list'[j].isRecording
    <2>1. CASE j \in D
      <3>1. new[j][2].state = "executable" /\ ~ new[j][1].isRecording
        BY <1>5, <2>1 DEF Records
      <3>2. QED
        BY <2>1, <3>1, BecomeIs, SettledTyped
    <2>2. CASE j \notin D
      BY <1>5, <2>2, BecomeIs
    <2>3. QED
      BY <2>1, <2>2
  <1>6. Executions'
    BY <1>1, <1>4, <1>5 DEF Executions
  <1>7. QED
    BY <1>3, <1>6 DEF RecordsFine
-----------------------------------------------------------------------------
(* Pages stay one list's or the pool's when no page moves,                 *)
LEMMA PagesKept ==
  ASSUME Typed, PagesInv, DOMAIN list' = DOMAIN list, page' = page, pool' = pool,
         \A k \in DOMAIN list : /\ list'[k].pages = list[k].pages
                                /\ gpu'[k].units \subseteq gpu[k].units
                                /\ "shared" \notin gpu'[k].wrong
  PROVE  PagesInv'
  BY DEF PagesInv

(* A range lies in a page of the list, or in one no list has; no recorded  *)
(* command uses any of it.                                                 *)
LEMMA RangeFresh ==
  ASSUME Typed, PagesInv, NEW l \in DOMAIN list, NEW size \in RangeSizes, NEW r \in Ranges(l, size)
  PROVE  /\ r.page \in Pages /\ r.from \in Nat /\ r.capacity \in Nat /\ size \in Nat
         /\ r.from + size <= r.capacity
         /\ \A k \in DOMAIN list : r.page \in list[k].pages =>
              k = l /\ r.from = page[r.page].cursor
         /\ r.page \in DOMAIN page => r.page \in DOMAIN pool \/ r.page \in list[l].pages
         /\ Units(r, size) \in SUBSET (Pages \X Nat)
         /\ Units(r, size) \cap Used = {}
  <1> DEFINE own == {p \in list[l].pages : Fits(p, size)}
             pooled == Smallest({p \in DOMAIN pool : page[p].capacity >= size})
             new == CHOOSE p \in Pages : p \notin DOMAIN page
  <1>1. /\ page \in [DOMAIN page -> PageSet] /\ DOMAIN page \subseteq Pages
        /\ size \in Nat /\ MinimumPage \in Nat
    BY CommandListAssumption DEF Typed
  <1>2. \A p \in DOMAIN page : page[p].capacity \in Nat /\ page[p].cursor \in Nat
    BY <1>1 DEF PageSet
  <1>3. \A k \in DOMAIN list : \A p \in list[k].pages :
          p \in DOMAIN page /\ p \notin DOMAIN pool /\ (k = l \/ p \notin list[l].pages)
    BY DEF PagesInv
  <1>4. DOMAIN pool \subseteq DOMAIN page
    BY DEF PagesInv
  <1>5. /\ r.page \in Pages /\ r.from \in Nat /\ r.capacity \in Nat
        /\ r.from + size <= r.capacity
        /\ \A k \in DOMAIN list : r.page \in list[k].pages => k = l /\ r.from = page[r.page].cursor
        /\ r.page \in DOMAIN page => r.page \in DOMAIN pool \/ r.page \in list[l].pages
    <2>1. CASE own # {}
      <3>1. r \in {[page |-> p, from |-> page[p].cursor, capacity |-> page[p].capacity] : p \in own}
        BY <2>1 DEF Ranges
      <3>2. PICK p \in own : r.page = p /\ r.from = page[p].cursor /\ r.capacity = page[p].capacity
        BY <3>1
      <3>3. p \in list[l].pages /\ p \in DOMAIN page /\ page[p].cursor + size <= page[p].capacity
        BY <1>3, <3>2 DEF Fits
      <3>4. QED
        BY <1>1, <1>2, <1>3, <3>2, <3>3
    <2>2. CASE own = {} /\ pooled # {}
      <3>1. r \in {[page |-> p, from |-> 0, capacity |-> page[p].capacity] : p \in pooled}
        BY <2>2 DEF Ranges
      <3>2. PICK p \in pooled : r.page = p /\ r.from = 0 /\ r.capacity = page[p].capacity
        BY <3>1
      <3>3. p \in DOMAIN pool /\ page[p].capacity >= size
        BY <3>2 DEF Smallest
      <3>4. QED
        BY <1>1, <1>2, <1>3, <1>4, <3>2, <3>3
    <2>3. CASE own = {} /\ pooled = {}
      <3>1. DOMAIN page # Pages
        BY <2>3 DEF Ranges
      <3>2. new \in Pages /\ new \notin DOMAIN page
        BY <1>1, <3>1
      <3>3. r = [page |-> new, from |-> 0, capacity |-> IF size > MinimumPage THEN size ELSE MinimumPage]
        BY <2>3, <3>1 DEF Ranges
      <3>4. QED
        BY <1>1, <1>3, <3>2, <3>3
    <2>4. QED
      BY <2>1, <2>2, <2>3
  <1>6. Units(r, size) \in SUBSET (Pages \X Nat)
    <2>1. \A n \in r.from .. r.from + size - 1 : n \in Nat
      BY <1>1, <1>5
    <2>2. QED
      BY <1>5, <2>1 DEF Units
  <1>7. Units(r, size) \cap Used = {}
    <2>1. SUFFICES ASSUME NEW u \in Units(r, size), NEW k \in DOMAIN list, u \in gpu[k].units
                   PROVE  FALSE
      BY DEF Used, Typed
    <2>2. u[1] \in list[k].pages /\ u[2] < page[u[1]].cursor
      BY <2>1 DEF PagesInv
    <2>3. u[1] = r.page /\ u[2] \in r.from .. r.from + size - 1
      BY <2>1 DEF Units
    <2>4. r.from = page[r.page].cursor
      BY <1>5, <2>2, <2>3
    <2>5. QED
      BY <1>1, <1>5, <2>2, <2>3, <2>4
  <1>8. QED
    BY <1>1, <1>5, <1>6, <1>7

(* and when a list is given a range.                                       *)
LEMMA RangeTaken ==
  ASSUME Typed, PagesInv, NEW l \in DOMAIN list, NEW size \in RangeSizes, NEW r \in Ranges(l, size),
         DOMAIN list' = DOMAIN list, page' = PagesWith(r, size), pool' = PoolWithout(r.page),
         list'[l].pages = list[l].pages \cup {r.page},
         gpu'[l].units \subseteq gpu[l].units \cup Units(r, size),
         \A k \in DOMAIN list \ {l} : /\ list'[k].pages = list[k].pages
                                      /\ gpu'[k].units \subseteq gpu[k].units,
         \A k \in DOMAIN list : "shared" \notin gpu'[k].wrong
  PROVE  /\ PagesInv'
         /\ DOMAIN page' \subseteq Pages /\ page' \in [DOMAIN page' -> PageSet]
         /\ pool' \in [DOMAIN pool' -> Nat]
  <1>1. /\ r.page \in Pages /\ r.from \in Nat /\ r.capacity \in Nat /\ size \in Nat
        /\ r.from + size <= r.capacity
        /\ \A k \in DOMAIN list : r.page \in list[k].pages => k = l /\ r.from = page[r.page].cursor
        /\ r.page \in DOMAIN page => r.page \in DOMAIN pool \/ r.page \in list[l].pages
    BY RangeFresh
  <1>2. /\ DOMAIN page' = DOMAIN page \cup {r.page}
        /\ page'[r.page] = [capacity |-> r.capacity, cursor |-> r.from + size]
        /\ \A p \in DOMAIN page \ {r.page} : page'[p] = page[p]
    BY DEF PagesWith
  <1>3. DOMAIN pool' = DOMAIN pool \ {r.page} /\ \A p \in DOMAIN pool' : pool'[p] = pool[p]
    BY DEF PoolWithout
  <1>4. /\ DOMAIN page' \subseteq Pages /\ page' \in [DOMAIN page' -> PageSet]
        /\ pool' \in [DOMAIN pool' -> Nat]
    <2>1. page'[r.page] \in PageSet
      BY <1>1, <1>2 DEF PageSet
    <2>2. \A p \in DOMAIN page' : page'[p] \in PageSet
      BY <1>2, <2>1 DEF Typed
    <2>3. page' = [p \in DOMAIN page' |-> page'[p]]
      BY DEF PagesWith
    <2>4. pool' = [p \in DOMAIN pool' |-> pool'[p]]
      BY DEF PoolWithout
    <2>5. \A p \in DOMAIN pool' : pool'[p] \in Nat
      BY <1>3 DEF Typed
    <2>6. QED
      BY <1>1, <1>2, <2>2, <2>3, <2>4, <2>5 DEF Typed
  <1>5. \A p : p \in DOMAIN page' <=> p \in DOMAIN pool' \/ \E k \in DOMAIN list' : p \in list'[k].pages
    <2>1. \A p : (\E k \in DOMAIN list' : p \in list'[k].pages)
                   <=> p = r.page \/ \E k \in DOMAIN list : p \in list[k].pages
      OBVIOUS
    <2>2. QED
      BY <1>1, <1>2, <1>3, <2>1 DEF PagesInv
  <1>6. \A p \in DOMAIN page' : page'[p].cursor <= page'[p].capacity
    BY <1>1, <1>2 DEF PagesInv
  <1>7. \A k \in DOMAIN list : list'[k].pages \cap DOMAIN pool' = {}
    BY <1>3 DEF PagesInv
  <1>8. \A k \in DOMAIN list : \A j \in DOMAIN list \ {k} : list'[k].pages \cap list'[j].pages = {}
    BY <1>1 DEF PagesInv
  <1>9. ASSUME NEW k \in DOMAIN list, NEW u \in gpu'[k].units
        PROVE  u[1] \in list'[k].pages /\ u[2] < page'[u[1]].cursor
    <2>1. CASE u \in gpu[k].units
      <3>1. u[1] \in list[k].pages /\ u[2] < page[u[1]].cursor /\ u[1] \in DOMAIN page
        BY <2>1 DEF PagesInv
      <3>2. u \in Pages \X Nat
        BY <2>1 DEF Typed, BufferSet
      <3>3. CASE u[1] = r.page
        <4>1. r.from = page[u[1]].cursor
          BY <1>1, <3>1, <3>3
        <4>2. u[2] < r.from + size
          BY <1>1, <3>1, <3>2, <4>1
        <4>3. QED
          BY <1>1, <1>2, <3>1, <3>3, <4>2
      <3>4. CASE u[1] # r.page
        BY <1>2, <3>1, <3>4
      <3>5. QED
        BY <3>3, <3>4
    <2>2. CASE u \notin gpu[k].units
      <3>1. k = l /\ u \in Units(r, size)
        BY <1>9, <2>2
      <3>2. u[1] = r.page /\ u[2] \in r.from .. r.from + size - 1
        BY <3>1 DEF Units
      <3>3. QED
        BY <1>1, <1>2, <3>1, <3>2
    <2>3. QED
      BY <2>1, <2>2
  <1>10. QED
    BY <1>4, <1>5, <1>6, <1>7, <1>8, <1>9 DEF PagesInv
-----------------------------------------------------------------------------
(* A command that moves no page and leaves its lists almost right keeps    *)
(* the invariant.                                                          *)
LEMMA ManyLists ==
  ASSUME IInv, NEW D \in SUBSET DOMAIN list, NEW new \in [D -> PairSet], Become(new), PagesStay,
         \A k \in D : /\ Len(new[k][1].preprocessed) <= MaxRecords
                      /\ new[k][1].pages = list[k].pages
                      /\ new[k][2].units \subseteq gpu[k].units /\ "shared" \notin new[k][2].wrong,
         \A k \in D : ~ OpenResetMayFail => Records(D, k, new[k][1], new[k][2])
  PROVE  IInv'
  <1>1. bufferModel' = bufferModel /\ page' = page /\ pool' = pool
    BY DEF PagesStay
  <1>2. Typed /\ PagesInv
    BY DEF IInv
  <1>3. Typed'
    <2>1. /\ DOMAIN page' \subseteq Pages /\ page' \in [DOMAIN page' -> PageSet]
          /\ pool' \in [DOMAIN pool' -> Nat]
      BY <1>1, <1>2 DEF Typed
    <2>2. QED
      BY <1>1, <1>2, <2>1, BecomeTyped
  <1>4. PagesInv'
    <2>1. /\ DOMAIN list' = DOMAIN list
          /\ \A k \in D : /\ list'[k] = Settled(new[k][1], new[k][2])
                          /\ gpu'[k] = Left(new[k][1], new[k][2])
                          /\ new[k][1] \in ListSet /\ new[k][2] \in BufferSet
          /\ \A k \in DOMAIN list \ D : list'[k] = list[k] /\ gpu'[k] = gpu[k]
      BY <1>2, BecomeIs
    <2>2. \A k \in D : /\ list'[k].pages = new[k][1].pages /\ gpu'[k].units = new[k][2].units
                       /\ gpu'[k].wrong \subseteq new[k][2].wrong
      BY <2>1, SettledTyped
    <2>3. \A k \in DOMAIN list : /\ list'[k].pages = list[k].pages
                                 /\ gpu'[k].units \subseteq gpu[k].units
                                 /\ "shared" \notin gpu'[k].wrong
      BY <1>2, <2>1, <2>2 DEF PagesInv
    <2>4. QED
      BY <1>1, <1>2, <2>1, <2>3, PagesKept
  <1>5. ~ OpenResetMayFail => RecordsFine'
    BY <1>1, <1>2, BecomeFine DEF IInv
  <1>6. QED
    BY <1>3, <1>4, <1>5 DEF IInv

(* The same of one list.                                                   *)
LEMMA OneList ==
  ASSUME IInv, NEW l \in DOMAIN list, NEW s \in ListSet, NEW g \in BufferSet,
         After(l, s, g), PagesStay, Len(s.preprocessed) <= MaxRecords,
         s.pages = list[l].pages, g.units \subseteq gpu[l].units, "shared" \notin g.wrong,
         ~ OpenResetMayFail => Records({l}, l, s, g)
  PROVE  IInv'
  <1> DEFINE new == [k \in {l} |-> <<s, g>>]
  <1>1. /\ new \in [{l} -> PairSet] /\ {l} \in SUBSET DOMAIN list
        /\ \A k \in {l} : new[k][1] = s /\ new[k][2] = g
    BY DEF PairSet
  <1>2. Become(new)
    BY DEF After
  <1> HIDE DEF new
  <1>3. \A k \in {l} : /\ Len(new[k][1].preprocessed) <= MaxRecords
                       /\ new[k][1].pages = list[k].pages
                       /\ new[k][2].units \subseteq gpu[k].units /\ "shared" \notin new[k][2].wrong
    BY <1>1
  <1>4. \A k \in {l} : ~ OpenResetMayFail => Records({l}, k, new[k][1], new[k][2])
    BY <1>1
  <1>5. QED
    BY <1>1, <1>2, <1>3, <1>4, ManyLists

(* What is known of a list that records.                                   *)
LEMMA RecordingIs ==
  ASSUME IInv, NEW l, Recording(l)
  PROVE  /\ l \in DOMAIN list /\ l \in Lists
         /\ list[l] \in ListSet /\ gpu[l] \in BufferSet
         /\ Len(list[l].preprocessed) <= MaxRecords
         /\ list[l].isRecording = TRUE /\ list[l].error = FALSE /\ gpu[l].state # "invalid"
         /\ "shared" \notin gpu[l].wrong
         /\ ~ OpenResetMayFail =>
              /\ Agree(l, list[l], gpu[l]) /\ gpu[l].wrong = {}
              /\ gpu[l].state = "recording" /\ ~ list[l].ended
  <1>1. /\ l \in DOMAIN list /\ l \in Lists
        /\ list[l] \in ListSet /\ gpu[l] \in BufferSet
        /\ Len(list[l].preprocessed) <= MaxRecords
    BY DEF IInv, Typed, Recording
  <1>2. list[l].isRecording = TRUE /\ list[l].error = FALSE /\ gpu[l].state # "invalid"
    BY <1>1 DEF Recording, ListSet
  <1>3. "shared" \notin gpu[l].wrong
    BY <1>1 DEF IInv, PagesInv
  <1>4. ~ OpenResetMayFail => Fine(l, list[l], gpu[l])
    BY <1>1 DEF IInv, RecordsFine
  <1>5. QED
    BY <1>1, <1>2, <1>3, <1>4 DEF Fine, Stages

(* What a list that records and does not end becomes.                      *)
LEMMA StillFine ==
  ASSUME IInv, NEW l, Recording(l), NEW s \in ListSet, NEW g \in BufferSet, NEW D,
         s.isRecording, s.ended = list[l].ended,
         g.state = gpu[l].state, g.executed = gpu[l].executed,
         ~ OpenResetMayFail,
         g.wrong \subseteq {"push"}, "push" \in g.wrong => s.error, ~ s.error => Agree(l, s, g)
  PROVE  Records(D, l, s, g)
  <1>1. l \in DOMAIN list /\ gpu[l].state = "recording" /\ ~ list[l].ended
    BY RecordingIs
  <1>2. Almost(l, s, g)
    BY <1>1 DEF Almost, Stages, Recorded
  <1>3. DOMAIN gpu = DOMAIN list
    BY DEF IInv, Typed
  <1>4. \A j : InUse(j) => gpu[j].state = "executable" /\ ~ list[j].isRecording
    BY <1>3 DEF InUse, IInv, RecordsFine, Executions
  <1>5. ~ InUse(l)
    BY <1>1, <1>4
  <1>6. \A j \in g.executed : j \in DOMAIN list /\ InUse(j)
    BY <1>1, <1>3 DEF InUse, IInv, RecordsFine, Executions
  <1>7. QED
    BY <1>2, <1>4, <1>5, <1>6 DEF Records

(* A command of a list that records: OneList with what it cannot change.   *)
LEMMA StillRecords ==
  ASSUME IInv, NEW l, Recording(l), NEW s \in ListSet, NEW g \in BufferSet,
         After(l, s, g), PagesStay, Len(s.preprocessed) <= MaxRecords,
         s.pages = list[l].pages, g.units = gpu[l].units, "shared" \notin g.wrong,
         s.isRecording, s.ended = list[l].ended,
         g.state = gpu[l].state, g.executed = gpu[l].executed,
         ~ OpenResetMayFail => /\ g.wrong \subseteq {"push"} /\ ("push" \in g.wrong => s.error)
                               /\ ~ s.error => Agree(l, s, g)
  PROVE  IInv'
  <1>1. l \in DOMAIN list
    BY RecordingIs
  <1>2. ~ OpenResetMayFail => Records({l}, l, s, g)
    BY StillFine
  <1>3. QED
    BY <1>1, <1>2, OneList

(* A list that fails, recording or not.                                    *)
LEMMA FailsKeeps ==
  ASSUME IInv, NEW l \in DOMAIN list, Fails(l), PagesStay
  PROVE  IInv'
  <1> DEFINE s == Failed(list[l])
  <1>1. /\ list[l] \in ListSet /\ gpu[l] \in BufferSet /\ Len(list[l].preprocessed) <= MaxRecords
        /\ "shared" \notin gpu[l].wrong /\ DOMAIN gpu = DOMAIN list
    BY DEF IInv, Typed, PagesInv
  <1>2. /\ s \in ListSet /\ s.preprocessed = list[l].preprocessed /\ s.pages = list[l].pages
        /\ s.error = TRUE /\ s.isRecording = list[l].isRecording /\ s.ended = list[l].ended
    BY <1>1 DEF Failed, ListSet
  <1> HIDE DEF s
  <1>3. ASSUME ~ OpenResetMayFail PROVE Records({l}, l, s, gpu[l])
    <2>1. Fine(l, list[l], gpu[l])
      BY <1>3 DEF IInv, RecordsFine
    <2>2. Almost(l, s, gpu[l])
      BY <1>2, <2>1 DEF Almost, Fine, Stages, Recorded
    <2>3. \A k \in DOMAIN list : \A j \in gpu[k].executed :
            j \in DOMAIN list /\ gpu[j].state = "executable" /\ ~ list[j].isRecording
      BY <1>3 DEF IInv, RecordsFine, Executions
    <2>4. \A j \in gpu[l].executed : InUse(j)
      BY <1>1 DEF InUse
    <2>5. InUse(l) => gpu[l].state = "executable" /\ ~ s.isRecording
      BY <1>1, <1>2, <2>3 DEF InUse
    <2>6. QED
      BY <2>2, <2>3, <2>4, <2>5 DEF Records
  <1>4. After(l, s, gpu[l])
    BY DEF Fails, s
  <1>5. QED
    BY <1>1, <1>2, <1>3, <1>4, OneList

(* A step that changes nothing.                                            *)
LEMMA UnchangedKeeps ==
  ASSUME IInv, UNCHANGED vars
  PROVE  IInv'
  <1>1. Typed'
    BY DEF IInv, Typed, vars
  <1>2. PagesInv'
    BY DEF IInv, PagesInv, vars
  <1>3. Executions' <=> Executions
    BY DEF Executions, vars
  <1>4. \A l : (Fine(l, list[l], gpu[l]))' <=> Fine(l, list[l], gpu[l])
    BY DEF Fine, Stages, Agree, Known, Blank, Recorded, Spills, PushedOf, CellsOf, vars
  <1>5. (~ OpenResetMayFail => RecordsFine)'
    BY <1>3, <1>4 DEF IInv, RecordsFine, vars
  <1>6. QED
    BY <1>1, <1>2, <1>5 DEF IInv
-----------------------------------------------------------------------------
(* The commands, one by one.  A pass begins.                               *)
LEMMA BeginPassKeeps ==
  ASSUME IInv, NEW l, BeginPass(l)
  PROVE  IInv'
  <1>1. /\ l \in DOMAIN list /\ list[l] \in ListSet /\ gpu[l] \in BufferSet
        /\ Len(list[l].preprocessed) <= MaxRecords
        /\ list[l].isRecording = TRUE /\ list[l].error = FALSE
        /\ "shared" \notin gpu[l].wrong
        /\ Recording(l) /\ PagesStay
        /\ ~ OpenResetMayFail => Agree(l, list[l], gpu[l]) /\ gpu[l].wrong = {}
    BY RecordingIs DEF BeginPass
  <1>2. CASE list[l].continues
    BY <1>1, <1>2, FailsKeeps DEF BeginPass
  <1>3. CASE ~ list[l].continues
    <2>1. PICK contents \in {"inline", "secondaries"} :
            After(l, [Flushed(Leaves(l)[1]) EXCEPT !.passActive = TRUE],
                     [Visible(list[l], Leaves(l)[2]) EXCEPT !.rendering = contents])
      BY <1>3 DEF BeginPass
    <2> DEFINE s == [Flushed(Leaves(l)[1]) EXCEPT !.passActive = TRUE]
               g == [Visible(list[l], Leaves(l)[2]) EXCEPT !.rendering = contents]
    <2>2. s = [list[l] EXCEPT !.barrierPending = FALSE, !.passActive = TRUE]
      BY <1>1, <1>3 DEF Leaves, Flushed, Ended, ListSet
    <2>3. PICK u \in BOOLEAN : /\ g = [gpu[l] EXCEPT !.unflushed = u, !.rendering = contents]
                               /\ u => gpu[l].unflushed /\ ~ list[l].barrierPending
      <3>1. CASE list[l].barrierPending
        <4>1. g = [gpu[l] EXCEPT !.unflushed = FALSE, !.rendering = contents]
          BY <1>1, <1>3, <3>1 DEF Leaves, Visible, Outside, BufferSet
        <4>2. QED
          BY <4>1
      <3>2. CASE ~ list[l].barrierPending
        <4>1. g = [gpu[l] EXCEPT !.unflushed = gpu[l].unflushed, !.rendering = contents]
          BY <1>1, <1>3, <3>2 DEF Leaves, Visible, Outside, BufferSet
        <4>2. gpu[l].unflushed \in BOOLEAN
          BY <1>1 DEF BufferSet
        <4>3. QED
          BY <3>2, <4>1, <4>2
      <3>3. QED
        BY <3>1, <3>2
    <2> HIDE DEF s, g
    <2>4. /\ s \in ListSet /\ s.preprocessed = list[l].preprocessed /\ s.pages = list[l].pages
          /\ s.isRecording = TRUE /\ s.ended = list[l].ended /\ s.continues = list[l].continues
          /\ s.passActive = TRUE /\ s.emitted = list[l].emitted /\ s.layout = list[l].layout
          /\ s.image = list[l].image /\ s.pushedDirty = list[l].pushedDirty
          /\ s.spilledDirty = list[l].spilledDirty
      BY <1>1, <2>2 DEF ListSet
    <2>5. /\ g \in BufferSet /\ g.units = gpu[l].units /\ g.state = gpu[l].state
          /\ g.executed = gpu[l].executed /\ g.wrong = gpu[l].wrong /\ g.rendering # "none"
          /\ g.heap = gpu[l].heap /\ g.push = gpu[l].push /\ g.spill = gpu[l].spill
          /\ g.unflushed = u
      BY <1>1, <2>3 DEF BufferSet
    <2>6. ASSUME ~ OpenResetMayFail PROVE Agree(l, s, g)
      BY <1>1, <1>3, <2>3, <2>4, <2>5, <2>6 DEF Agree, Known
    <2>7. After(l, s, g)
      BY <2>1 DEF s, g
    <2>8. QED
      BY <1>1, <2>4, <2>5, <2>6, <2>7, StillRecords
  <1>4. QED
    BY <1>2, <1>3

(* EndPass, which fails in a secondary that continues a pass.             *)
LEMMA EndPassKeeps ==
  ASSUME IInv, NEW l, EndPass(l)
  PROVE  IInv'
  <1>1. /\ l \in DOMAIN list /\ list[l] \in ListSet /\ gpu[l] \in BufferSet
        /\ Len(list[l].preprocessed) <= MaxRecords
        /\ list[l].isRecording = TRUE /\ list[l].passActive
        /\ "shared" \notin gpu[l].wrong
        /\ Recording(l) /\ PagesStay
        /\ ~ OpenResetMayFail => Agree(l, list[l], gpu[l]) /\ gpu[l].wrong = {}
    BY RecordingIs DEF EndPass
  <1>2. CASE list[l].continues
    BY <1>1, <1>2, FailsKeeps DEF EndPass
  <1>3. CASE ~ list[l].continues
    <2> DEFINE s == Ended(list[l])
               g == Outside(gpu[l])
    <2>1. After(l, s, g)
      BY <1>3 DEF EndPass
    <2>2. /\ s \in ListSet /\ s.preprocessed = list[l].preprocessed /\ s.pages = list[l].pages
          /\ s.isRecording = TRUE /\ s.ended = list[l].ended
          /\ s.passActive = FALSE /\ s.emitted = list[l].emitted /\ s.layout = list[l].layout
          /\ s.image = list[l].image /\ s.pushedDirty = list[l].pushedDirty
          /\ s.spilledDirty = list[l].spilledDirty /\ s.barrierPending = list[l].barrierPending
      BY <1>1 DEF ListSet, Ended
    <2>3. /\ g \in BufferSet /\ g.units = gpu[l].units /\ g.state = gpu[l].state
          /\ g.executed = gpu[l].executed /\ g.wrong = gpu[l].wrong /\ g.rendering = "none"
          /\ g.heap = gpu[l].heap /\ g.push = gpu[l].push /\ g.spill = gpu[l].spill
          /\ g.unflushed = gpu[l].unflushed
      BY <1>1 DEF BufferSet, Outside
    <2> HIDE DEF s, g
    <2>4. ASSUME ~ OpenResetMayFail PROVE Agree(l, s, g)
      BY <1>1, <2>2, <2>3, <2>4 DEF Agree, Known
    <2>5. QED
      BY <1>1, <2>1, <2>2, <2>3, <2>4, StillRecords
  <1>4. QED
    BY <1>2, <1>3

(* The commands that leave the pass first.                                 *)
LEMMA OutsidePassKeeps ==
  ASSUME IInv, NEW l, OutsidePass(l)
  PROVE  IInv'
  <1>1. /\ l \in DOMAIN list /\ list[l] \in ListSet /\ gpu[l] \in BufferSet
        /\ Len(list[l].preprocessed) <= MaxRecords
        /\ list[l].isRecording = TRUE /\ list[l].error = FALSE
        /\ "shared" \notin gpu[l].wrong
        /\ Recording(l) /\ PagesStay
        /\ ~ OpenResetMayFail => Agree(l, list[l], gpu[l]) /\ gpu[l].wrong = {}
    BY RecordingIs DEF OutsidePass
  <1> DEFINE W(h) == Wrong(h, "rendering", ~ Leaves(l)[1].error /\ h.rendering # "none")
  <1>2. After(l, Leaves(l)[1], W(Leaves(l)[2]))
    BY DEF OutsidePass
  <1>3. CASE list[l].passActive /\ list[l].continues
    <2>1. Leaves(l)[1] = Failed(list[l]) /\ Leaves(l)[2] = gpu[l]
      BY <1>3 DEF Leaves
    <2>2. Failed(list[l]).error = TRUE
      BY <1>1 DEF Failed, ListSet
    <2>3. Fails(l)
      BY <1>2, <2>1, <2>2 DEF Wrong, Fails
    <2>4. QED
      BY <1>1, <2>3, FailsKeeps
  <1>4. CASE ~ list[l].passActive \/ ~ list[l].continues
    <2> DEFINE s == Leaves(l)[1]
               h == Leaves(l)[2]
               g == W(h)
    <2>1. s = [list[l] EXCEPT !.passActive = FALSE]
      BY <1>1, <1>4 DEF Leaves, Ended, ListSet
    <2>2. h = gpu[l] \/ h = [gpu[l] EXCEPT !.rendering = "none"]
      BY <1>4 DEF Leaves, Outside
    <2>3. ~ OpenResetMayFail => h.rendering = "none"
      BY <1>1, <1>4 DEF Leaves, Outside, Agree, BufferSet
    <2> HIDE DEF s, h
    <2>4. /\ h \in BufferSet /\ h.units = gpu[l].units /\ h.state = gpu[l].state
          /\ h.executed = gpu[l].executed /\ h.wrong = gpu[l].wrong
          /\ h.heap = gpu[l].heap /\ h.push = gpu[l].push /\ h.spill = gpu[l].spill
          /\ h.unflushed = gpu[l].unflushed
      BY <1>1, <2>2 DEF BufferSet
    <2>5. /\ s \in ListSet /\ s.preprocessed = list[l].preprocessed /\ s.pages = list[l].pages
          /\ s.isRecording = TRUE /\ s.ended = list[l].ended
          /\ s.passActive = FALSE /\ s.emitted = list[l].emitted /\ s.layout = list[l].layout
          /\ s.image = list[l].image /\ s.pushedDirty = list[l].pushedDirty
          /\ s.spilledDirty = list[l].spilledDirty /\ s.barrierPending = list[l].barrierPending
      BY <1>1, <2>1 DEF ListSet
    <2>6. /\ g \in BufferSet /\ g.units = h.units /\ g.state = h.state
          /\ g.executed = h.executed /\ "shared" \notin g.wrong
      BY <1>1, <2>4 DEF BufferSet, Wrong
    <2>7. ASSUME ~ OpenResetMayFail PROVE g = h
      BY <2>3, <2>7 DEF Wrong
    <2> HIDE DEF g
    <2>8. ASSUME ~ OpenResetMayFail PROVE Agree(l, s, g) /\ g.wrong = {}
      BY <1>1, <2>3, <2>4, <2>5, <2>7, <2>8 DEF Agree, Known
    <2>9. After(l, s, g)
      BY <1>2 DEF s, h, g
    <2>10. QED
      BY <1>1, <2>4, <2>5, <2>6, <2>8, <2>9, StillRecords
  <1>5. QED
    BY <1>3, <1>4

(* Copies change nothing, or fail.                                         *)
LEMMA CopyKeeps ==
  ASSUME IInv, NEW l, Copy(l)
  PROVE  IInv'
  <1>1. l \in DOMAIN list
    BY RecordingIs DEF Copy
  <1>2. CASE Fails(l)
    BY <1>1, <1>2, FailsKeeps DEF Copy
  <1>3. CASE ~ Fails(l)
    <2>1. UNCHANGED vars
      BY <1>3 DEF Copy, PagesStay, vars
    <2>2. QED
      BY <2>1, UnchangedKeeps
  <1>4. QED
    BY <1>2, <1>3

(* A copy into a list that is not recording.                               *)
LEMMA CopyLateKeeps ==
  ASSUME IInv, NEW l, CopyLate(l)
  PROVE  IInv'
  BY FailsKeeps DEF CopyLate

(* The cells of the layouts.                                               *)
LEMMA Cells ==
  ASSUME Typed, NEW layout
  PROVE  /\ PushedOf(layout) \subseteq 1 .. 3 /\ CellsOf(layout) \subseteq 1 .. 3
         /\ PushedOf(None) = {} /\ Spills(None) = FALSE
         /\ Spills(layout) \in BOOLEAN
         /\ Spills(layout) => PushedOf(layout) = {1}
         /\ ~ bufferModel => ~ Spills(layout)
         /\ \A c \in CellsOf(layout) \ PushedOf(layout) : Spills(layout)
  <1>1. None \notin {"small", "full", "spilling"}
    BY CommandListAssumption
  <1>2. CellsOf(None) = {} /\ Spills(None) = FALSE
    BY <1>1 DEF CellsOf, Spills
  <1>3. Spills(layout) \in BOOLEAN
    BY DEF Spills, Typed
  <1>4. CellsOf(layout) \subseteq 1 .. 3
    <2>1. CASE layout = "small"
      BY <2>1 DEF CellsOf
    <2>2. CASE layout = "full"
      BY <2>2 DEF CellsOf
    <2>3. CASE layout = "spilling"
      BY <2>3 DEF CellsOf
    <2>4. CASE layout \notin {"small", "full", "spilling"}
      BY <2>4 DEF CellsOf
    <2>5. QED
      BY <2>1, <2>2, <2>3, <2>4
  <1>5. Spills(layout) => PushedOf(layout) = {1}
    BY DEF PushedOf
  <1>6. ~ Spills(layout) => PushedOf(layout) = CellsOf(layout)
    BY DEF PushedOf
  <1>7. ~ bufferModel => ~ Spills(layout)
    BY DEF Spills
  <1>8. PushedOf(None) = {}
    BY <1>2 DEF PushedOf
  <1>9. PushedOf(layout) \subseteq 1 .. 3
    BY <1>4, <1>5, <1>6
  <1>10. QED
    BY <1>2, <1>3, <1>4, <1>5, <1>6, <1>7, <1>8, <1>9

(* A heap bound to a list and its buffer that agree.                       *)
LEMMA HeapBinds ==
  ASSUME NEW l, NEW s \in ListSet, NEW g \in BufferSet, NEW h \in Heaps
  PROVE  /\ WithHeap(s, h) \in ListSet /\ Binds(s, g, h) \in BufferSet
         /\ Agree(l, s, g) => Agree(l, WithHeap(s, h), Binds(s, g, h))
  <1> DEFINE S == WithHeap(s, h)
             G == Binds(s, g, h)
  <1>1. /\ S \in ListSet /\ S.emitted = h /\ S.layout = s.layout /\ S.image = s.image
        /\ S.pushedDirty = s.pushedDirty /\ S.spilledDirty = s.spilledDirty
        /\ S.passActive = s.passActive /\ S.continues = s.continues
        /\ S.barrierPending = s.barrierPending
    BY DEF WithHeap, ListSet
  <1>2. /\ G \in BufferSet /\ G.rendering = g.rendering /\ G.push = g.push /\ G.spill = g.spill
        /\ G.unflushed = g.unflushed /\ G.executed = g.executed
        /\ G.heap = IF s.emitted = h THEN g.heap ELSE h
    BY DEF Binds, BufferSet
  <1>3. h # None
    BY CommandListAssumption
  <1> HIDE DEF S, G
  <1>4. Agree(l, s, g) => Agree(l, S, G)
    BY <1>1, <1>2, <1>3 DEF Agree, Known
  <1>5. QED
    BY <1>1, <1>2, <1>4 DEF S, G

(* BindLayout: what is dropped from the image is not known to be pushed.   *)
LEMMA BindLayoutKeeps ==
  ASSUME IInv, NEW l, BindLayout(l)
  PROVE  IInv'
  <1>1. /\ l \in DOMAIN list /\ list[l] \in ListSet /\ gpu[l] \in BufferSet
        /\ Len(list[l].preprocessed) <= MaxRecords
        /\ list[l].isRecording = TRUE /\ list[l].error = FALSE
        /\ "shared" \notin gpu[l].wrong
        /\ Recording(l) /\ PagesStay /\ Typed
        /\ ~ OpenResetMayFail => Agree(l, list[l], gpu[l]) /\ gpu[l].wrong = {}
    BY RecordingIs DEF BindLayout, IInv
  <1>2. PICK layout \in Layouts :
          After(l, [list[l] EXCEPT !.layout = layout,
                     !.image = IF bufferModel THEN @ \ (PushedOf(layout) \ PushedOf(list[l].layout)) ELSE {},
                     !.spilledDirty = IF bufferModel THEN Spills(layout) ELSE @], gpu[l])
    BY DEF BindLayout
  <1> DEFINE s == [list[l] EXCEPT !.layout = layout,
                     !.image = IF bufferModel THEN @ \ (PushedOf(layout) \ PushedOf(list[l].layout)) ELSE {},
                     !.spilledDirty = IF bufferModel THEN Spills(layout) ELSE @]
  <1>3. PICK image \in SUBSET (1 .. 3), dirty \in BOOLEAN :
          /\ image = IF bufferModel THEN list[l].image \ (PushedOf(layout) \ PushedOf(list[l].layout)) ELSE {}
          /\ dirty = IF bufferModel THEN Spills(layout) ELSE list[l].spilledDirty
    BY <1>1, Cells DEF ListSet
  <1>4. s = [list[l] EXCEPT !.layout = layout, !.image = image, !.spilledDirty = dirty]
    BY <1>1, <1>3 DEF ListSet
  <1> HIDE DEF s
  <1>5. /\ s \in ListSet /\ s.preprocessed = list[l].preprocessed /\ s.pages = list[l].pages
        /\ s.isRecording = TRUE /\ s.ended = list[l].ended /\ s.continues = list[l].continues
        /\ s.passActive = list[l].passActive /\ s.emitted = list[l].emitted
        /\ s.layout = layout /\ s.image = image /\ s.pushedDirty = list[l].pushedDirty
        /\ s.spilledDirty = dirty /\ s.barrierPending = list[l].barrierPending
    BY <1>1, <1>4 DEF ListSet
  <1>6. ASSUME ~ OpenResetMayFail PROVE Agree(l, s, gpu[l])
    <2>1. Known(l, list[l], gpu[l])
      BY <1>1, <1>6 DEF Agree
    <2>2. Known(l, s, gpu[l])
      <3>1. CASE bufferModel
        <4>1. PushedOf(layout) \cap image \subseteq PushedOf(list[l].layout) \cap list[l].image
          BY <1>3, <3>1
        <4>2. ~ s.pushedDirty => PushedOf(layout) \cap image \subseteq gpu[l].push
          BY <1>5, <2>1, <3>1, <4>1 DEF Known
        <4>3. ~ (Spills(s.layout) /\ ~ s.spilledDirty)
          BY <1>3, <1>5, <3>1
        <4>4. QED
          BY <1>5, <4>2, <4>3 DEF Known
      <3>2. CASE ~ bufferModel
        BY <1>3, <1>5, <3>2 DEF Known
      <3>3. QED
        BY <3>1, <3>2
    <2>3. QED
      BY <1>1, <1>5, <1>6, <2>2 DEF Agree
  <1>7. After(l, s, gpu[l])
    BY <1>2 DEF s
  <1>8. QED
    BY <1>1, <1>5, <1>6, <1>7, StillRecords

(* PushConstants of one cell.                                              *)
LEMMA PushConstantsKeeps ==
  ASSUME IInv, NEW l, PushConstants(l)
  PROVE  IInv'
  <1>1. /\ l \in DOMAIN list /\ list[l] \in ListSet /\ gpu[l] \in BufferSet
        /\ Len(list[l].preprocessed) <= MaxRecords
        /\ list[l].isRecording = TRUE /\ list[l].error = FALSE
        /\ "shared" \notin gpu[l].wrong
        /\ Recording(l) /\ PagesStay /\ Typed
        /\ ~ OpenResetMayFail => Agree(l, list[l], gpu[l]) /\ gpu[l].wrong = {}
    BY RecordingIs DEF PushConstants, IInv
  <1> DEFINE s0(c, p) == [list[l] EXCEPT !.image = @ \cup {c}, !.spilledDirty = @ \/ ~ p]
             g0(c, p) == [gpu[l] EXCEPT !.push = IF p THEN @ \cup {c} ELSE @ \ {c},
                                        !.spill = IF ~ p \/ c = SpillCell THEN None ELSE @]
  <1>2. PICK c \in CellsOf(list[l].layout) :
          After(l, s0(c, c \in PushedOf(list[l].layout)), g0(c, c \in PushedOf(list[l].layout)))
    BY DEF PushConstants
  <1> DEFINE p == c \in PushedOf(list[l].layout)
             s == s0(c, p)
             g == g0(c, p)
  <1>5. c \in 1 .. 3
    BY <1>1, Cells
  <1>6. PICK dirty \in BOOLEAN, push \in SUBSET (1 .. 3), spill \in Lists \cup {None} :
          /\ dirty = (list[l].spilledDirty \/ ~ p)
          /\ push = IF p THEN gpu[l].push \cup {c} ELSE gpu[l].push \ {c}
          /\ spill = IF ~ p \/ c = SpillCell THEN None ELSE gpu[l].spill
    BY <1>1, <1>5 DEF ListSet, BufferSet
  <1> HIDE DEF p
  <1>7. s = [list[l] EXCEPT !.image = list[l].image \cup {c}, !.spilledDirty = dirty]
    BY <1>6
  <1>8. g = [gpu[l] EXCEPT !.push = push, !.spill = spill]
    BY <1>6
  <1> HIDE DEF s0, g0, s, g
  <1>9. /\ s \in ListSet /\ s.preprocessed = list[l].preprocessed /\ s.pages = list[l].pages
        /\ s.isRecording = TRUE /\ s.ended = list[l].ended /\ s.continues = list[l].continues
        /\ s.passActive = list[l].passActive /\ s.emitted = list[l].emitted
        /\ s.layout = list[l].layout /\ s.image = list[l].image \cup {c}
        /\ s.pushedDirty = list[l].pushedDirty
        /\ s.spilledDirty = dirty /\ s.barrierPending = list[l].barrierPending
    BY <1>1, <1>5, <1>7 DEF ListSet
  <1>10. /\ g \in BufferSet /\ g.units = gpu[l].units /\ g.state = gpu[l].state
         /\ g.executed = gpu[l].executed /\ g.wrong = gpu[l].wrong /\ g.rendering = gpu[l].rendering
         /\ g.heap = gpu[l].heap /\ g.push = push /\ g.spill = spill
         /\ g.unflushed = gpu[l].unflushed
    BY <1>1, <1>8 DEF BufferSet
  <1>11. ASSUME ~ OpenResetMayFail PROVE Agree(l, s, g)
    <2>1. Known(l, list[l], gpu[l])
      BY <1>1, <1>11 DEF Agree
    <2>2. Known(l, s, g)
      <3>1. CASE p
        <4>1. Spills(list[l].layout) => c = 1 /\ spill = gpu[l].spill
          <5>1. Spills(list[l].layout) => PushedOf(list[l].layout) = {1}
            BY <1>1, Cells
          <5>2. Spills(list[l].layout) => c = 1
            BY <3>1, <5>1 DEF p
          <5>3. QED
            BY <1>6, <3>1, <5>2 DEF SpillCell
        <4>2. (list[l].image \cup {c}) \ PushedOf(list[l].layout) = list[l].image \ PushedOf(list[l].layout)
          BY <3>1 DEF p
        <4>3. push = gpu[l].push \cup {c} /\ dirty = list[l].spilledDirty
          BY <1>1, <1>6, <3>1 DEF ListSet
        <4>4. QED
          BY <1>9, <1>10, <2>1, <4>1, <4>2, <4>3 DEF Known
      <3>2. CASE ~ p
        <4>1. c \notin PushedOf(list[l].layout) /\ dirty = TRUE
          BY <1>6, <3>2 DEF p
        <4>2. push = gpu[l].push \ {c}
          BY <1>6, <3>2
        <4>3. QED
          BY <1>9, <1>10, <2>1, <4>1, <4>2 DEF Known
      <3>3. QED
        BY <3>1, <3>2
    <2>3. QED
      BY <1>1, <1>9, <1>10, <1>11, <2>2 DEF Agree
  <1>12. After(l, s, g)
    BY <1>2 DEF s, g, p
  <1>13. QED
    BY <1>1, <1>9, <1>10, <1>11, <1>12, StillRecords

(* SetDescriptorHeaps, repeated binds dropped.                             *)
LEMMA SetDescriptorHeapsKeeps ==
  ASSUME IInv, NEW l, SetDescriptorHeaps(l)
  PROVE  IInv'
  <1>1. /\ l \in DOMAIN list /\ list[l] \in ListSet /\ gpu[l] \in BufferSet
        /\ Len(list[l].preprocessed) <= MaxRecords
        /\ list[l].isRecording = TRUE /\ list[l].error = FALSE
        /\ "shared" \notin gpu[l].wrong
        /\ Recording(l) /\ PagesStay
        /\ ~ OpenResetMayFail => Agree(l, list[l], gpu[l]) /\ gpu[l].wrong = {}
    BY RecordingIs DEF SetDescriptorHeaps
  <1>2. PICK h \in Heaps : After(l, WithHeap(list[l], h), Binds(list[l], gpu[l], h))
    BY DEF SetDescriptorHeaps
  <1>3. /\ WithHeap(list[l], h) \in ListSet /\ Binds(list[l], gpu[l], h) \in BufferSet
        /\ ~ OpenResetMayFail =>
             Agree(l, WithHeap(list[l], h), Binds(list[l], gpu[l], h))
    BY <1>1, HeapBinds
  <1>4. /\ WithHeap(list[l], h).preprocessed = list[l].preprocessed
        /\ WithHeap(list[l], h).pages = list[l].pages
        /\ WithHeap(list[l], h).isRecording = TRUE
        /\ WithHeap(list[l], h).ended = list[l].ended
    BY <1>1 DEF WithHeap, ListSet
  <1>5. /\ Binds(list[l], gpu[l], h).units = gpu[l].units
        /\ Binds(list[l], gpu[l], h).state = gpu[l].state
        /\ Binds(list[l], gpu[l], h).executed = gpu[l].executed
        /\ Binds(list[l], gpu[l], h).wrong = gpu[l].wrong
    BY <1>1 DEF Binds, BufferSet
  <1>6. QED
    BY <1>1, <1>2, <1>3, <1>4, <1>5, StillRecords
-----------------------------------------------------------------------------
(* What a flush keeps of a list and its buffer.                            *)
SameList(s, t) ==
  /\ s.preprocessed = t.preprocessed /\ s.pages = t.pages /\ s.isRecording = t.isRecording
  /\ s.ended = t.ended /\ s.continues = t.continues /\ s.passActive = t.passActive
  /\ s.heap = t.heap /\ s.emitted = t.emitted /\ s.layout = t.layout /\ s.image = t.image
  /\ s.barrierPending = t.barrierPending
SameBuffer(g, h) ==
  /\ g.units = h.units /\ g.state = h.state /\ g.executed = h.executed /\ g.wrong = h.wrong
  /\ g.rendering = h.rendering /\ g.heap = h.heap /\ g.unflushed = h.unflushed

(* The pushed cells pushed again.                                          *)
LEMMA PushedSays ==
  ASSUME Typed, NEW s \in ListSet, NEW g \in BufferSet
  PROVE  /\ Pushed(s, g) \in BufferSet /\ SameBuffer(Pushed(s, g), g)
         /\ Pushed(s, g).push = IF s.pushedDirty THEN g.push \cup PushedOf(s.layout) ELSE g.push
         /\ Pushed(s, g).spill = IF s.pushedDirty /\ SpillCell \in PushedOf(s.layout) THEN None ELSE g.spill
  <1>1. CASE ~ s.pushedDirty
    BY <1>1 DEF Pushed, SameBuffer
  <1>2. CASE s.pushedDirty
    <2>1. PICK push \in SUBSET (1 .. 3), spill \in Lists \cup {None} :
            /\ push = g.push \cup PushedOf(s.layout)
            /\ spill = IF SpillCell \in PushedOf(s.layout) THEN None ELSE g.spill
      BY Cells DEF BufferSet
    <2>2. Pushed(s, g) = [g EXCEPT !.push = push, !.spill = spill]
      BY <1>2, <2>1 DEF Pushed
    <2>3. QED
      BY <1>2, <2>1, <2>2 DEF BufferSet, SameBuffer
  <1>3. QED
    BY <1>1, <1>2

(* After the flush, what is read is what was given, if before it was known *)
(* what was to be pushed; or the list failed.                              *)
LEMMA FlushSays ==
  ASSUME Typed, NEW l \in DOMAIN list, NEW scratch \in BOOLEAN
  PROVE  LET s == Flush(l, scratch)[1]
             g == Flush(l, scratch)[2]
         IN /\ s \in ListSet /\ g \in BufferSet /\ SameList(s, list[l]) /\ SameBuffer(g, gpu[l])
            /\ list[l].error => s.error
            /\ Known(l, list[l], gpu[l]) => s.error \/ Known(l, s, g)
            /\ Known(l, list[l], gpu[l]) /\ (bufferModel \/ gpu[l].executed = {})
                 => s.error \/ Right(l, s, g)
  <1> DEFINE s == Flush(l, scratch)[1]
             g == Flush(l, scratch)[2]
             t == list[l]
             h == Pushed(t, gpu[l])
             Claim == /\ s \in ListSet /\ g \in BufferSet /\ SameList(s, t) /\ SameBuffer(g, gpu[l])
                      /\ t.error => s.error
                      /\ Known(l, t, gpu[l]) => s.error \/ Known(l, s, g)
                      /\ Known(l, t, gpu[l]) /\ (bufferModel \/ gpu[l].executed = {})
                           => s.error \/ Right(l, s, g)
  <1> SUFFICES Claim
    OBVIOUS
  <1>1. t \in ListSet /\ gpu[l] \in BufferSet
    BY DEF Typed
  <1>2. /\ h \in BufferSet /\ SameBuffer(h, gpu[l])
        /\ h.push = IF t.pushedDirty THEN gpu[l].push \cup PushedOf(t.layout) ELSE gpu[l].push
        /\ h.spill = IF t.pushedDirty /\ SpillCell \in PushedOf(t.layout) THEN None ELSE gpu[l].spill
    BY <1>1, PushedSays
  <1>3. CASE t.layout = None /\ bufferModel
    <2>1. s = t /\ g = gpu[l]
      BY <1>3 DEF Flush
    <2>2. PushedOf(t.layout) = {} /\ Spills(t.layout) = FALSE
      BY <1>3, Cells
    <2> HIDE DEF s, g, h
    <2>3. QED
      BY <1>1, <2>1, <2>2 DEF SameList, SameBuffer, Right
  <1>4. CASE t.layout = None /\ ~ bufferModel
    <2>1. s = [t EXCEPT !.pushedDirty = FALSE, !.spilledDirty = FALSE] /\ g = gpu[l]
      BY <1>4 DEF Flush
    <2>2. PushedOf(t.layout) = {} /\ Spills(t.layout) = FALSE
      BY <1>4, Cells
    <2> HIDE DEF s, g, h, t
    <2>3. s \in ListSet /\ SameList(s, t) /\ s.error = t.error
      BY <1>1, <2>1 DEF ListSet, SameList
    <2>4. SameBuffer(g, gpu[l])
      BY <2>1 DEF SameBuffer
    <2>5. Known(l, s, g) /\ Right(l, s, g)
      BY <2>2, <2>3 DEF SameList, Known, Right
    <2>6. QED
      BY <1>1, <2>1, <2>3, <2>4, <2>5 DEF t
  <1>5. CASE t.layout # None /\ t.spilledDirty /\ Spills(t.layout) /\ scratch
    <2>1. s = [t EXCEPT !.pushedDirty = FALSE, !.spilledDirty = FALSE]
      BY <1>5 DEF Flush
    <2>2. g = [h EXCEPT !.push = h.push \ {SpillCell}, !.spill = l]
      BY <1>2, <1>5 DEF Flush, Uploaded
    <2>3. PushedOf(t.layout) = {1}
      BY <1>5, Cells
    <2>4. l \in Lists
      BY DEF Typed
    <2> HIDE DEF s, g, h, t
    <2>5. s \in ListSet /\ SameList(s, t) /\ s.error = t.error
      BY <1>1, <2>1 DEF ListSet, SameList
    <2>6. /\ g \in BufferSet /\ g.push = h.push \ {SpillCell} /\ g.spill = l
          /\ SameBuffer(g, gpu[l])
      <3>1. h.push \ {SpillCell} \in SUBSET (1 .. 3)
        BY <1>2 DEF BufferSet
      <3>2. QED
        BY <1>2, <2>2, <2>4, <3>1 DEF BufferSet, SameBuffer
    <2>7. Known(l, t, gpu[l]) /\ (bufferModel \/ gpu[l].executed = {}) => Right(l, s, g)
      <3>1. Known(l, t, gpu[l]) /\ (bufferModel \/ gpu[l].executed = {}) =>
              {1} \cap t.image \subseteq h.push
        BY <1>2, <2>3 DEF Known
      <3>2. QED
        BY <2>3, <2>5, <2>6, <3>1 DEF Right, SameList, SpillCell
    <2>8. Known(l, t, gpu[l]) => Known(l, s, g)
      BY <2>6, <2>7 DEF Known, Right, SameBuffer
    <2>9. QED
      BY <2>5, <2>6, <2>7, <2>8 DEF t
  <1>6. CASE t.layout # None /\ t.spilledDirty /\ Spills(t.layout) /\ ~ scratch
    <2>1. s = Failed([t EXCEPT !.pushedDirty = FALSE]) /\ g = h
      BY <1>6 DEF Flush
    <2> HIDE DEF s, g, h, t
    <2>2. s \in ListSet /\ SameList(s, t) /\ s.error = TRUE
      BY <1>1, <2>1 DEF ListSet, SameList, Failed
    <2>3. QED
      BY <1>2, <2>1, <2>2 DEF t
  <1>7. CASE t.layout # None /\ ~ (t.spilledDirty /\ Spills(t.layout))
    <2>1. s = [t EXCEPT !.pushedDirty = FALSE, !.spilledDirty = FALSE] /\ g = h
      BY <1>7 DEF Flush
    <2>2. Spills(t.layout) => PushedOf(t.layout) = {1}
      BY Cells
    <2> HIDE DEF s, g, h, t
    <2>3. s \in ListSet /\ SameList(s, t) /\ s.error = t.error
      BY <1>1, <2>1 DEF ListSet, SameList
    <2>4. Known(l, t, gpu[l]) /\ (bufferModel \/ gpu[l].executed = {}) => Right(l, s, g)
      <3>1. Known(l, t, gpu[l]) /\ (bufferModel \/ gpu[l].executed = {}) =>
              PushedOf(t.layout) \cap t.image \subseteq h.push
        BY <1>2 DEF Known
      <3>2. Known(l, t, gpu[l]) /\ (bufferModel \/ gpu[l].executed = {}) =>
              (Spills(t.layout) /\ t.image \ PushedOf(t.layout) # {} => h.spill = l)
        BY <1>2, <1>7, <2>2 DEF Known, SpillCell
      <3>3. QED
        BY <2>1, <2>3, <3>1, <3>2 DEF Right, SameList
    <2>5. SameBuffer(g, gpu[l])
      BY <1>2, <2>1
    <2>6. Known(l, t, gpu[l]) => Known(l, s, g)
      BY <2>4, <2>5 DEF Known, Right, SameBuffer
    <2>7. QED
      BY <1>2, <2>1, <2>3, <2>4, <2>5, <2>6 DEF t
  <1>8. QED
    BY <1>3, <1>4, <1>5, <1>6, <1>7

(* A command that reads push data and changes nothing else.                *)
LEMMA ReadsKeeps ==
  ASSUME IInv, NEW l, Recording(l), MayRead(l), PagesStay,
         NEW scratch \in BOOLEAN, ReadsPushData(l, scratch)
  PROVE  IInv'
  <1> DEFINE s == Flush(l, scratch)[1]
             h == Flush(l, scratch)[2]
             g == Wrong(h, "push", ~ Right(l, s, h))
  <1>1. /\ l \in DOMAIN list /\ list[l] \in ListSet /\ gpu[l] \in BufferSet
        /\ Len(list[l].preprocessed) <= MaxRecords
        /\ list[l].isRecording = TRUE
        /\ "shared" \notin gpu[l].wrong /\ Typed
        /\ ~ OpenResetMayFail => Agree(l, list[l], gpu[l]) /\ gpu[l].wrong = {}
    BY RecordingIs DEF IInv
  <1>2. /\ s \in ListSet /\ h \in BufferSet /\ SameList(s, list[l]) /\ SameBuffer(h, gpu[l])
        /\ Known(l, list[l], gpu[l]) => s.error \/ Known(l, s, h)
        /\ Known(l, list[l], gpu[l]) /\ (bufferModel \/ gpu[l].executed = {})
             => s.error \/ Right(l, s, h)
    BY <1>1, FlushSays
  <1>3. After(l, s, g)
    BY DEF ReadsPushData
  <1> HIDE DEF s, h
  <1>4. /\ g \in BufferSet /\ g.wrong \subseteq h.wrong \cup {"push"}
        /\ Right(l, s, h) => g = h
        /\ g.units = h.units /\ g.state = h.state /\ g.executed = h.executed
    BY <1>2 DEF Wrong, BufferSet
  <1> HIDE DEF g
  <1>5. ASSUME ~ OpenResetMayFail
        PROVE  /\ g.wrong \subseteq {"push"} /\ ("push" \in g.wrong => s.error)
               /\ ~ s.error => Agree(l, s, g)
    <2>1. s.error \/ (Right(l, s, h) /\ Known(l, s, h))
      BY <1>1, <1>2, <1>5 DEF Agree, MayRead
    <2>2. h.wrong = {}
      BY <1>1, <1>2, <1>5 DEF SameBuffer
    <2>3. ~ s.error => Agree(l, s, h)
      BY <1>1, <1>2, <1>5, <2>1 DEF Agree, SameList, SameBuffer
    <2>4. QED
      BY <1>4, <2>1, <2>2, <2>3
  <1>6. "shared" \notin g.wrong
    BY <1>1, <1>2, <1>4 DEF SameBuffer
  <1>7. QED
    BY <1>1, <1>2, <1>3, <1>4, <1>5, <1>6, StillRecords DEF SameList, SameBuffer

(* Draws and dispatches.                                                   *)
LEMMA DrawKeeps ==
  ASSUME IInv, NEW l, Draw(l) \/ Dispatch(l)
  PROVE  IInv'
  BY ReadsKeeps DEF Draw, Dispatch
-----------------------------------------------------------------------------
(* After generated commands nothing is taken for bound or pushed.          *)
LEMMA GeneratedSays ==
  ASSUME Typed, NEW l, NEW s \in ListSet, NEW g \in BufferSet
  PROVE  /\ AfterGenerated(s) \in ListSet /\ Undefined(g) \in BufferSet
         /\ AfterGenerated(s).preprocessed = s.preprocessed /\ AfterGenerated(s).pages = s.pages
         /\ AfterGenerated(s).isRecording = s.isRecording /\ AfterGenerated(s).ended = s.ended
         /\ AfterGenerated(s).error = s.error
         /\ Undefined(g).units = g.units /\ Undefined(g).state = g.state
         /\ Undefined(g).executed = g.executed /\ Undefined(g).wrong = g.wrong
         /\ Undefined(g).unflushed = g.unflushed
         /\ (g.rendering # "none" <=> s.passActive /\ ~ s.continues)
              /\ (g.unflushed => s.barrierPending /\ ~ s.passActive)
              => Agree(l, AfterGenerated(s), Undefined(g))
  <1> DEFINE S == AfterGenerated(s)
             G == Undefined(g)
  <1>1. PICK dirty \in BOOLEAN : dirty = (s.spilledDirty \/ bufferModel)
    BY DEF ListSet, Typed
  <1>2. S = [s EXCEPT !.emitted = None, !.pushedDirty = TRUE, !.spilledDirty = dirty]
    BY <1>1 DEF AfterGenerated
  <1> HIDE DEF S
  <1>3. /\ S \in ListSet /\ S.preprocessed = s.preprocessed /\ S.pages = s.pages
        /\ S.isRecording = s.isRecording /\ S.ended = s.ended /\ S.error = s.error
        /\ S.emitted = None /\ S.pushedDirty = TRUE /\ S.spilledDirty = dirty
        /\ S.layout = s.layout /\ S.passActive = s.passActive /\ S.continues = s.continues
        /\ S.barrierPending = s.barrierPending
    BY <1>2 DEF ListSet
  <1>4. /\ G \in BufferSet /\ G.units = g.units /\ G.state = g.state /\ G.executed = g.executed
        /\ G.wrong = g.wrong /\ G.unflushed = g.unflushed /\ G.rendering = g.rendering
    BY DEF Undefined, BufferSet
  <1>5. Spills(s.layout) => dirty
    BY <1>1 DEF Spills
  <1> HIDE DEF G
  <1>6. Known(l, S, G)
    BY <1>3, <1>5 DEF Known
  <1>7. (g.rendering # "none" <=> s.passActive /\ ~ s.continues)
          /\ (g.unflushed => s.barrierPending /\ ~ s.passActive) => Agree(l, S, G)
    BY <1>3, <1>4, <1>6 DEF Agree
  <1>8. QED
    BY <1>3, <1>4, <1>7 DEF S, G

(* A command that takes a range for list l.                                *)
LEMMA TakesRange ==
  ASSUME IInv, NEW D \in SUBSET DOMAIN list, NEW new \in [D -> PairSet], Become(new),
         \A k \in D : Len(new[k][1].preprocessed) <= MaxRecords,
         \A k \in D : ~ OpenResetMayFail => Records(D, k, new[k][1], new[k][2]),
         bufferModel' = bufferModel,
         NEW l \in D, NEW size \in RangeSizes, NEW r \in Ranges(l, size),
         page' = PagesWith(r, size), pool' = PoolWithout(r.page),
         new[l][1].pages = list[l].pages \cup {r.page},
         new[l][2].units \subseteq gpu[l].units \cup Units(r, size),
         \A k \in D \ {l} : /\ new[k][1].pages = list[k].pages
                            /\ new[k][2].units \subseteq gpu[k].units,
         \A k \in D : "shared" \notin new[k][2].wrong
  PROVE  IInv'
  <1>1. Typed /\ PagesInv
    BY DEF IInv
  <1>2. /\ DOMAIN list' = DOMAIN list
        /\ \A k \in D : /\ list'[k] = Settled(new[k][1], new[k][2])
                        /\ gpu'[k] = Left(new[k][1], new[k][2])
                        /\ new[k][1] \in ListSet /\ new[k][2] \in BufferSet
        /\ \A k \in DOMAIN list \ D : list'[k] = list[k] /\ gpu'[k] = gpu[k]
    BY <1>1, BecomeIs
  <1>3. \A k \in D : /\ list'[k].pages = new[k][1].pages /\ gpu'[k].units = new[k][2].units
                     /\ gpu'[k].wrong \subseteq new[k][2].wrong
    BY <1>2, SettledTyped
  <1>4. \A k \in DOMAIN list : "shared" \notin gpu'[k].wrong
    BY <1>1, <1>2, <1>3 DEF PagesInv
  <1>5. \A k \in DOMAIN list \ {l} : /\ list'[k].pages = list[k].pages
                                     /\ gpu'[k].units \subseteq gpu[k].units
    BY <1>2, <1>3
  <1>6. /\ PagesInv'
        /\ DOMAIN page' \subseteq Pages /\ page' \in [DOMAIN page' -> PageSet]
        /\ pool' \in [DOMAIN pool' -> Nat]
    BY <1>1, <1>2, <1>3, <1>4, <1>5, RangeTaken
  <1>7. Typed'
    BY <1>1, <1>6, BecomeTyped
  <1>8. ~ OpenResetMayFail => RecordsFine'
    BY <1>1, BecomeFine DEF IInv
  <1>9. QED
    BY <1>6, <1>7, <1>8 DEF IInv

(* Generated commands preprocessed as they run.                            *)
LEMMA ExecuteIndirectKeeps ==
  ASSUME IInv, NEW l, ExecuteIndirect(l)
  PROVE  IInv'
  <1>1. /\ l \in DOMAIN list /\ list[l] \in ListSet /\ gpu[l] \in BufferSet
        /\ Len(list[l].preprocessed) <= MaxRecords
        /\ list[l].isRecording = TRUE
        /\ "shared" \notin gpu[l].wrong /\ Typed /\ PagesInv
        /\ Recording(l) /\ MayRead(l) /\ bufferModel' = bufferModel
        /\ ~ OpenResetMayFail => Agree(l, list[l], gpu[l]) /\ gpu[l].wrong = {}
    BY RecordingIs DEF IInv, ExecuteIndirect
  <1>2. CASE Fails(l) /\ UNCHANGED <<page, pool>>
    BY <1>1, <1>2, FailsKeeps DEF PagesStay
  <1>3. CASE ~ (Fails(l) /\ UNCHANGED <<page, pool>>)
    <2> DEFINE s(b) == Flush(l, b)[1]
               g(b) == Flush(l, b)[2]
               read(b) == Wrong(g(b), "push", ~ Right(l, s(b), g(b)))
               ran(r, size, b) == Wrong(Undefined(read(b)), "shared", Units(r, size) \cap Used # {})
    <2> DEFINE Does(size, r, b) ==
                 /\ After(l, AfterGenerated([s(b) EXCEPT !.pages = @ \cup {r.page}]),
                             [ran(r, size, b) EXCEPT !.units = @ \cup Units(r, size)])
                 /\ page' = PagesWith(r, size) /\ pool' = PoolWithout(r.page)
    <2>a. \E size \in RangeSizes : \E r \in Ranges(l, size), b \in BOOLEAN : Does(size, r, b)
      BY <1>3 DEF ExecuteIndirect
    <2>b. PICK size \in RangeSizes : \E r \in Ranges(l, size), b \in BOOLEAN : Does(size, r, b)
      BY <2>a
    <2>1. PICK r \in Ranges(l, size), b \in BOOLEAN : Does(size, r, b)
      BY <2>b
    <2>2. /\ s(b) \in ListSet /\ g(b) \in BufferSet /\ SameList(s(b), list[l])
          /\ SameBuffer(g(b), gpu[l])
          /\ Known(l, list[l], gpu[l]) /\ (bufferModel \/ gpu[l].executed = {})
               => s(b).error \/ Right(l, s(b), g(b))
      BY <1>1, FlushSays
    <2>3. /\ r.page \in Pages /\ Units(r, size) \in SUBSET (Pages \X Nat)
          /\ Units(r, size) \cap Used = {}
      BY <1>1, RangeFresh
    <2> DEFINE s1 == [s(b) EXCEPT !.pages = @ \cup {r.page}]
               g1 == Undefined(read(b))
               S == AfterGenerated(s1)
               G == [ran(r, size, b) EXCEPT !.units = @ \cup Units(r, size)]
    <2> HIDE DEF s, g
    <2>4. /\ s1 \in ListSet /\ s1.pages = list[l].pages \cup {r.page}
          /\ s1.preprocessed = list[l].preprocessed /\ s1.isRecording = TRUE
          /\ s1.ended = list[l].ended /\ s1.error = s(b).error
          /\ s1.passActive = list[l].passActive /\ s1.continues = list[l].continues
          /\ s1.barrierPending = list[l].barrierPending
      <3>1. s(b).pages \cup {r.page} \in SUBSET Pages
        BY <2>2, <2>3 DEF ListSet
      <3>2. QED
        BY <1>1, <2>2, <3>1 DEF ListSet, SameList
    <2>5. /\ read(b) \in BufferSet /\ read(b).wrong \subseteq g(b).wrong \cup {"push"}
          /\ Right(l, s(b), g(b)) => read(b).wrong = g(b).wrong
          /\ read(b).units = gpu[l].units /\ read(b).state = gpu[l].state
          /\ read(b).executed = gpu[l].executed /\ read(b).rendering = gpu[l].rendering
          /\ read(b).unflushed = gpu[l].unflushed
      BY <2>2 DEF Wrong, BufferSet, SameBuffer
    <2>6. g(b).wrong = gpu[l].wrong
      BY <2>2 DEF SameBuffer
    <2>7. ran(r, size, b) = g1
      BY <2>3 DEF Wrong
    <2> HIDE DEF read, ran
    <2>8. G = [g1 EXCEPT !.units = @ \cup Units(r, size)]
      BY <2>7
    <2>9. After(l, S, G)
      BY <2>1
    <2> HIDE DEF s1
    <2>10. /\ S \in ListSet /\ g1 \in BufferSet
           /\ S.preprocessed = s1.preprocessed /\ S.pages = s1.pages
           /\ S.isRecording = s1.isRecording /\ S.ended = s1.ended /\ S.error = s1.error
           /\ g1.units = read(b).units /\ g1.state = read(b).state
           /\ g1.executed = read(b).executed /\ g1.wrong = read(b).wrong
           /\ (read(b).rendering # "none" <=> s1.passActive /\ ~ s1.continues)
                /\ (read(b).unflushed => s1.barrierPending /\ ~ s1.passActive)
                => Agree(l, S, g1)
      <3>1. Typed /\ s1 \in ListSet /\ read(b) \in BufferSet
        BY <1>1, <2>4, <2>5
      <3>2. QED
        BY <3>1, GeneratedSays
    <2> HIDE DEF S, g1, G
    <2>11. /\ G \in BufferSet /\ G.units = gpu[l].units \cup Units(r, size)
           /\ G.state = g1.state /\ G.executed = g1.executed /\ G.wrong = g1.wrong
           /\ G.rendering = g1.rendering /\ G.heap = g1.heap /\ G.push = g1.push
           /\ G.spill = g1.spill /\ G.unflushed = g1.unflushed
      <3>1. g1.units \cup Units(r, size) \in SUBSET (Pages \X Nat)
        BY <2>3, <2>10 DEF BufferSet
      <3>2. QED
        BY <2>5, <2>8, <2>10, <3>1 DEF BufferSet
    <2>12. ASSUME ~ OpenResetMayFail
           PROVE  /\ G.wrong \subseteq {"push"} /\ ("push" \in G.wrong => S.error)
                  /\ Agree(l, S, G)
      <3>1. Agree(l, S, g1)
        BY <1>1, <2>4, <2>5, <2>10, <2>12 DEF Agree
      <3>2. Agree(l, S, G)
        BY <2>11, <3>1 DEF Agree, Known
      <3>3. s(b).error \/ Right(l, s(b), g(b))
        BY <1>1, <2>2, <2>12 DEF Agree, MayRead
      <3>4. G.wrong \subseteq {"push"} /\ ("push" \in G.wrong => S.error)
        BY <1>1, <2>4, <2>5, <2>6, <2>10, <2>11, <2>12, <3>3
      <3>5. QED
        BY <3>2, <3>4
    <2>13. "shared" \notin G.wrong
      BY <1>1, <2>5, <2>6, <2>10, <2>11
    <2>14. ~ OpenResetMayFail => Records({l}, l, S, G)
      BY <1>1, <2>4, <2>5, <2>10, <2>11, <2>12, StillFine
    <2> DEFINE new == [k \in {l} |-> <<S, G>>]
    <2>15. /\ {l} \in SUBSET DOMAIN list /\ new \in [{l} -> PairSet] /\ l \in {l}
           /\ \A k \in {l} : new[k][1] = S /\ new[k][2] = G
      BY <1>1, <2>10, <2>11 DEF PairSet
    <2>16. Become(new)
      BY <2>9 DEF After
    <2> HIDE DEF new
    <2>17. /\ \A k \in {l} : Len(new[k][1].preprocessed) <= MaxRecords
           /\ \A k \in {l} : ~ OpenResetMayFail => Records({l}, k, new[k][1], new[k][2])
           /\ \A k \in {l} : "shared" \notin new[k][2].wrong
           /\ new[l][1].pages = list[l].pages \cup {r.page}
           /\ new[l][2].units \subseteq gpu[l].units \cup Units(r, size)
           /\ {l} \ {l} = {}
      BY <1>1, <2>4, <2>10, <2>11, <2>13, <2>14, <2>15
    <2>18. QED
      BY <1>1, <2>1, <2>15, <2>16, <2>17, TakesRange
  <1>4. QED
    BY <1>2, <1>3

(* The rest of a sequence.                                                 *)
LEMMA TailSays ==
  ASSUME NEW q \in Seq(BOOLEAN), q # <<>>
  PROVE  Tail(q) \in Seq(BOOLEAN) /\ Len(Tail(q)) = Len(q) - 1 /\ Len(q) \in Nat
  <1>1. Tail(q) \in Seq(BOOLEAN) /\ Len(Tail(q)) = Len(q) - 1
    BY HeadTailProperties, Zenon
  <1>2. Len(q) \in Nat
    BY LenProperties, Zenon
  <1>3. QED
    BY <1>1, <1>2

(* Commands preprocessed before: their preprocess is visible, for one that *)
(* is not was recorded outside a pass and waits for its barrier there.     *)
LEMMA ExecutePreprocessedKeeps ==
  ASSUME IInv, NEW l, ExecutePreprocessed(l)
  PROVE  IInv'
  <1>1. /\ l \in DOMAIN list /\ list[l] \in ListSet /\ gpu[l] \in BufferSet
        /\ Len(list[l].preprocessed) <= MaxRecords
        /\ list[l].isRecording = TRUE
        /\ "shared" \notin gpu[l].wrong /\ Typed
        /\ Recording(l) /\ MayRead(l) /\ PagesStay
        /\ ~ OpenResetMayFail => Agree(l, list[l], gpu[l]) /\ gpu[l].wrong = {}
    BY RecordingIs DEF IInv, ExecutePreprocessed
  <1>2. CASE list[l].preprocessed = <<>>
    BY <1>1, <1>2, FailsKeeps DEF ExecutePreprocessed
  <1>3. CASE list[l].preprocessed # <<>>
    <2> DEFINE own == ~ Head(list[l].preprocessed)
               outside == ~ list[l].passActive
               b == IF outside THEN Flushed(list[l]) ELSE list[l]
               v == IF outside THEN Visible(list[l], gpu[l]) ELSE gpu[l]
               f(scratch) == Flush(l, scratch)[1]
               s(scratch) == IF own THEN f(scratch) ELSE list[l]
               g(scratch) == Flush(l, scratch)[2]
               seen == Wrong(Undefined(v), "unflushed", v.unflushed)
    <2>1. PICK c \in BOOLEAN :
            After(l, AfterGenerated([s(c) EXCEPT !.preprocessed = Tail(@), !.barrierPending = b.barrierPending]),
                     Wrong(seen, "push", own /\ ~ Right(l, s(c), g(c))))
      BY <1>3 DEF ExecutePreprocessed
    <2> DEFINE s1 == [s(c) EXCEPT !.preprocessed = Tail(@), !.barrierPending = b.barrierPending]
               bad == own /\ ~ Right(l, s(c), g(c))
               S == AfterGenerated(s1)
               G == Wrong(seen, "push", bad)
    <2>2. /\ f(c) \in ListSet /\ SameList(f(c), list[l])
          /\ Known(l, list[l], gpu[l]) /\ (bufferModel \/ gpu[l].executed = {})
               => f(c).error \/ Right(l, f(c), g(c))
      BY <1>1, FlushSays
    <2> HIDE DEF f, g
    <2>3. /\ s(c) \in ListSet /\ SameList(s(c), list[l])
          /\ Known(l, list[l], gpu[l]) /\ (bufferModel \/ gpu[l].executed = {})
               => s(c).error \/ ~ bad
      <3>1. SameList(list[l], list[l])
        BY DEF SameList
      <3>2. CASE own
        BY <2>2, <3>2
      <3>3. CASE ~ own
        BY <1>1, <3>1, <3>3
      <3>4. QED
        BY <3>2, <3>3
    <2> HIDE DEF s, own, bad
    <2>4. /\ v \in BufferSet /\ SameBuffer([v EXCEPT !.unflushed = FALSE], [gpu[l] EXCEPT !.unflushed = FALSE])
          /\ v.units = gpu[l].units /\ v.state = gpu[l].state /\ v.executed = gpu[l].executed
          /\ v.rendering = gpu[l].rendering /\ v.wrong = gpu[l].wrong
          /\ b.barrierPending \in BOOLEAN
          /\ ~ OpenResetMayFail => ~ v.unflushed
      <3>1. list[l] \in ListSet /\ gpu[l] \in BufferSet
        BY <1>1
      <3>2. list[l].barrierPending \in BOOLEAN
        BY <3>1 DEF ListSet
      <3>3. SameBuffer([gpu[l] EXCEPT !.unflushed = FALSE], [gpu[l] EXCEPT !.unflushed = FALSE])
        BY DEF SameBuffer
      <3>4. CASE outside /\ list[l].barrierPending
        <4>1. v = [gpu[l] EXCEPT !.unflushed = FALSE] /\ b = [list[l] EXCEPT !.barrierPending = FALSE]
          BY <3>4 DEF Visible, Flushed
        <4> HIDE DEF v, b
        <4>2. [v EXCEPT !.unflushed = FALSE] = [gpu[l] EXCEPT !.unflushed = FALSE]
          BY <3>1, <4>1 DEF BufferSet
        <4>3. b.barrierPending = FALSE
          BY <3>1, <4>1 DEF ListSet
        <4>4. QED
          BY <3>1, <3>3, <4>1, <4>2, <4>3 DEF BufferSet
      <3>5. CASE outside /\ ~ list[l].barrierPending
        <4>1. v = gpu[l] /\ b = [list[l] EXCEPT !.barrierPending = FALSE]
          BY <3>5 DEF Visible, Flushed
        <4> HIDE DEF v, b
        <4>2. b.barrierPending = FALSE
          BY <3>1, <4>1 DEF ListSet
        <4>3. ~ OpenResetMayFail => ~ gpu[l].unflushed
          BY <1>1, <3>5 DEF Agree
        <4>4. QED
          BY <3>1, <3>3, <4>1, <4>2, <4>3
      <3>6. CASE ~ outside
        <4>1. v = gpu[l] /\ b = list[l]
          BY <3>6
        <4>2. ~ OpenResetMayFail => ~ gpu[l].unflushed
          BY <1>1, <3>6 DEF Agree
        <4>3. QED
          BY <3>1, <3>2, <3>3, <4>1, <4>2
      <3>7. QED
        BY <3>4, <3>5, <3>6
    <2> HIDE DEF v, b
    <2>5. /\ s1 \in ListSet /\ Len(s1.preprocessed) <= MaxRecords
          /\ s1.pages = list[l].pages /\ s1.isRecording = TRUE /\ s1.ended = list[l].ended
          /\ s1.error = s(c).error /\ s1.passActive = list[l].passActive
          /\ s1.continues = list[l].continues
      <3>1. list[l].preprocessed \in Seq(BOOLEAN)
        BY <1>1 DEF ListSet
      <3>2. /\ Tail(list[l].preprocessed) \in Seq(BOOLEAN)
            /\ Len(Tail(list[l].preprocessed)) = Len(list[l].preprocessed) - 1
            /\ Len(list[l].preprocessed) \in Nat
        BY <1>3, <3>1, TailSays
      <3>3. Len(Tail(list[l].preprocessed)) <= MaxRecords
        BY <1>1, <3>2, CommandListAssumption
      <3>4. s1 = [s(c) EXCEPT !.preprocessed = Tail(list[l].preprocessed), !.barrierPending = b.barrierPending]
        BY <2>3 DEF SameList, ListSet
      <3>5. QED
        BY <1>1, <2>3, <2>4, <3>2, <3>3, <3>4 DEF SameList, ListSet
    <2>6. After(l, S, G)
      BY <2>1 DEF bad
    <2> HIDE DEF s1
    <2>7. /\ S \in ListSet /\ Undefined(v) \in BufferSet
          /\ S.preprocessed = s1.preprocessed /\ S.pages = s1.pages
          /\ S.isRecording = s1.isRecording /\ S.ended = s1.ended /\ S.error = s1.error
          /\ Undefined(v).units = v.units /\ Undefined(v).state = v.state
          /\ Undefined(v).executed = v.executed /\ Undefined(v).wrong = v.wrong
          /\ (v.rendering # "none" <=> s1.passActive /\ ~ s1.continues)
               /\ (v.unflushed => s1.barrierPending /\ ~ s1.passActive)
               => Agree(l, S, Undefined(v))
      BY <1>1, <2>4, <2>5, GeneratedSays
    <2> HIDE DEF S
    <2>8. /\ seen \in BufferSet /\ seen.units = v.units /\ seen.state = v.state
          /\ seen.executed = v.executed /\ seen.wrong \subseteq v.wrong \cup {"unflushed"}
          /\ ~ v.unflushed => seen = Undefined(v)
      BY <2>4, <2>7 DEF Wrong, BufferSet
    <2> HIDE DEF seen
    <2>9. /\ G \in BufferSet /\ G.units = v.units /\ G.state = v.state /\ G.executed = v.executed
          /\ G.wrong \subseteq seen.wrong \cup {"push"}
          /\ ~ bad => G = seen
          /\ G = seen \/ G = [seen EXCEPT !.wrong = G.wrong]
      BY <2>8 DEF Wrong, BufferSet
    <2> HIDE DEF G
    <2>10. ASSUME ~ OpenResetMayFail
           PROVE  /\ G.wrong \subseteq {"push"} /\ ("push" \in G.wrong => S.error)
                  /\ ~ S.error => Agree(l, S, G)
      <3>1. seen = Undefined(v) /\ seen.wrong = {}
        BY <1>1, <2>4, <2>7, <2>8, <2>10
      <3>2. Agree(l, S, Undefined(v))
        BY <1>1, <2>4, <2>5, <2>7, <2>10 DEF Agree
      <3>3. S.error \/ ~ bad
        BY <1>1, <2>3, <2>5, <2>7, <2>10 DEF Agree, MayRead
      <3>4. QED
        BY <2>9, <3>1, <3>2, <3>3
    <2>11. "shared" \notin G.wrong
      BY <1>1, <2>4, <2>8, <2>9
    <2>12. QED
      BY <1>1, <2>4, <2>5, <2>6, <2>7, <2>9, <2>10, <2>11, StillRecords
  <1>4. QED
    BY <1>2, <1>3

(* Secondaries executed: nothing is taken for bound, and they have ended.  *)
LEMMA ExecuteCommandsKeeps ==
  ASSUME IInv, NEW l, NEW k, ExecuteCommands(l, k)
  PROVE  IInv'
  <1>1. /\ l \in DOMAIN list /\ list[l] \in ListSet /\ gpu[l] \in BufferSet
        /\ Len(list[l].preprocessed) <= MaxRecords
        /\ list[l].isRecording = TRUE
        /\ "shared" \notin gpu[l].wrong /\ Typed
        /\ Recording(l) /\ PagesStay /\ k \in DOMAIN list /\ k # l
        /\ ~ OpenResetMayFail => /\ Agree(l, list[l], gpu[l]) /\ gpu[l].wrong = {}
                                 /\ gpu[l].state = "recording" /\ ~ list[l].ended
    BY RecordingIs DEF IInv, ExecuteCommands
  <1>2. CASE list[l].kind = "secondary" \/ ~ Executable(l, k)
    BY <1>1, <1>2, FailsKeeps DEF ExecuteCommands
  <1>3. CASE ~ (list[l].kind = "secondary" \/ ~ Executable(l, k))
    <2> DEFINE S == AfterSecondaries(list[l])
               G == [Undefined(gpu[l]) EXCEPT !.executed = @ \cup {k}]
    <2>1. After(l, S, G)
      BY <1>3 DEF ExecuteCommands
    <2>2. ~ list[k].isRecording /\ list[k].ended
      BY <1>3 DEF ExecuteCommands, Executable
    <2>3. bufferModel \in BOOLEAN /\ k \in Lists
      BY <1>1 DEF Typed
    <2>4. /\ S \in ListSet /\ S.preprocessed = list[l].preprocessed /\ S.pages = list[l].pages
          /\ S.isRecording = TRUE /\ S.ended = list[l].ended /\ S.emitted = None
          /\ S.pushedDirty = bufferModel /\ S.spilledDirty = bufferModel
          /\ S.layout = list[l].layout /\ S.passActive = list[l].passActive
          /\ S.continues = list[l].continues /\ S.barrierPending = list[l].barrierPending
          /\ S.error = list[l].error
      BY <1>1, <2>3 DEF AfterSecondaries, ListSet
    <2>5. /\ G \in BufferSet /\ G.units = gpu[l].units /\ G.state = gpu[l].state
          /\ G.executed = gpu[l].executed \cup {k} /\ G.wrong = gpu[l].wrong
          /\ G.unflushed = gpu[l].unflushed /\ G.rendering = gpu[l].rendering
      <3>1. gpu[l].executed \cup {k} \in SUBSET Lists
        BY <1>1, <2>3 DEF BufferSet
      <3>2. G = [gpu[l] EXCEPT !.push = {}, !.spill = None, !.heap = None,
                               !.executed = gpu[l].executed \cup {k}]
        BY <1>1 DEF Undefined, BufferSet
      <3>3. QED
        BY <1>1, <3>1, <3>2 DEF BufferSet
    <2> HIDE DEF S, G
    <2>6. ASSUME ~ OpenResetMayFail PROVE Records({l}, l, S, G)
      <3>1. Spills(S.layout) => bufferModel
        BY DEF Spills
      <3>2. Agree(l, S, G)
        BY <1>1, <2>4, <2>5, <2>6, <3>1 DEF Agree, Known
      <3>3. Almost(l, S, G)
        BY <1>1, <2>4, <2>5, <2>6, <3>2 DEF Almost, Stages
      <3>4. DOMAIN gpu = DOMAIN list
        BY <1>1 DEF Typed
      <3>5. \A j : InUse(j) => gpu[j].state = "executable" /\ ~ list[j].isRecording
        BY <2>6, <3>4 DEF InUse, IInv, RecordsFine, Executions
      <3>6. ~ InUse(l)
        BY <1>1, <2>6, <3>5
      <3>7. gpu[k].state = "executable"
        BY <1>1, <2>2, <2>6 DEF IInv, RecordsFine, Fine, Stages
      <3>8. \A j \in G.executed : /\ j \in DOMAIN list /\ gpu[j].state = "executable"
                                  /\ ~ list[j].isRecording /\ j # l
        <4>1. \A j \in gpu[l].executed : /\ j \in DOMAIN list /\ InUse(j)
          BY <1>1, <2>6, <3>4 DEF InUse, IInv, RecordsFine, Executions
        <4>2. QED
          BY <1>1, <2>2, <2>5, <3>5, <3>6, <3>7, <4>1
      <3>9. QED
        BY <3>3, <3>6, <3>8 DEF Records
    <2>7. QED
      BY <1>1, <2>1, <2>4, <2>5, <2>6, OneList
  <1>4. QED
    BY <1>2, <1>3
-----------------------------------------------------------------------------
(* The life of a list.  An empty buffer.                                   *)
LEMMA EmptySays ==
  ASSUME NEW state \in States
  PROVE  /\ Empty(state) \in BufferSet /\ Empty(state).units = {} /\ Empty(state).wrong = {}
         /\ Empty(state).executed = {} /\ Empty(state).state = state
         /\ Empty(state).rendering = "none" /\ Empty(state).unflushed = FALSE
         /\ Empty(state).heap = None
  BY DEF Empty, BufferSet

(* A secondary begins, whose last end is undone.                           *)
LEMMA BeginSecondaryKeeps ==
  ASSUME IInv, NEW l, BeginSecondary(l)
  PROVE  IInv'
  <1>1. /\ l \in DOMAIN list /\ ~ list[l].isRecording /\ gpu[l].state = "initial" /\ PagesStay
        /\ list[l] \in ListSet /\ gpu[l] \in BufferSet /\ Typed
        /\ Len(list[l].preprocessed) <= MaxRecords
    BY DEF BeginSecondary, IInv, Typed
  <1>2. PICK inside \in BOOLEAN :
          After(l, [list[l] EXCEPT !.isRecording = TRUE, !.continues = inside, !.passActive = inside],
                   Empty("recording"))
    BY DEF BeginSecondary
  <1> DEFINE s == [list[l] EXCEPT !.isRecording = TRUE, !.continues = inside, !.passActive = inside]
             g == Empty("recording")
  <1>3. /\ s \in ListSet /\ s.preprocessed = list[l].preprocessed /\ s.pages = list[l].pages
        /\ s.isRecording = TRUE /\ s.continues = inside /\ s.passActive = inside
        /\ s.ended = list[l].ended /\ s.layout = list[l].layout /\ s.emitted = list[l].emitted
    BY <1>1 DEF ListSet
  <1>4. /\ g \in BufferSet /\ g.units = {} /\ g.wrong = {} /\ g.executed = {} /\ g.state = "recording"
        /\ g.rendering = "none" /\ g.unflushed = FALSE /\ g.heap = None
    BY EmptySays DEF States
  <1> HIDE DEF s, g
  <1>5. ASSUME ~ OpenResetMayFail PROVE Records({l}, l, s, g)
    <2>1. Fine(l, list[l], gpu[l])
      BY <1>1, <1>5 DEF IInv, RecordsFine
    <2>2. list[l].layout = None /\ list[l].emitted = None /\ ~ list[l].ended
      BY <1>1, <2>1 DEF Fine, Recorded, Blank, Stages
    <2>3. PushedOf(None) = {} /\ Spills(None) = FALSE
      BY <1>1, Cells
    <2>4. Agree(l, s, g)
      BY <1>3, <1>4, <2>2, <2>3 DEF Agree, Known
    <2>5. Almost(l, s, g)
      BY <1>3, <1>4, <2>2, <2>4 DEF Almost, Stages
    <2>6. ~ InUse(l)
      BY <1>1, <1>5 DEF InUse, IInv, RecordsFine, Executions, Typed
    <2>7. QED
      BY <1>4, <2>5, <2>6 DEF Records
  <1>6. After(l, s, g)
    BY <1>2 DEF s, g
  <1>7. QED
    BY <1>1, <1>3, <1>4, <1>5, <1>6, OneList

(* The end of a list, its own pass closed, or its failure.                 *)
LEMMA EndKeeps ==
  ASSUME IInv, NEW l, End(l)
  PROVE  IInv'
  <1> DEFINE own == list[l].passActive /\ ~ list[l].continues
             closed == Ended(list[l])
             g == IF own THEN Outside(gpu[l]) ELSE gpu[l]
             s == [closed EXCEPT !.isRecording = FALSE, !.ended = TRUE]
             e == [g EXCEPT !.state = "executable"]
             i == [g EXCEPT !.state = "invalid"]
  <1>1. /\ l \in DOMAIN list /\ list[l] \in ListSet /\ gpu[l] \in BufferSet
        /\ Len(list[l].preprocessed) <= MaxRecords
        /\ list[l].isRecording = TRUE
        /\ "shared" \notin gpu[l].wrong /\ Typed
        /\ Recording(l) /\ PagesStay
        /\ ~ OpenResetMayFail => /\ Agree(l, list[l], gpu[l]) /\ gpu[l].wrong = {}
                                 /\ gpu[l].state = "recording" /\ ~ list[l].ended
    BY RecordingIs DEF IInv, End
  <1>2. \/ After(l, closed, g)
        \/ After(l, s, e)
        \/ After(l, closed, i)
    BY DEF End
  <1>3. /\ closed \in ListSet /\ closed.preprocessed = list[l].preprocessed
        /\ closed.pages = list[l].pages /\ closed.isRecording = TRUE /\ closed.ended = list[l].ended
        /\ closed.passActive = FALSE /\ closed.emitted = list[l].emitted
        /\ closed.layout = list[l].layout /\ closed.image = list[l].image
        /\ closed.pushedDirty = list[l].pushedDirty /\ closed.spilledDirty = list[l].spilledDirty
        /\ closed.barrierPending = list[l].barrierPending
    BY <1>1 DEF ListSet, Ended
  <1>4. /\ s \in ListSet /\ s.preprocessed = list[l].preprocessed
        /\ s.pages = list[l].pages /\ s.isRecording = FALSE /\ s.ended = TRUE
    BY <1>3 DEF ListSet
  <1>5. /\ g \in BufferSet /\ g.units = gpu[l].units /\ g.state = gpu[l].state
        /\ g.executed = gpu[l].executed /\ g.wrong = gpu[l].wrong
        /\ g.heap = gpu[l].heap /\ g.push = gpu[l].push /\ g.spill = gpu[l].spill
        /\ g.unflushed = gpu[l].unflushed
        /\ ~ OpenResetMayFail => g.rendering = "none"
    BY <1>1 DEF BufferSet, Outside, Agree
  <1> HIDE DEF closed, s, g
  <1>6. /\ e \in BufferSet /\ e.units = gpu[l].units /\ e.state = "executable"
        /\ e.executed = gpu[l].executed /\ e.wrong = gpu[l].wrong
        /\ i \in BufferSet /\ i.units = gpu[l].units /\ i.state = "invalid"
        /\ i.executed = gpu[l].executed /\ i.wrong = gpu[l].wrong
    BY <1>5 DEF BufferSet, States
  <1> HIDE DEF e, i
  <1>7. CASE After(l, closed, g)
    <2>1. ASSUME ~ OpenResetMayFail PROVE Agree(l, closed, g)
      BY <1>1, <1>3, <1>5, <2>1 DEF Agree, Known
    <2>2. QED
      BY <1>1, <1>3, <1>5, <1>7, <2>1, StillRecords
  <1>8. ASSUME ~ OpenResetMayFail
        PROVE  Records({l}, l, s, e) /\ Records({l}, l, closed, i)
    <2>1. Almost(l, s, e)
      BY <1>1, <1>4, <1>6, <1>8 DEF Almost, Stages, Recorded
    <2>2. Almost(l, closed, i)
      BY <1>1, <1>3, <1>6, <1>8 DEF Almost, Stages, Recorded
    <2>3. DOMAIN gpu = DOMAIN list
      BY <1>1 DEF Typed
    <2>4. \A j : InUse(j) => gpu[j].state = "executable" /\ ~ list[j].isRecording
      BY <1>8, <2>3 DEF InUse, IInv, RecordsFine, Executions
    <2>5. ~ InUse(l)
      BY <1>1, <1>8, <2>4
    <2>6. \A j \in gpu[l].executed : j \in DOMAIN list /\ InUse(j)
      BY <1>1, <1>8, <2>3 DEF InUse, IInv, RecordsFine, Executions
    <2>7. QED
      BY <1>6, <2>1, <2>2, <2>4, <2>5, <2>6 DEF Records
  <1>9. CASE After(l, s, e)
    BY <1>1, <1>4, <1>6, <1>8, <1>9, OneList
  <1>10. CASE After(l, closed, i)
    BY <1>1, <1>3, <1>6, <1>8, <1>10, OneList
  <1>11. QED
    BY <1>2, <1>7, <1>9, <1>10

(* The pool of an ended list is reset.                                     *)
LEMMA ResetAllocatorKeeps ==
  ASSUME IInv, NEW l, ResetAllocator(l)
  PROVE  IInv'
  <1> DEFINE s == [list[l] EXCEPT !.ended = FALSE]
             g == Empty("discarded")
  <1>1. /\ l \in DOMAIN list /\ ~ list[l].isRecording /\ ~ InUse(l) /\ PagesStay
        /\ list[l] \in ListSet /\ Len(list[l].preprocessed) <= MaxRecords
        /\ After(l, s, g)
    BY DEF ResetAllocator, IInv, Typed
  <1>2. /\ s \in ListSet /\ s.preprocessed = list[l].preprocessed /\ s.pages = list[l].pages
        /\ s.isRecording = FALSE /\ s.ended = FALSE
    BY <1>1 DEF ListSet
  <1>3. /\ g \in BufferSet /\ g.units = {} /\ g.wrong = {} /\ g.executed = {}
    BY EmptySays DEF States
  <1> HIDE DEF s, g
  <1>4. Records({l}, l, s, g)
    BY <1>1, <1>2, <1>3 DEF Records, Almost, Stages, Recorded
  <1>5. QED
    BY <1>1, <1>2, <1>3, <1>4, OneList

(* A list that is reset loses its pages to the pool, or keeps what it had. *)
LEMMA ResetKeeps ==
  ASSUME IInv, NEW l, Reset(l)
  PROVE  IInv'
  <1> DEFINE dropped == [list[l] EXCEPT !.ended = FALSE]
             S == [NewList(list[l].kind) EXCEPT !.pages = Kept(l)]
             G == Empty(IF list[l].kind = "primary" THEN "recording" ELSE "initial")
             Moves == /\ pool' = [p \in DOMAIN Aged(l) \ Idle(Aged(l)) |-> Aged(l)[p]]
                      /\ page' = [p \in DOMAIN page \ Idle(Aged(l)) |->
                                    IF p \in list[l].pages THEN [page[p] EXCEPT !.cursor = 0] ELSE page[p]]
             Halfway == /\ OpenResetMayFail \/ ~ list[l].isRecording
                        /\ \/ After(l, dropped, Empty("none"))
                           \/ After(l, dropped, gpu[l])
                           \/ After(l, dropped, Empty("initial"))
                        /\ UNCHANGED <<page, pool>>
  <1>1. /\ l \in DOMAIN list /\ list[l] \in ListSet /\ gpu[l] \in BufferSet
        /\ Len(list[l].preprocessed) <= MaxRecords /\ Typed /\ PagesInv
        /\ "shared" \notin gpu[l].wrong /\ list[l].kind # "adopted" /\ ~ InUse(l)
        /\ bufferModel' = bufferModel
    BY DEF Reset, IInv, Typed, PagesInv
  <1>2. Halfway \/ (After(l, S, G) /\ Moves)
    BY DEF Reset
  <1>3. CASE Halfway
    <2>1. PICK g \in {Empty("none"), gpu[l], Empty("initial")} : After(l, dropped, g)
      BY <1>3
    <2>2. g \in BufferSet /\ g.units \subseteq gpu[l].units /\ "shared" \notin g.wrong
          /\ (g.wrong = {} \/ g = gpu[l]) /\ g.executed \subseteq gpu[l].executed
      BY <1>1, <2>1, EmptySays DEF States
    <2>3. /\ dropped \in ListSet /\ dropped.preprocessed = list[l].preprocessed
          /\ dropped.pages = list[l].pages /\ dropped.isRecording = list[l].isRecording
          /\ dropped.ended = FALSE
      BY <1>1 DEF ListSet
    <2>4. PagesStay
      BY <1>1, <1>3 DEF PagesStay
    <2> HIDE DEF dropped
    <2>5. ASSUME ~ OpenResetMayFail PROVE Records({l}, l, dropped, g)
      <3>1. gpu[l].wrong = {} /\ ~ list[l].isRecording
        BY <1>1, <1>3, <2>5 DEF IInv, RecordsFine, Fine
      <3>2. Almost(l, dropped, g)
        BY <2>2, <2>3, <3>1 DEF Almost, Stages, Recorded
      <3>3. \A j \in gpu[l].executed : /\ j \in DOMAIN list /\ gpu[j].state = "executable"
                                       /\ ~ list[j].isRecording /\ InUse(j)
        BY <1>1, <2>5 DEF IInv, RecordsFine, Executions, InUse, Typed
      <3>4. QED
        BY <1>1, <2>2, <3>2, <3>3 DEF Records
    <2>6. QED
      BY <1>1, <2>1, <2>2, <2>3, <2>4, <2>5, OneList
  <1>4. CASE After(l, S, G) /\ Moves
    <2>1. NewList(list[l].kind) \in ListSet
      BY <1>1, EmptySeq, CommandListAssumption DEF NewList, ListSet
    <2>2. /\ S \in ListSet /\ S.pages = {} /\ S.preprocessed = <<>> /\ S.ended = FALSE
          /\ S.isRecording = (list[l].kind # "secondary") /\ S.passActive = FALSE
          /\ S.emitted = None /\ S.layout = None
      <3>1. S = [NewList(list[l].kind) EXCEPT !.pages = {}]
        BY DEF Kept
      <3> HIDE DEF S
      <3>2. S \in ListSet
        BY <2>1, <3>1 DEF ListSet
      <3>3. /\ S.pages = {} /\ S.preprocessed = <<>> /\ S.ended = FALSE
            /\ S.isRecording = (list[l].kind # "secondary") /\ S.passActive = FALSE
            /\ S.emitted = None /\ S.layout = None
        BY <3>1 DEF NewList
      <3>4. QED
        BY <3>2, <3>3
    <2>3. /\ G \in BufferSet /\ G.units = {} /\ G.wrong = {} /\ G.executed = {}
          /\ G.state = (IF list[l].kind = "primary" THEN "recording" ELSE "initial")
          /\ G.rendering = "none" /\ G.unflushed = FALSE /\ G.heap = None
      BY EmptySays DEF States
    <2> DEFINE aged == Aged(l)
               gone == Idle(aged)
    <2>4. /\ DOMAIN aged = DOMAIN pool \cup list[l].pages /\ gone \subseteq DOMAIN aged
          /\ \A p \in DOMAIN aged : aged[p] \in Nat
      BY <1>1 DEF Aged, Idle, Typed
    <2>5. /\ pool' = [p \in DOMAIN aged \ gone |-> aged[p]]
          /\ page' = [p \in DOMAIN page \ gone |->
                        IF p \in list[l].pages THEN [page[p] EXCEPT !.cursor = 0] ELSE page[p]]
      BY <1>4
    <2> DEFINE new == [k \in {l} |-> <<S, G>>]
    <2> HIDE DEF S, G, aged, gone
    <2>6. /\ new \in [{l} -> PairSet] /\ {l} \in SUBSET DOMAIN list
          /\ \A k \in {l} : new[k][1] = S /\ new[k][2] = G
      BY <1>1, <2>2, <2>3 DEF PairSet
    <2>7. Become(new)
      BY <1>4 DEF After
    <2> HIDE DEF new
    <2>8. /\ DOMAIN page' = DOMAIN page \ gone
          /\ \A p \in DOMAIN page' : /\ page'[p] \in PageSet /\ page'[p].cursor <= page'[p].capacity
                                     /\ p \notin list[l].pages => page'[p] = page[p]
      <3>1. ASSUME NEW p \in DOMAIN page'
            PROVE  /\ page'[p] \in PageSet /\ page'[p].cursor <= page'[p].capacity
                   /\ p \notin list[l].pages => page'[p] = page[p]
        <4>1. p \in DOMAIN page /\ page[p] \in PageSet /\ page[p].cursor <= page[p].capacity
          BY <1>1, <2>5, <3>1 DEF Typed, PagesInv
        <4>2. CASE p \in list[l].pages
          BY <2>5, <4>1, <4>2 DEF PageSet
        <4>3. CASE p \notin list[l].pages
          BY <2>5, <4>1, <4>3
        <4>4. QED
          BY <4>2, <4>3
      <3>2. QED
        BY <2>5, <3>1
    <2>9. DOMAIN pool' = DOMAIN aged \ gone /\ \A p \in DOMAIN pool' : pool'[p] \in Nat
      BY <2>4, <2>5
    <2>10. /\ DOMAIN page' \subseteq Pages /\ page' \in [DOMAIN page' -> PageSet]
           /\ pool' \in [DOMAIN pool' -> Nat]
      <3>1. page' = [p \in DOMAIN page' |-> page'[p]] /\ pool' = [p \in DOMAIN pool' |-> pool'[p]]
        BY <2>5
      <3>2. QED
        BY <1>1, <2>8, <2>9, <3>1 DEF Typed
    <2>11. Typed'
      <3>1. \A k \in {l} : Len(new[k][1].preprocessed) <= MaxRecords
        BY <2>2, <2>6, EmptySeq, CommandListAssumption
      <3>2. QED
        BY <1>1, <2>6, <2>7, <2>10, <3>1, BecomeTyped
    <2>12. PagesInv'
      <3>1. /\ DOMAIN list' = DOMAIN list
            /\ list'[l] = Settled(new[l][1], new[l][2]) /\ gpu'[l] = Left(new[l][1], new[l][2])
            /\ \A k \in DOMAIN list \ {l} : list'[k] = list[k] /\ gpu'[k] = gpu[k]
        BY <1>1, <2>6, <2>7, BecomeIs
      <3>2. /\ list'[l].pages = {} /\ gpu'[l].units = {} /\ "shared" \notin gpu'[l].wrong
        BY <2>2, <2>3, <2>6, <3>1, SettledTyped
      <3>3. \A k \in DOMAIN list' : "shared" \notin gpu'[k].wrong
        BY <1>1, <3>1, <3>2 DEF PagesInv
      <3>4. \A k \in DOMAIN list \ {l} : \A p \in list[k].pages : p \notin gone
        BY <1>1, <2>4 DEF PagesInv
      <3>5. \A p : p \in DOMAIN page' <=> p \in DOMAIN pool' \/ \E k \in DOMAIN list' : p \in list'[k].pages
        <4>1. \A p : (\E k \in DOMAIN list' : p \in list'[k].pages)
                       <=> \E k \in DOMAIN list \ {l} : p \in list[k].pages
          BY <3>1, <3>2
        <4>2. \A p : p \in DOMAIN page <=>
                       p \in DOMAIN pool \/ p \in list[l].pages
                         \/ \E k \in DOMAIN list \ {l} : p \in list[k].pages
          BY <1>1 DEF PagesInv
        <4>3. QED
          BY <2>4, <2>8, <2>9, <3>4, <4>1, <4>2
      <3>6. \A k \in DOMAIN list : /\ list'[k].pages \cap DOMAIN pool' = {}
                                   /\ \A j \in DOMAIN list \ {k} : list'[k].pages \cap list'[j].pages = {}
        BY <1>1, <2>4, <2>9, <3>1, <3>2 DEF PagesInv
      <3>7. \A k \in DOMAIN list : \A u \in gpu'[k].units :
              u[1] \in list'[k].pages /\ u[2] < page'[u[1]].cursor
        <4>1. SUFFICES ASSUME NEW k \in DOMAIN list \ {l}, NEW u \in gpu[k].units
                       PROVE  u[1] \in list[k].pages /\ u[2] < page'[u[1]].cursor
          BY <3>1, <3>2
        <4>2. /\ u[1] \in list[k].pages /\ u[2] < page[u[1]].cursor
              /\ u[1] \in DOMAIN page /\ u[1] \notin list[l].pages
          BY <1>1 DEF PagesInv
        <4>3. QED
          BY <2>8, <3>4, <4>2
      <3>8. QED
        BY <2>8, <3>1, <3>3, <3>5, <3>6, <3>7 DEF PagesInv
    <2>13. ASSUME ~ OpenResetMayFail PROVE RecordsFine'
      <3>1. S.isRecording => G.state = "recording"
        BY <1>1, <2>2, <2>3 DEF ListSet
      <3>2. PushedOf(None) = {} /\ Spills(None) = FALSE
        BY <1>1, Cells
      <3>3. Agree(l, S, G)
        BY <2>2, <2>3, <3>2 DEF Agree, Known
      <3>4. Records({l}, l, S, G)
        BY <1>1, <2>2, <2>3, <3>1, <3>3 DEF Records, Almost, Stages
      <3>5. \A k \in {l} : Records({l}, k, new[k][1], new[k][2])
        BY <2>6, <3>4
      <3>6. QED
        BY <1>1, <2>6, <2>7, <2>13, <3>5, BecomeFine DEF IInv
    <2>14. QED
      BY <2>11, <2>12, <2>13 DEF IInv
  <1>5. QED
    BY <1>2, <1>3, <1>4

(* A list is made.                                                         *)
LEMMA CreateCommandListKeeps ==
  ASSUME IInv, NEW l \in Lists, CreateCommandList(l)
  PROVE  IInv'
  <1>1. PICK kind \in {"primary", "secondary", "adopted"} :
          /\ list' = [k \in DOMAIN list \cup {l} |-> IF k = l THEN NewList(kind) ELSE list[k]]
          /\ gpu' = [k \in DOMAIN list \cup {l} |->
                       IF k = l THEN Empty(IF kind = "secondary" THEN "initial" ELSE "recording")
                                ELSE gpu[k]]
    BY DEF CreateCommandList
  <1>2. /\ l \notin DOMAIN list /\ bufferModel' = bufferModel /\ page' = page /\ pool' = pool
        /\ Typed /\ PagesInv
    BY DEF CreateCommandList, IInv
  <1> DEFINE S == NewList(kind)
             G == Empty(IF kind = "secondary" THEN "initial" ELSE "recording")
  <1>3. /\ S \in ListSet /\ S.pages = {} /\ S.preprocessed = <<>> /\ S.ended = FALSE
        /\ S.isRecording = (kind # "secondary") /\ S.passActive = FALSE /\ S.image = {}
        /\ S.emitted = None /\ S.layout = None /\ S.barrierPending = FALSE
        /\ S.pushedDirty = FALSE /\ S.spilledDirty = FALSE
    BY EmptySeq, CommandListAssumption DEF NewList, ListSet
  <1>4. /\ G \in BufferSet /\ G.units = {} /\ G.wrong = {} /\ G.executed = {}
        /\ G.state = (IF kind = "secondary" THEN "initial" ELSE "recording")
        /\ G.rendering = "none" /\ G.unflushed = FALSE /\ G.heap = None
    BY EmptySays DEF States
  <1> HIDE DEF S, G
  <1>5. /\ DOMAIN list' = DOMAIN list \cup {l} /\ DOMAIN gpu' = DOMAIN list \cup {l}
        /\ list'[l] = S /\ gpu'[l] = G
        /\ \A k \in DOMAIN list : list'[k] = list[k] /\ gpu'[k] = gpu[k]
    BY <1>1, <1>2 DEF S, G
  <1>6. Typed'
    <2>1. list' \in [DOMAIN list \cup {l} -> ListSet] /\ gpu' \in [DOMAIN list \cup {l} -> BufferSet]
      BY <1>1, <1>2, <1>3, <1>4 DEF Typed, S, G
    <2>2. \A k \in DOMAIN list' : Len(list'[k].preprocessed) <= MaxRecords
      BY <1>2, <1>3, <1>5, EmptySeq, CommandListAssumption DEF Typed
    <2>3. QED
      BY <1>2, <1>5, <2>1, <2>2 DEF Typed
  <1>7. PagesInv'
    <2>1. \A p : (\E k \in DOMAIN list' : p \in list'[k].pages) <=> \E k \in DOMAIN list : p \in list[k].pages
      BY <1>3, <1>5
    <2>2. \A p : p \in DOMAIN page' <=> p \in DOMAIN pool' \/ \E k \in DOMAIN list' : p \in list'[k].pages
      BY <1>2, <2>1 DEF PagesInv
    <2>3. \A k \in DOMAIN list' : "shared" \notin gpu'[k].wrong
      BY <1>2, <1>4, <1>5 DEF PagesInv
    <2>4. \A k \in DOMAIN list' :
            /\ list'[k].pages \cap DOMAIN pool' = {}
            /\ \A j \in DOMAIN list' \ {k} : list'[k].pages \cap list'[j].pages = {}
            /\ \A u \in gpu'[k].units : u[1] \in list'[k].pages /\ u[2] < page'[u[1]].cursor
      BY <1>2, <1>3, <1>4, <1>5 DEF PagesInv
    <2>5. QED
      BY <1>2, <2>2, <2>3, <2>4 DEF PagesInv
  <1>8. ASSUME ~ OpenResetMayFail PROVE RecordsFine'
    <2>1. RecordsFine
      BY <1>8 DEF IInv
    <2>2. PushedOf(None) = {} /\ Spills(None) = FALSE
      BY <1>2, Cells
    <2>3. Agree(l, S, G)
      BY <1>3, <1>4, <2>2 DEF Agree, Known
    <2>4. Stages(S, G) /\ Blank(S, G)
      BY <1>3, <1>4 DEF Stages, Blank
    <2>5. Fine(l, S, G)
      BY <1>4, <2>3, <2>4 DEF Fine
    <2>6. ASSUME NEW k \in DOMAIN list'
          PROVE  Fine(k, list[k], gpu[k])'
      <3>1. \E s, g : s = list'[k] /\ g = gpu'[k] /\ Fine(k, s, g)
        BY <1>5, <2>1, <2>5 DEF RecordsFine
      <3>2. QED
        BY <1>2, <3>1, FineNext
    <2>7. Executions'
      BY <1>4, <1>5, <2>1 DEF RecordsFine, Executions
    <2>8. QED
      BY <2>6, <2>7 DEF RecordsFine
  <1>9. QED
    BY <1>6, <1>7, <1>8 DEF IInv

(* A list is destroyed with its pages.                                     *)
LEMMA DestroyKeeps ==
  ASSUME IInv, NEW l, Destroy(l)
  PROVE  IInv'
  <1>1. /\ l \in DOMAIN list /\ ~ InUse(l) /\ bufferModel' = bufferModel /\ pool' = pool
        /\ Typed /\ PagesInv
    BY DEF Destroy, IInv
  <1>2. /\ list' = [k \in DOMAIN list \ {l} |-> list[k]]
        /\ gpu' = [k \in DOMAIN list \ {l} |-> gpu[k]]
        /\ page' = [p \in DOMAIN page \ list[l].pages |-> page[p]]
    BY <1>1 DEF Destroy, Typed
  <1>3. Typed'
    <2>1. /\ list' \in [DOMAIN list' -> ListSet] /\ gpu' \in [DOMAIN list' -> BufferSet]
          /\ page' \in [DOMAIN page' -> PageSet]
      BY <1>1, <1>2 DEF Typed
    <2>2. \A k \in DOMAIN list' : Len(list'[k].preprocessed) <= MaxRecords
      BY <1>1, <1>2 DEF Typed
    <2>3. DOMAIN list' \subseteq Lists /\ DOMAIN page' \subseteq Pages
      BY <1>1, <1>2 DEF Typed
    <2>4. QED
      BY <1>1, <2>1, <2>2, <2>3 DEF Typed
  <1>4. PagesInv'
    <2>1. \A p : p \in DOMAIN page <=>
                   p \in DOMAIN pool \/ p \in list[l].pages
                     \/ \E k \in DOMAIN list \ {l} : p \in list[k].pages
      BY <1>1 DEF PagesInv
    <2>2. \A p \in list[l].pages : p \notin DOMAIN pool /\ \A k \in DOMAIN list \ {l} : p \notin list[k].pages
      BY <1>1 DEF PagesInv
    <2>3. \A p : p \in DOMAIN page' <=> p \in DOMAIN pool' \/ \E k \in DOMAIN list' : p \in list'[k].pages
      BY <1>1, <1>2, <2>1, <2>2
    <2>4. \A k \in DOMAIN list' :
            /\ list'[k].pages \cap DOMAIN pool' = {}
            /\ \A j \in DOMAIN list' \ {k} : list'[k].pages \cap list'[j].pages = {}
            /\ "shared" \notin gpu'[k].wrong
      BY <1>1, <1>2 DEF PagesInv
    <2>5. ASSUME NEW k \in DOMAIN list', NEW u \in gpu'[k].units
          PROVE  u[1] \in list'[k].pages /\ u[2] < page'[u[1]].cursor
      <3>1. /\ k \in DOMAIN list \ {l} /\ u[1] \in list[k].pages /\ u[2] < page[u[1]].cursor
            /\ u[1] \in DOMAIN page
        BY <1>1, <1>2, <2>5 DEF PagesInv
      <3>2. QED
        BY <1>2, <2>2, <3>1
    <2>6. \A p \in DOMAIN page' : page'[p].cursor <= page'[p].capacity
      BY <1>1, <1>2 DEF PagesInv
    <2>7. QED
      BY <2>3, <2>4, <2>5, <2>6 DEF PagesInv
  <1>5. ASSUME ~ OpenResetMayFail PROVE RecordsFine'
    <2>1. RecordsFine
      BY <1>5 DEF IInv
    <2>2. ASSUME NEW k \in DOMAIN list'
          PROVE  Fine(k, list[k], gpu[k])'
      <3>1. \E s, g : s = list'[k] /\ g = gpu'[k] /\ Fine(k, s, g)
        BY <1>2, <2>1 DEF RecordsFine
      <3>2. QED
        BY <1>1, <3>1, FineNext
    <2>3. \A k \in DOMAIN list : l \notin gpu[k].executed
      BY <1>1 DEF InUse, Typed
    <2>4. Executions'
      BY <1>2, <2>1, <2>3 DEF RecordsFine, Executions
    <2>5. QED
      BY <2>2, <2>4 DEF RecordsFine
  <1>6. QED
    BY <1>3, <1>4, <1>5 DEF IInv
-----------------------------------------------------------------------------
(* A preprocess records into l for an execution with the state of t, whose *)
(* push data is recorded, too.                                             *)
Pair(l, t, sl, gl, st, gt) == [k \in {l, t} |-> IF k = l THEN <<sl, gl>> ELSE <<st, gt>>]

(* The two lists afterwards, with or without a range taken for l.          *)
LEMMA TwoLists ==
  ASSUME IInv, NEW l \in DOMAIN list, NEW t \in DOMAIN list, l # t, bufferModel' = bufferModel,
         NEW sl \in ListSet, NEW gl \in BufferSet, NEW st \in ListSet, NEW gt \in BufferSet,
         Become(Pair(l, t, sl, gl, st, gt)),
         Len(sl.preprocessed) <= MaxRecords, Len(st.preprocessed) <= MaxRecords,
         st.pages = list[t].pages, gt.units = gpu[t].units,
         "shared" \notin gl.wrong, "shared" \notin gt.wrong,
         ~ OpenResetMayFail => Records({l, t}, l, sl, gl) /\ Records({l, t}, t, st, gt),
         \/ /\ page' = page /\ pool' = pool
            /\ sl.pages = list[l].pages /\ gl.units = gpu[l].units
         \/ \E size \in RangeSizes : \E r \in Ranges(l, size) :
              /\ page' = PagesWith(r, size) /\ pool' = PoolWithout(r.page)
              /\ sl.pages = list[l].pages \cup {r.page}
              /\ gl.units = gpu[l].units \cup Units(r, size)
  PROVE  IInv'
  <1> DEFINE D == {l, t}
             new == Pair(l, t, sl, gl, st, gt)
  <1>1. /\ D \in SUBSET DOMAIN list /\ new \in [D -> PairSet]
        /\ new[l][1] = sl /\ new[l][2] = gl /\ new[t][1] = st /\ new[t][2] = gt
    BY DEF Pair, PairSet
  <1> HIDE DEF new
  <1>2. Become(new)
    BY DEF new
  <1>3. \A k \in D : /\ Len(new[k][1].preprocessed) <= MaxRecords
                     /\ "shared" \notin new[k][2].wrong
                     /\ ~ OpenResetMayFail => Records(D, k, new[k][1], new[k][2])
    BY <1>1
  <1>4. CASE page' = page /\ pool' = pool /\ sl.pages = list[l].pages /\ gl.units = gpu[l].units
    <2>1. PagesStay
      BY <1>4 DEF PagesStay
    <2>2. \A k \in D : /\ Len(new[k][1].preprocessed) <= MaxRecords
                       /\ new[k][1].pages = list[k].pages
                       /\ new[k][2].units \subseteq gpu[k].units /\ "shared" \notin new[k][2].wrong
      BY <1>1, <1>3, <1>4
    <2>3. QED
      BY <1>1, <1>2, <1>3, <2>1, <2>2, ManyLists
  <1>5. ASSUME NEW size \in RangeSizes, NEW r \in Ranges(l, size),
               page' = PagesWith(r, size), pool' = PoolWithout(r.page),
               sl.pages = list[l].pages \cup {r.page},
               gl.units = gpu[l].units \cup Units(r, size)
        PROVE  IInv'
    <2>1. /\ l \in D /\ new[l][1].pages = list[l].pages \cup {r.page}
          /\ new[l][2].units \subseteq gpu[l].units \cup Units(r, size)
          /\ \A k \in D \ {l} : /\ new[k][1].pages = list[k].pages
                                /\ new[k][2].units \subseteq gpu[k].units
      BY <1>1, <1>5
    <2> HIDE DEF D
    <2>2. QED
      BY <1>1, <1>2, <1>3, <1>5, <2>1, TakesRange
  <1>6. QED
    BY <1>4, <1>5

(* The state list, with the heap the recording list may lend it.           *)
Lent(l, t) ==
  IF list[t].heap = None /\ list[l].heap # None
    THEN <<WithHeap(list[t], list[l].heap), Binds(list[t], gpu[t], list[l].heap)>>
    ELSE <<list[t], gpu[t]>>

(* s and g are the state list t and its buffer but for a bound heap.       *)
StillState(t, s, g) ==
  /\ s \in ListSet /\ g \in BufferSet
  /\ s.preprocessed = list[t].preprocessed /\ s.pages = list[t].pages
  /\ s.isRecording = TRUE /\ s.ended = list[t].ended /\ s.error = FALSE
  /\ g.units = gpu[t].units /\ g.state = gpu[t].state
  /\ g.executed = gpu[t].executed /\ g.wrong = gpu[t].wrong
  /\ ~ OpenResetMayFail => Agree(t, s, g)

(* Likewise. *)
LEMMA LentSays ==
  ASSUME IInv, NEW l, NEW t, Recording(l), Recording(t)
  PROVE  StillState(t, Lent(l, t)[1], Lent(l, t)[2])
  <1> DEFINE s == Lent(l, t)[1]
             g == Lent(l, t)[2]
  <1>1. /\ list[t] \in ListSet /\ gpu[t] \in BufferSet
        /\ list[t].isRecording = TRUE /\ list[t].error = FALSE
        /\ ~ OpenResetMayFail => Agree(t, list[t], gpu[t])
    BY RecordingIs
  <1>2. CASE list[t].heap = None /\ list[l].heap # None
    <2>1. list[l].heap \in Heaps
      BY <1>2, RecordingIs DEF ListSet
    <2>2. PICK h \in Heaps : h = list[l].heap
      BY <2>1
    <2>3. s = WithHeap(list[t], h) /\ g = Binds(list[t], gpu[t], h)
      BY <1>2, <2>2 DEF Lent
    <2>4. /\ WithHeap(list[t], h) \in ListSet /\ Binds(list[t], gpu[t], h) \in BufferSet
          /\ ~ OpenResetMayFail => Agree(t, WithHeap(list[t], h), Binds(list[t], gpu[t], h))
      BY <1>1, HeapBinds
    <2>5. /\ WithHeap(list[t], h).preprocessed = list[t].preprocessed
          /\ WithHeap(list[t], h).pages = list[t].pages
          /\ WithHeap(list[t], h).isRecording = TRUE
          /\ WithHeap(list[t], h).ended = list[t].ended
          /\ WithHeap(list[t], h).error = FALSE
      BY <1>1 DEF WithHeap, ListSet
    <2>6. /\ Binds(list[t], gpu[t], h).units = gpu[t].units
          /\ Binds(list[t], gpu[t], h).state = gpu[t].state
          /\ Binds(list[t], gpu[t], h).executed = gpu[t].executed
          /\ Binds(list[t], gpu[t], h).wrong = gpu[t].wrong
      BY <1>1 DEF Binds, BufferSet
    <2>7. QED
      BY <2>3, <2>4, <2>5, <2>6 DEF StillState
  <1>3. CASE ~ (list[t].heap = None /\ list[l].heap # None)
    <2>1. s = list[t] /\ g = gpu[t]
      BY <1>3 DEF Lent
    <2>2. QED
      BY <1>1, <2>1 DEF StillState
  <1>4. QED
    BY <1>2, <1>3

(* Push data marks only. *)
LEMMA MarksTyped ==
  ASSUME NEW s \in ListSet, NEW d \in BOOLEAN, NEW b \in BOOLEAN
  PROVE  [s EXCEPT !.pushedDirty = d, !.spilledDirty = b] \in ListSet
  BY DEF ListSet

(* What the state list and its buffer may become.                          *)
Other(l, t, s, g) ==
  /\ s \in ListSet /\ g \in BufferSet /\ Len(s.preprocessed) <= MaxRecords
  /\ s.pages = list[t].pages /\ g.units = gpu[t].units /\ "shared" \notin g.wrong
  /\ ~ OpenResetMayFail => Records({l, t}, t, s, g)
Clean(s) == [s EXCEPT !.pushedDirty = FALSE, !.spilledDirty = FALSE]
Read(t, s, g) == Wrong(Pushed(s, g), "push", ~ Right(t, s, Pushed(s, g)))

(* What becomes of the state list keeps it fine.                           *)
LEMMA LentFine ==
  ASSUME IInv, NEW l, NEW t, Recording(l), Recording(t), MayRead(t),
         NEW s, NEW g, s = Lent(l, t)[1], g = Lent(l, t)[2]
  PROVE  /\ Other(l, t, s, g)
         /\ Other(l, t, Imaged(s), Whole(s, g, l))
         /\ ~ bufferModel => Other(l, t, Clean(s), Read(t, s, g))
  <1> DEFINE D == {l, t}
             clean == Clean(s)
             h == Pushed(s, g)
             read == Read(t, s, g)
             I == Imaged(s)
             W == Whole(s, g, l)
  <1>1. /\ s \in ListSet /\ g \in BufferSet
        /\ s.preprocessed = list[t].preprocessed /\ s.pages = list[t].pages
        /\ s.isRecording = TRUE /\ s.ended = list[t].ended /\ s.error = FALSE
        /\ g.units = gpu[t].units /\ g.state = gpu[t].state
        /\ g.executed = gpu[t].executed /\ g.wrong = gpu[t].wrong
        /\ ~ OpenResetMayFail => Agree(t, s, g)
    <2>1. StillState(t, Lent(l, t)[1], Lent(l, t)[2])
      BY LentSays
    <2>2. QED
      BY <2>1 DEF StillState
  <1>2. /\ ~ OpenResetMayFail => gpu[t].wrong = {}
        /\ Typed /\ l \in Lists
    BY RecordingIs DEF IInv
  <1>3. ~ OpenResetMayFail => Records(D, t, s, g)
    BY <1>1, <1>2, StillFine
  <1>4. /\ I \in ListSet /\ W \in BufferSet
        /\ I.preprocessed = s.preprocessed /\ I.pages = s.pages
        /\ W.units = g.units /\ W.wrong = g.wrong
        /\ ~ OpenResetMayFail => Records(D, t, I, W)
    <2>1. PICK b \in BOOLEAN : b = Spills(s.layout)
      BY <1>2, Cells
    <2>2. I = [s EXCEPT !.pushedDirty = FALSE, !.spilledDirty = b]
      BY <2>1 DEF Imaged
    <2>3. PICK P \in SUBSET (1 .. 3), o \in Lists \cup {None} :
            P = PushedOf(s.layout) /\ o = IF Spills(s.layout) THEN l ELSE None
      BY <1>2, Cells
    <2>4. W = [g EXCEPT !.push = P, !.spill = o]
      BY <2>3 DEF Whole
    <2> HIDE DEF I, W
    <2>5. /\ I \in ListSet
          /\ I.preprocessed = s.preprocessed /\ I.pages = s.pages
          /\ I.isRecording = TRUE /\ I.ended = s.ended /\ I.error = FALSE
          /\ I.passActive = s.passActive /\ I.continues = s.continues /\ I.emitted = s.emitted
          /\ I.barrierPending = s.barrierPending /\ I.layout = s.layout /\ I.image = s.image
          /\ I.spilledDirty = b
      <3>1. s \in ListSet /\ s.isRecording = TRUE /\ s.error = FALSE
        BY <1>1
      <3>2. I \in ListSet
        BY <2>2, <3>1, MarksTyped
      <3>3. QED
        BY <2>2, <3>1, <3>2 DEF ListSet
    <2>6. /\ W \in BufferSet /\ W.units = g.units /\ W.wrong = g.wrong /\ W.state = g.state
          /\ W.executed = g.executed /\ W.rendering = g.rendering /\ W.heap = g.heap
          /\ W.unflushed = g.unflushed /\ W.push = P
      BY <1>1, <2>4 DEF BufferSet
    <2>7. ASSUME ~ OpenResetMayFail PROVE Records(D, t, I, W)
      <3>1. Known(t, I, W)
        BY <2>1, <2>3, <2>5, <2>6 DEF Known
      <3>2. Agree(t, I, W)
        BY <1>1, <2>5, <2>6, <2>7, <3>1 DEF Agree
      <3>3. QED
        BY <1>1, <1>2, <2>5, <2>6, <2>7, <3>2, StillFine
    <2>8. QED
      BY <2>5, <2>6, <2>7
  <1>5. ASSUME ~ bufferModel
        PROVE  /\ clean \in ListSet /\ read \in BufferSet
               /\ clean.preprocessed = s.preprocessed /\ clean.pages = s.pages
               /\ read.units = g.units /\ read.wrong \subseteq g.wrong \cup {"push"}
               /\ ~ OpenResetMayFail => Records(D, t, clean, read)
    <2>1. /\ clean \in ListSet
          /\ clean.preprocessed = s.preprocessed /\ clean.pages = s.pages
          /\ clean.isRecording = TRUE /\ clean.ended = s.ended /\ clean.error = FALSE
          /\ clean.passActive = s.passActive /\ clean.continues = s.continues
          /\ clean.emitted = s.emitted /\ clean.barrierPending = s.barrierPending
          /\ clean.layout = s.layout /\ clean.image = s.image
      BY <1>1 DEF ListSet, Clean
    <2>2. /\ h \in BufferSet /\ SameBuffer(h, g)
          /\ h.push = IF s.pushedDirty THEN g.push \cup PushedOf(s.layout) ELSE g.push
      BY <1>1, <1>2, PushedSays
    <2>5. read = Wrong(h, "push", ~ Right(t, s, h))
      BY DEF Read
    <2> HIDE DEF clean, h, read
    <2>3. /\ read \in BufferSet /\ read.wrong \subseteq h.wrong \cup {"push"}
          /\ read.units = h.units /\ (Right(t, s, h) => read = h)
      BY <2>2, <2>5 DEF Wrong, BufferSet
    <2>4. ASSUME ~ OpenResetMayFail PROVE Records(D, t, clean, read)
      <3>1. ~ Spills(s.layout)
        BY <1>5 DEF Spills
      <3>2. Known(t, s, g) /\ g.executed = {}
        BY <1>1, <1>5, <2>4 DEF Agree, MayRead
      <3>3. PushedOf(s.layout) \cap s.image \subseteq h.push
        BY <2>2, <3>2 DEF Known
      <3>4. Right(t, s, h)
        BY <3>1, <3>3 DEF Right
      <3>5. read = h
        BY <2>3, <3>4
      <3>6. Known(t, clean, h)
        BY <2>1, <3>1, <3>3 DEF Known
      <3>7. Agree(t, clean, h)
        BY <1>1, <2>1, <2>2, <2>4, <3>6 DEF Agree, SameBuffer
      <3>8. /\ h.state = gpu[t].state /\ h.executed = gpu[t].executed /\ h.wrong = {}
        BY <1>1, <1>2, <2>2, <2>4 DEF SameBuffer
      <3>9. QED
        BY <1>1, <2>1, <2>2, <2>4, <3>5, <3>7, <3>8, StillFine
    <2>6. QED
      BY <2>1, <2>2, <2>3, <2>4 DEF SameBuffer
  <1>6. /\ Len(list[t].preprocessed) <= MaxRecords
        /\ "shared" \notin gpu[t].wrong
    BY RecordingIs
  <1>7. QED
    BY <1>1, <1>3, <1>4, <1>5, <1>6 DEF Other

(* The recording list with a range for it, and its buffer.                 *)
Taken(l, r) == [list[l] EXCEPT !.pages = @ \cup {r.page}]
Mine(l, size, r) ==
  Wrong([gpu[l] EXCEPT !.units = @ \cup Units(r, size)], "shared", Units(r, size) \cap Used # {})
Waits(l, r, recorded) ==
  [Taken(l, r) EXCEPT !.barrierPending = TRUE, !.preprocessed = Append(@, recorded)]
Unseen(l, size, r) == [Mine(l, size, r) EXCEPT !.unflushed = TRUE]
Taker(l, t, size, r, s, g) ==
  /\ s \in ListSet /\ g \in BufferSet /\ Len(s.preprocessed) <= MaxRecords
  /\ s.pages = list[l].pages \cup {r.page} /\ g.units = gpu[l].units \cup Units(r, size)
  /\ "shared" \notin g.wrong
  /\ ~ OpenResetMayFail => Records({l, t}, l, s, g)

(* It waits for a barrier, outside any pass; or it fails.                  *)
LEMMA WaitingFine ==
  ASSUME IInv, NEW l, NEW t, Recording(l), ~ list[l].passActive,
         Len(list[l].preprocessed) < MaxRecords,
         NEW size \in RangeSizes, NEW r \in Ranges(l, size), NEW recorded \in BOOLEAN
  PROVE  /\ Taker(l, t, size, r, Failed(Taken(l, r)), Mine(l, size, r))
         /\ Taker(l, t, size, r, Waits(l, r, recorded), Unseen(l, size, r))
  <1> DEFINE D == {l, t}
             taken == Taken(l, r)
             mine == Mine(l, size, r)
             waiting == Waits(l, r, recorded)
             unseen == Unseen(l, size, r)
             failed == Failed(taken)
  <1>1. /\ l \in DOMAIN list /\ list[l] \in ListSet /\ gpu[l] \in BufferSet
        /\ Len(list[l].preprocessed) <= MaxRecords
        /\ list[l].isRecording = TRUE /\ Typed /\ PagesInv
        /\ ~ OpenResetMayFail => Agree(l, list[l], gpu[l]) /\ gpu[l].wrong = {}
    BY RecordingIs DEF IInv
  <1>2. /\ r.page \in Pages /\ Units(r, size) \in SUBSET (Pages \X Nat)
        /\ Units(r, size) \cap Used = {}
    BY <1>1, RangeFresh
  <1>3. PICK pages \in SUBSET Pages, units \in SUBSET (Pages \X Nat), q \in Seq(BOOLEAN) :
          /\ pages = list[l].pages \cup {r.page} /\ units = gpu[l].units \cup Units(r, size)
          /\ q = Append(list[l].preprocessed, recorded) /\ Len(q) <= MaxRecords
    <2>1. list[l].preprocessed \in Seq(BOOLEAN)
      BY <1>1 DEF ListSet
    <2>2. Append(list[l].preprocessed, recorded) \in Seq(BOOLEAN)
      BY <2>1, AppendProperties
    <2>3. Len(Append(list[l].preprocessed, recorded)) = Len(list[l].preprocessed) + 1
      BY <2>1, AppendProperties
    <2>4. Len(Append(list[l].preprocessed, recorded)) <= MaxRecords
      BY <2>1, <2>3, CommandListAssumption
    <2>5. list[l].pages \cup {r.page} \in SUBSET Pages /\ gpu[l].units \cup Units(r, size) \in SUBSET (Pages \X Nat)
      BY <1>1, <1>2 DEF ListSet, BufferSet
    <2>6. QED
      BY <2>2, <2>4, <2>5
  <1>4. taken = [list[l] EXCEPT !.pages = pages]
    BY <1>3 DEF Taken
  <1>5. mine = [gpu[l] EXCEPT !.units = units]
    BY <1>2, <1>3 DEF Wrong, Mine
  <1>6. failed = [list[l] EXCEPT !.pages = pages, !.error = TRUE]
    BY <1>4 DEF Failed
  <1>7. waiting = [list[l] EXCEPT !.pages = pages, !.barrierPending = TRUE, !.preprocessed = q]
    <2>1. taken.preprocessed = list[l].preprocessed
      BY <1>1, <1>4 DEF ListSet
    <2>2. QED
      BY <1>1, <1>3, <1>4, <2>1 DEF ListSet, Waits
  <1>8. unseen = [gpu[l] EXCEPT !.units = units, !.unflushed = TRUE]
    BY <1>5 DEF Unseen
  <1> HIDE DEF mine, waiting, unseen, failed
  <1>9. /\ failed \in ListSet /\ failed.preprocessed = list[l].preprocessed /\ failed.pages = pages
        /\ failed.isRecording = TRUE /\ failed.ended = list[l].ended /\ failed.error = TRUE
    BY <1>1, <1>6 DEF ListSet
  <1>10. /\ mine \in BufferSet /\ mine.units = units /\ mine.wrong = gpu[l].wrong
         /\ mine.state = gpu[l].state /\ mine.executed = gpu[l].executed
    BY <1>1, <1>5 DEF BufferSet
  <1>11. /\ waiting \in ListSet /\ waiting.preprocessed = q /\ waiting.pages = pages
         /\ waiting.isRecording = TRUE /\ waiting.ended = list[l].ended
         /\ waiting.barrierPending = TRUE /\ waiting.passActive = list[l].passActive
         /\ waiting.continues = list[l].continues /\ waiting.emitted = list[l].emitted
         /\ waiting.layout = list[l].layout /\ waiting.image = list[l].image
         /\ waiting.pushedDirty = list[l].pushedDirty /\ waiting.spilledDirty = list[l].spilledDirty
    BY <1>1, <1>7 DEF ListSet
  <1>12. /\ unseen \in BufferSet /\ unseen.units = units /\ unseen.wrong = gpu[l].wrong
         /\ unseen.state = gpu[l].state /\ unseen.executed = gpu[l].executed
         /\ unseen.rendering = gpu[l].rendering /\ unseen.heap = gpu[l].heap
         /\ unseen.push = gpu[l].push /\ unseen.spill = gpu[l].spill
    BY <1>1, <1>8 DEF BufferSet
  <1>13. ~ OpenResetMayFail => Records(D, l, failed, mine)
    BY <1>1, <1>9, <1>10, StillFine
  <1>14. ASSUME ~ OpenResetMayFail PROVE Records(D, l, waiting, unseen)
    <2>1. Agree(l, waiting, unseen)
      BY <1>1, <1>11, <1>12, <1>14 DEF Agree, Known
    <2>2. QED
      BY <1>1, <1>11, <1>12, <1>14, <2>1, StillFine
  <1>15. "shared" \notin gpu[l].wrong
    BY RecordingIs
  <1>16. /\ Taker(l, t, size, r, failed, mine)
         /\ Taker(l, t, size, r, waiting, unseen)
    BY <1>1, <1>3, <1>9, <1>10, <1>11, <1>12, <1>13, <1>14, <1>15 DEF Taker
  <1>17. QED
    BY <1>16 DEF failed, mine, waiting, unseen

(* A preprocess, in the terms above.                                       *)
LEMMA PreprocessIndirectIs ==
  ASSUME NEW l, NEW t, PreprocessIndirect(l, t),
         Recording(l), Recording(t), ~ list[l].passActive,
         NEW s, NEW g, s = Lent(l, t)[1], g = Lent(l, t)[2]
  PROVE  \/ /\ Become(Pair(l, t, Failed(list[l]), gpu[l], s, g))
            /\ UNCHANGED <<page, pool>>
         \/ \E size \in RangeSizes : \E r \in Ranges(l, size) :
              /\ page' = PagesWith(r, size) /\ pool' = PoolWithout(r.page)
              /\ \/ Become(Pair(l, t, Failed(Taken(l, r)), Mine(l, size, r), s, g))
                 \/ \E recorded \in BOOLEAN :
                      \/ Become(Pair(l, t, Waits(l, r, recorded), Unseen(l, size, r),
                                     Imaged(s), Whole(s, g, l)))
                      \/ Become(Pair(l, t, Waits(l, r, recorded), Unseen(l, size, r), s, g))
                      \/ /\ ~ bufferModel
                         /\ Become(Pair(l, t, Waits(l, r, recorded), Unseen(l, size, r),
                                        Clean(s), Read(t, s, g)))
  <1> DEFINE takesHeap == list[t].heap = None /\ list[l].heap # None
             si == IF takesHeap THEN WithHeap(list[t], list[l].heap) ELSE list[t]
             gi == IF takesHeap THEN Binds(list[t], gpu[t], list[l].heap) ELSE gpu[t]
  <1>1. s = si /\ g = gi
    BY DEF Lent
  <1> HIDE DEF si, gi
  <1>2. CASE \A size \in RangeSizes : Ranges(l, size) = {}
    <2>1. Become(Pair(l, t, Failed(list[l]), gpu[l], si, gi)) /\ UNCHANGED <<page, pool>>
      BY <1>2 DEF PreprocessIndirect, Pair, si, gi
    <2>2. QED
      BY <1>1, <2>1
  <1>3. CASE ~ \A size \in RangeSizes : Ranges(l, size) = {}
    <2>1. PICK size \in RangeSizes, scratch \in BOOLEAN : \E r \in Ranges(l, size) :
            LET recorded == bufferModel /\ si.layout # None IN
            /\ page' = PagesWith(r, size) /\ pool' = PoolWithout(r.page)
            /\ CASE recorded /\ Spills(si.layout) /\ ~ scratch ->
                      Become(Pair(l, t, Failed(Taken(l, r)), Mine(l, size, r), si, gi))
                 [] recorded /\ (scratch \/ ~ Spills(si.layout)) ->
                      Become(Pair(l, t, Waits(l, r, recorded), Unseen(l, size, r),
                                  Imaged(si), Whole(si, gi, l)))
                 [] ~ recorded /\ bufferModel ->
                      Become(Pair(l, t, Waits(l, r, recorded), Unseen(l, size, r), si, gi))
                 [] OTHER -> Become(Pair(l, t, Waits(l, r, recorded), Unseen(l, size, r),
                                         Clean(si), Read(t, si, gi)))
      BY <1>3 DEF PreprocessIndirect, Pair, si, gi, Taken, Mine, Waits, Unseen, Clean, Read
    <2> DEFINE recorded == bufferModel /\ s.layout # None
    <2>2. PICK r \in Ranges(l, size) :
            /\ page' = PagesWith(r, size) /\ pool' = PoolWithout(r.page)
            /\ CASE recorded /\ Spills(s.layout) /\ ~ scratch ->
                      Become(Pair(l, t, Failed(Taken(l, r)), Mine(l, size, r), s, g))
                 [] recorded /\ (scratch \/ ~ Spills(s.layout)) ->
                      Become(Pair(l, t, Waits(l, r, recorded), Unseen(l, size, r),
                                  Imaged(s), Whole(s, g, l)))
                 [] ~ recorded /\ bufferModel ->
                      Become(Pair(l, t, Waits(l, r, recorded), Unseen(l, size, r), s, g))
                 [] OTHER -> Become(Pair(l, t, Waits(l, r, recorded), Unseen(l, size, r),
                                         Clean(s), Read(t, s, g)))
      BY <1>1, <2>1
    <2>3. recorded \in BOOLEAN
      OBVIOUS
    <2>4. CASE recorded /\ Spills(s.layout) /\ ~ scratch
      BY <2>2, <2>4
    <2>5. CASE recorded /\ (scratch \/ ~ Spills(s.layout))
      BY <2>2, <2>3, <2>5
    <2>6. CASE ~ recorded /\ bufferModel
      BY <2>2, <2>3, <2>6
    <2>7. CASE ~ bufferModel
      BY <2>2, <2>3, <2>7
    <2>8. QED
      BY <2>4, <2>5, <2>6, <2>7
  <1>4. QED
    BY <1>2, <1>3

(* cl_preprocessIndirect *)
LEMMA PreprocessIndirectKeeps ==
  ASSUME IInv, NEW l, NEW t, PreprocessIndirect(l, t)
  PROVE  IInv'
  <1>1. /\ l \in DOMAIN list /\ t \in DOMAIN list /\ l # t /\ MayRead(t)
        /\ bufferModel' = bufferModel /\ Len(list[l].preprocessed) < MaxRecords
    BY DEF PreprocessIndirect
  <1>2. CASE ~ (Recording(l) /\ Recording(t) /\ ~ list[l].passActive)
    <2>1. Fails(l) /\ UNCHANGED <<page, pool>>
      BY <1>2 DEF PreprocessIndirect
    <2>2. QED
      BY <1>1, <2>1, FailsKeeps DEF PagesStay
  <1>3. CASE Recording(l) /\ Recording(t) /\ ~ list[l].passActive
    <2>1. PICK s, g : s = Lent(l, t)[1] /\ g = Lent(l, t)[2]
      OBVIOUS
    <2>2. /\ Other(l, t, s, g)
          /\ Other(l, t, Imaged(s), Whole(s, g, l))
          /\ ~ bufferModel => Other(l, t, Clean(s), Read(t, s, g))
      BY <1>1, <1>3, <2>1, LentFine
    <2>3. CASE /\ Become(Pair(l, t, Failed(list[l]), gpu[l], s, g))
               /\ UNCHANGED <<page, pool>>
      <3>1. /\ list[l] \in ListSet /\ gpu[l] \in BufferSet /\ list[l].isRecording = TRUE
            /\ Len(list[l].preprocessed) <= MaxRecords /\ "shared" \notin gpu[l].wrong
            /\ ~ OpenResetMayFail => gpu[l].wrong = {}
        BY <1>3, RecordingIs
      <3>2. /\ Failed(list[l]) \in ListSet
            /\ Failed(list[l]).preprocessed = list[l].preprocessed
            /\ Failed(list[l]).pages = list[l].pages
            /\ Failed(list[l]).isRecording = TRUE /\ Failed(list[l]).error = TRUE
            /\ Failed(list[l]).ended = list[l].ended
        BY <3>1 DEF Failed, ListSet
      <3>3. ~ OpenResetMayFail => Records({l, t}, l, Failed(list[l]), gpu[l])
        BY <1>3, <3>1, <3>2, StillFine
      <3>4. QED
        BY <1>1, <2>2, <2>3, <3>1, <3>2, <3>3, TwoLists DEF Other
    <2>4. ASSUME NEW size \in RangeSizes, NEW r \in Ranges(l, size),
                 page' = PagesWith(r, size), pool' = PoolWithout(r.page),
                 NEW sl, NEW gl, NEW st, NEW gt,
                 Taker(l, t, size, r, sl, gl), Other(l, t, st, gt),
                 Become(Pair(l, t, sl, gl, st, gt))
          PROVE  IInv'
      BY <1>1, <2>4, TwoLists DEF Taker, Other
    <2>5. ASSUME NEW size \in RangeSizes, NEW r \in Ranges(l, size), NEW recorded \in BOOLEAN
          PROVE  /\ Taker(l, t, size, r, Failed(Taken(l, r)), Mine(l, size, r))
                 /\ Taker(l, t, size, r, Waits(l, r, recorded), Unseen(l, size, r))
      BY <1>1, <1>3, WaitingFine
    <2>6. CASE \E size \in RangeSizes : \E r \in Ranges(l, size) :
              /\ page' = PagesWith(r, size) /\ pool' = PoolWithout(r.page)
              /\ \/ Become(Pair(l, t, Failed(Taken(l, r)), Mine(l, size, r), s, g))
                 \/ \E recorded \in BOOLEAN :
                      \/ Become(Pair(l, t, Waits(l, r, recorded), Unseen(l, size, r),
                                     Imaged(s), Whole(s, g, l)))
                      \/ Become(Pair(l, t, Waits(l, r, recorded), Unseen(l, size, r), s, g))
                      \/ /\ ~ bufferModel
                         /\ Become(Pair(l, t, Waits(l, r, recorded), Unseen(l, size, r),
                                        Clean(s), Read(t, s, g)))
      <3>1. PICK size \in RangeSizes : \E r \in Ranges(l, size) :
              /\ page' = PagesWith(r, size) /\ pool' = PoolWithout(r.page)
              /\ \/ Become(Pair(l, t, Failed(Taken(l, r)), Mine(l, size, r), s, g))
                 \/ \E recorded \in BOOLEAN :
                      \/ Become(Pair(l, t, Waits(l, r, recorded), Unseen(l, size, r),
                                     Imaged(s), Whole(s, g, l)))
                      \/ Become(Pair(l, t, Waits(l, r, recorded), Unseen(l, size, r), s, g))
                      \/ /\ ~ bufferModel
                         /\ Become(Pair(l, t, Waits(l, r, recorded), Unseen(l, size, r),
                                        Clean(s), Read(t, s, g)))
        BY <2>6
      <3>2. PICK r \in Ranges(l, size) :
              /\ page' = PagesWith(r, size) /\ pool' = PoolWithout(r.page)
              /\ \/ Become(Pair(l, t, Failed(Taken(l, r)), Mine(l, size, r), s, g))
                 \/ \E recorded \in BOOLEAN :
                      \/ Become(Pair(l, t, Waits(l, r, recorded), Unseen(l, size, r),
                                     Imaged(s), Whole(s, g, l)))
                      \/ Become(Pair(l, t, Waits(l, r, recorded), Unseen(l, size, r), s, g))
                      \/ /\ ~ bufferModel
                         /\ Become(Pair(l, t, Waits(l, r, recorded), Unseen(l, size, r),
                                        Clean(s), Read(t, s, g)))
        BY <3>1
      <3>3. CASE Become(Pair(l, t, Failed(Taken(l, r)), Mine(l, size, r), s, g))
        BY <2>2, <2>4, <2>5, <3>2, <3>3
      <3>4. ASSUME NEW recorded \in BOOLEAN,
                   Become(Pair(l, t, Waits(l, r, recorded), Unseen(l, size, r),
                               Imaged(s), Whole(s, g, l)))
            PROVE  IInv'
        BY <2>2, <2>4, <2>5, <3>2, <3>4
      <3>5. ASSUME NEW recorded \in BOOLEAN,
                   Become(Pair(l, t, Waits(l, r, recorded), Unseen(l, size, r), s, g))
            PROVE  IInv'
        BY <2>2, <2>4, <2>5, <3>2, <3>5
      <3>6. ASSUME NEW recorded \in BOOLEAN, ~ bufferModel,
                   Become(Pair(l, t, Waits(l, r, recorded), Unseen(l, size, r),
                               Clean(s), Read(t, s, g)))
            PROVE  IInv'
        BY <2>2, <2>4, <2>5, <3>2, <3>6
      <3>7. QED
        BY <3>2, <3>3, <3>4, <3>5, <3>6
    <2>7. QED
      BY <1>3, <2>1, <2>3, <2>6, PreprocessIndirectIs
  <1>4. QED
    BY <1>2, <1>3
-----------------------------------------------------------------------------
(* Nothing exists at first.                                                *)
LEMMA Starts ==
  ASSUME Init
  PROVE  IInv
  <1>1. DOMAIN list = {} /\ DOMAIN gpu = {} /\ DOMAIN page = {} /\ DOMAIN pool = {}
    BY DEF Init
  <1>2. Typed
    <2>1. /\ list \in [DOMAIN list -> ListSet] /\ gpu \in [DOMAIN list -> BufferSet]
          /\ page \in [DOMAIN page -> PageSet] /\ pool \in [DOMAIN pool -> Nat]
      BY <1>1 DEF Init
    <2>2. QED
      BY <1>1, <2>1 DEF Init, Typed
  <1>3. PagesInv
    BY <1>1 DEF PagesInv
  <1>4. RecordsFine
    BY <1>1 DEF RecordsFine, Executions
  <1>5. QED
    BY <1>2, <1>3, <1>4 DEF IInv

(* Every step keeps the invariant.                                         *)
LEMMA Steps ==
  ASSUME IInv, [Next]_vars
  PROVE  IInv'
  <1>1. CASE UNCHANGED vars
    BY <1>1, UnchangedKeeps
  <1>2. ASSUME NEW l \in Lists,
               \/ CreateCommandList(l) \/ BeginPass(l) \/ EndPass(l) \/ OutsidePass(l)
               \/ Copy(l) \/ CopyLate(l)
        PROVE  IInv'
    BY <1>2, CreateCommandListKeeps, BeginPassKeeps, EndPassKeeps, OutsidePassKeeps, CopyKeeps,
       CopyLateKeeps
  <1>3. ASSUME NEW l \in Lists,
               \/ BindLayout(l) \/ PushConstants(l) \/ Draw(l) \/ Dispatch(l)
               \/ SetDescriptorHeaps(l) \/ ExecuteIndirect(l) \/ ExecutePreprocessed(l)
        PROVE  IInv'
    BY <1>3, BindLayoutKeeps, PushConstantsKeeps, DrawKeeps, SetDescriptorHeapsKeeps,
       ExecuteIndirectKeeps, ExecutePreprocessedKeeps
  <1>4. ASSUME NEW l \in Lists, NEW k \in Lists, PreprocessIndirect(l, k) \/ ExecuteCommands(l, k)
        PROVE  IInv'
    BY <1>4, PreprocessIndirectKeeps, ExecuteCommandsKeeps
  <1>5. ASSUME NEW l \in Lists,
               BeginSecondary(l) \/ End(l) \/ Reset(l) \/ ResetAllocator(l) \/ Destroy(l)
        PROVE  IInv'
    BY <1>5, BeginSecondaryKeeps, EndKeeps, ResetKeeps, ResetAllocatorKeeps, DestroyKeeps
  <1>6. QED
    BY <1>1, <1>2, <1>3, <1>4, <1>5 DEF Next

(* The inductive invariant holds always.                                   *)
THEOREM Invariant == Spec => []IInv
  <1>1. Init => IInv
    BY Starts
  <1>2. IInv /\ [Next]_vars => IInv'
    BY Steps
  <1>3. QED
    BY <1>1, <1>2, PTL DEF Spec

(* Preprocess memory is never handed out twice: every page is one list's   *)
(* or the pool's, and what recorded commands use stays their list's        *)
(* (VkAllocateGeneratedCommandsPreprocessRange), whichever calls to Vulkan *)
(* fail.                                                                   *)
THEOREM RangesAlwaysUnique == Spec => []RangesUnique
  <1>1. IInv => RangesUnique
    <2>1. ASSUME PagesInv
          PROVE  (UNION {list[l].pages : l \in DOMAIN list}) \cup DOMAIN pool = DOMAIN page
      <3>1. \A p : p \in (UNION {list[l].pages : l \in DOMAIN list})
                    <=> \E l \in DOMAIN list : p \in list[l].pages
        OBVIOUS
      <3>2. \A p : p \in DOMAIN page
                    <=> p \in DOMAIN pool \/ p \in (UNION {list[l].pages : l \in DOMAIN list})
        BY <2>1, <3>1, Zenon DEF PagesInv
      <3>3. QED
        BY <3>2
    <2>2. QED
      BY <2>1 DEF IInv, PagesInv, RangesUnique
  <1>2. QED
    BY <1>1, Invariant, PTL

(* Push data a command reads is what was last given, unless its list       *)
(* failed (VkFlushPendingPushData), if no list is reset while it records   *)
(* and the reset fails half-way.                                           *)
THEOREM PushDataAlwaysCurrent ==
  ASSUME ~ OpenResetMayFail
  PROVE  Spec => []PushDataCurrent
  <1>1. IInv => PushDataCurrent
    BY DEF IInv, RecordsFine, Fine, PushDataCurrent
  <1>2. QED
    BY <1>1, Invariant, PTL

(* Likewise, a list knows whether its buffer is inside a rendering it      *)
(* began, nothing is recorded inside one that must be outside, and none is *)
(* left open (VkLeavePass, cl_endChecked).                                 *)
THEOREM RenderingAlwaysTracked ==
  ASSUME ~ OpenResetMayFail
  PROVE  Spec => []RenderingTracked
  <1>1. IInv => TypeOK
    <2>1. ASSUME IInv PROVE DOMAIN list \subseteq Lists /\ DOMAIN gpu = DOMAIN list
      BY <2>1 DEF IInv, Typed
    <2>2. ASSUME IInv, NEW l \in DOMAIN list
          PROVE  list[l] \in ListSet /\ gpu[l] \in BufferSet /\ Len(list[l].preprocessed) <= MaxRecords
      BY <2>2 DEF IInv, Typed
    <2>3. ASSUME IInv
          PROVE  DOMAIN page \subseteq Pages /\ \A p \in DOMAIN page : page[p].cursor \in 0 .. page[p].capacity
      <3>1. \A p \in DOMAIN page : page[p].cursor \in Nat /\ page[p].capacity \in Nat
        BY <2>3 DEF IInv, Typed, PageSet
      <3>2. QED
        BY <2>3, <3>1 DEF IInv, Typed, PagesInv
    <2>4. ASSUME IInv, NEW l \in DOMAIN list
          PROVE  LET s == list[l] g == gpu[l] IN
                 /\ s.kind \in {"primary", "secondary", "adopted"}
                 /\ {s.isRecording, s.error, s.passActive, s.continues, s.pushedDirty, s.spilledDirty,
                      s.barrierPending, s.ended} \subseteq BOOLEAN
                 /\ s.layout \in Layouts \cup {None} /\ {s.heap, s.emitted} \subseteq Heaps \cup {None}
                 /\ s.image \subseteq 1 .. 3
                 /\ g.state \in {"none", "initial", "recording", "executable", "invalid", "discarded"}
                 /\ g.push \subseteq 1 .. 3 /\ g.spill \in Lists \cup {None}
      BY <2>2, <2>4 DEF ListSet, BufferSet, States
    <2>5. QED
      BY <2>1, <2>2, <2>3, <2>4 DEF TypeOK
  <1>2. ASSUME IInv, NEW l \in DOMAIN list
        PROVE  /\ "rendering" \notin gpu[l].wrong
               /\ list[l].isRecording => (Open(l) <=> list[l].passActive /\ ~ list[l].continues)
               /\ gpu[l].state = "executable" => ~ Open(l)
    <2>1. Fine(l, list[l], gpu[l]) /\ list[l] \in ListSet
      BY <1>2 DEF IInv, RecordsFine, Typed
    <2>2. gpu[l].state = "executable" => ~ list[l].isRecording
      BY <2>1 DEF Fine, Stages
    <2>3. QED
      BY <2>1, <2>2 DEF Fine, Agree, Blank, Recorded, Open
  <1>3. IInv => RenderingTracked
    BY <1>1, <1>2 DEF RenderingTracked
  <1>4. QED
    BY <1>3, Invariant, PTL

(* Likewise, the heap a list takes for bound is bound, which dropping      *)
(* repeated binds relies on (emittedCbvSrvUavHeap).                        *)
THEOREM BindingsAlwaysHonest ==
  ASSUME ~ OpenResetMayFail
  PROVE  Spec => []BindingsHonest
  <1>1. IInv => BindingsHonest
    BY DEF IInv, RecordsFine, Fine, Agree, BindingsHonest
  <1>2. QED
    BY <1>1, Invariant, PTL

(* Likewise, what Submit accepts of a caller who looks at what End         *)
(* returned can be run, with the secondaries it executes: it was ended     *)
(* and its commands were recorded rightly.                                 *)
THEOREM SubmittedAlwaysSound ==
  ASSUME ~ OpenResetMayFail
  PROVE  Spec => []SubmittedSound
  <1>1. ASSUME IInv, NEW l \in DOMAIN list, Submittable(l), NEW k \in {l} \cup gpu[l].executed
        PROVE  Sound(k)
    <2>1. RecordsFine
      BY <1>1 DEF IInv
    <2>2. gpu[l].state = "executable"
      BY <1>1, <2>1 DEF RecordsFine, Fine, Stages, Submittable
    <2>3. k \in DOMAIN list /\ gpu[k].state = "executable"
      BY <1>1, <2>1, <2>2 DEF RecordsFine, Executions
    <2>4. QED
      BY <2>1, <2>3 DEF RecordsFine, Fine, Sound
  <1>2. IInv => SubmittedSound
    BY <1>1 DEF SubmittedSound
  <1>3. QED
    BY <1>2, Invariant, PTL
=============================================================================
