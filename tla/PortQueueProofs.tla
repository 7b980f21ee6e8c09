--------------------------- MODULE PortQueueProofs ---------------------------
(***************************************************************************)
(* Proofs about PortQueue for every capacity, every finite set of buffers, *)
(* producers and consumers, and every kind of pull.                        *)
(***************************************************************************)
EXTENDS PortQueue, FiniteSetTheorems, SequenceTheorems, TLAPS

-----------------------------------------------------------------------------
(* Arithmetic of the ring.                                                 *)

(* The queue has at least one slot (port.c:24-25).                         *)
LEMMA CapacityPositive == Capacity \in Nat \ {0}
  BY PortAssumption DEF Capacity

(* One subtraction undoes one turn round the ring.                         *)
LEMMA WrapValue ==
  ASSUME NEW i \in 0 .. 2 * Capacity - 1
  PROVE  Wrap(i) = IF i < Capacity THEN i ELSE i - Capacity
<1> DEFINE C == Capacity
<1>1. C \in Nat \ {0}
  BY CapacityPositive
<1> HIDE DEF C
<1>2. ASSUME NEW j \in 0 .. 2 * C - 1
      PROVE  j % C = IF j < C THEN j ELSE j - C
  <2>1. CASE j < C
    BY <1>1, <2>1
  <2>2. CASE ~(j < C)
    BY <1>1, <2>2
  <2>3. QED
    BY <2>1, <2>2
<1>3. QED
  BY <1>2 DEF Wrap, C

LEMMA WrapInSlots ==
  ASSUME NEW i \in 0 .. 2 * Capacity - 1
  PROVE  Wrap(i) \in Slots
  BY WrapValue, CapacityPositive DEF Slots

(* Which slots an arc covers, without the modulus.                         *)
LEMMA ArcMember ==
  ASSUME NEW h \in Slots, NEW n \in 0 .. Capacity, NEW i \in Slots
  PROVE  i \in Arc(h, n) <=> \/ h <= i /\ i < h + n
                             \/ i + Capacity < h + n
<1> USE CapacityPositive DEF Slots
<1>1. ASSUME h <= i, i < h + n
      PROVE  i \in Arc(h, n)
  <2>1. i - h \in 0 .. n - 1 /\ Wrap(h + (i - h)) = i
    BY <1>1, WrapValue
  <2>2. QED
    BY <2>1 DEF Arc
<1>2. ASSUME i + Capacity < h + n
      PROVE  i \in Arc(h, n)
  <2>1. i + Capacity - h \in 0 .. n - 1 /\ Wrap(h + (i + Capacity - h)) = i
    BY <1>2, WrapValue
  <2>2. QED
    BY <2>1 DEF Arc
<1>3. ASSUME NEW k \in 0 .. n - 1, i = Wrap(h + k)
      PROVE  \/ h <= i /\ i < h + n
             \/ i + Capacity < h + n
  BY <1>3, WrapValue
<1>4. QED
  BY <1>1, <1>2, <1>3 DEF Arc

LEMMA ArcInSlots ==
  ASSUME NEW h \in Slots, NEW n \in 0 .. Capacity
  PROVE  Arc(h, n) \subseteq Slots
  BY WrapInSlots, CapacityPositive DEF Arc, Slots

(* A push lengthens the arc at its end.                                    *)
LEMMA ArcExtend ==
  ASSUME NEW h \in Slots, NEW n \in 0 .. Capacity - 1
  PROVE  /\ Wrap(h + n) \in Slots
         /\ Wrap(h + n) \notin Arc(h, n)
         /\ Arc(h, n + 1) = Arc(h, n) \cup {Wrap(h + n)}
         /\ Wrap(Wrap(h + n) + 1) = Wrap(h + (n + 1))
         /\ Wrap(Wrap(h + n) + 1) \in Slots
<1> USE CapacityPositive
<1>1. /\ Wrap(h + n) \in Slots
      /\ Wrap(h + n) = IF h + n < Capacity THEN h + n ELSE h + n - Capacity
  BY WrapInSlots, WrapValue DEF Slots
<1>2. Wrap(h + n) \notin Arc(h, n)
  BY <1>1, ArcMember DEF Slots
<1>3. Arc(h, n) \subseteq Slots /\ Arc(h, n + 1) \subseteq Slots
  BY ArcInSlots
<1>4. ASSUME NEW i \in Slots
      PROVE  i \in Arc(h, n + 1) <=> i \in Arc(h, n) \/ i = Wrap(h + n)
  BY <1>1, ArcMember DEF Slots
<1>5. /\ Wrap(Wrap(h + n) + 1) = Wrap(h + (n + 1))
      /\ Wrap(Wrap(h + n) + 1) \in Slots
  BY <1>1, WrapValue DEF Slots
<1>6. QED
  BY <1>1, <1>2, <1>3, <1>4, <1>5

(* A pull shortens it at its start.                                        *)
LEMMA ArcShrink ==
  ASSUME NEW h \in Slots, NEW n \in 1 .. Capacity
  PROVE  /\ h \in Arc(h, n)
         /\ Wrap(h + 1) \in Slots
         /\ Arc(Wrap(h + 1), n - 1) = Arc(h, n) \ {h}
         /\ \A k \in 0 .. n - 1 : Wrap(Wrap(h + 1) + k) = Wrap(h + (k + 1))
<1> USE CapacityPositive
<1>1. /\ Wrap(h + 1) \in Slots
      /\ Wrap(h + 1) = IF h + 1 < Capacity THEN h + 1 ELSE h + 1 - Capacity
  BY WrapInSlots, WrapValue DEF Slots
<1>2. h \in Arc(h, n)
  BY ArcMember DEF Slots
<1>3. Arc(h, n) \subseteq Slots /\ Arc(Wrap(h + 1), n - 1) \subseteq Slots
  BY <1>1, ArcInSlots
<1>4. ASSUME NEW i \in Slots
      PROVE  i \in Arc(Wrap(h + 1), n - 1) <=> i \in Arc(h, n) /\ i # h
  BY <1>1, ArcMember DEF Slots
<1>5. ASSUME NEW k \in 0 .. n - 1
      PROVE  Wrap(Wrap(h + 1) + k) = Wrap(h + (k + 1))
  BY <1>1, WrapValue DEF Slots
<1>6. QED
  BY <1>1, <1>2, <1>3, <1>4, <1>5

-----------------------------------------------------------------------------
(* Holders.                                                                *)

LEMMA SlotsFinite == IsFiniteSet(Slots) /\ 0 \in Slots
  BY CapacityPositive, FS_Interval DEF Slots

(* Only finitely many slots and threads can hold a reference.              *)
LEMMA HoldersFinite ==
  ASSUME TypeOK, NEW b
  PROVE  /\ IsFiniteSet(SlotsOf(b)) /\ Cardinality(SlotsOf(b)) \in Nat
         /\ IsFiniteSet(OwnersOf(b)) /\ Cardinality(OwnersOf(b)) \in Nat
         /\ IsFiniteSet(GettersOf(b)) /\ Cardinality(GettersOf(b)) \in Nat
<1>1. Window \subseteq Slots
  BY ArcInSlots DEF TypeOK, Window
<1>2. SlotsOf(b) \in SUBSET Slots
  BY <1>1 DEF SlotsOf
<1>3. OwnersOf(b) \in SUBSET Producers
  BY DEF OwnersOf
<1>4. GettersOf(b) \in SUBSET Consumers
  BY DEF GettersOf
<1>5. /\ IsFiniteSet(SlotsOf(b))
      /\ IsFiniteSet(OwnersOf(b))
      /\ IsFiniteSet(GettersOf(b))
  BY <1>2, <1>3, <1>4, SlotsFinite, PortAssumption, FS_Subset
<1>6. QED
  BY <1>5, FS_CardinalityType

(* A buffer somebody holds is allocated, and a buffer that is not          *)
(* allocated is held by nobody.                                            *)
LEMMA HeldIsAllocated ==
  ASSUME TypeOK, RefsMatchHolders, NEW b \in Buffers
  PROVE  /\ refs[b] = 0 <=> /\ SlotsOf(b) = {}
                           /\ OwnersOf(b) = {}
                           /\ GettersOf(b) = {}
         /\ refs[b] = 0 => HolderCount(b) = 0
<1>1. refs[b] = HolderCount(b)
  BY DEF RefsMatchHolders
<1>2. /\ Cardinality(SlotsOf(b)) = 0 <=> SlotsOf(b) = {}
      /\ Cardinality(OwnersOf(b)) = 0 <=> OwnersOf(b) = {}
      /\ Cardinality(GettersOf(b)) = 0 <=> GettersOf(b) = {}
  BY HoldersFinite, FS_EmptySet
<1>3. QED
  BY <1>1, <1>2, HoldersFinite DEF HolderCount

-----------------------------------------------------------------------------
(* Initial states.                                                         *)

LEMMA InitIInv == Init => IInv
<1> SUFFICES ASSUME Init PROVE IInv
  OBVIOUS
<1> USE DEF Init
<1>1. TypeOK
  BY SlotsFinite, CapacityPositive, PortAssumption DEF TypeOK, Slots
<1>2. Window = {}
  BY DEF Window, Arc
<1>3. RingConsistent
  BY <1>2, WrapValue, CapacityPositive DEF RingConsistent, Slots
<1>4. PullState /\ ClosedIsQuiet
  BY DEF PullState, ClosedIsQuiet
<1>5. ASSUME NEW b \in Buffers
      PROVE  SlotsOf(b) = {} /\ OwnersOf(b) = {} /\ GettersOf(b) = {}
  BY <1>2, PortAssumption DEF SlotsOf, OwnersOf, GettersOf
<1>6. RefsMatchHolders
  BY <1>5, FS_EmptySet DEF RefsMatchHolders, HolderCount
<1>7. QED
  BY <1>1, <1>3, <1>4, <1>6 DEF IInv

-----------------------------------------------------------------------------
(* What the two steps that move the ring do to its window.                 *)

LEMMA PushWindow ==
  ASSUME TypeOK, RingConsistent, open, count < Capacity,
         NEW b \in Buffers, PushAt(b)
  PROVE  /\ items' \in [Slots -> Buffers \cup {NULL}]
         /\ head' \in Slots /\ tail' \in Slots /\ count' \in 0 .. Capacity
         /\ tail' = Wrap(head' + count')
         /\ tail \in Slots \ Window
         /\ Window' = Window \cup {tail}
         /\ Window \subseteq Slots
<1> USE CapacityPositive DEF TypeOK, PushAt
<1>1. /\ count \in 0 .. Capacity - 1 /\ count' = count + 1
      /\ head' = head /\ tail = Wrap(head + count)
  BY DEF RingConsistent
<1>2. /\ tail \notin Window /\ Window' = Window \cup {tail}
      /\ tail' = Wrap(head' + count') /\ tail' \in Slots
  BY <1>1, ArcExtend DEF Window
<1>3. Window \subseteq Slots
  BY ArcInSlots DEF Window
<1>4. QED
  BY <1>1, <1>2, <1>3

LEMMA TakeWindow ==
  ASSUME TypeOK, NEW c \in Consumers, TakeHead(c)
  PROVE  /\ items' \in [Slots -> Buffers \cup {NULL}]
         /\ head' \in Slots /\ tail' \in Slots /\ count' \in 0 .. Capacity
         /\ open /\ RingConsistent => tail' = Wrap(head' + count')
         /\ head \in Window
         /\ Window' = Window \ {head}
         /\ Window \subseteq Slots
<1> USE CapacityPositive DEF TypeOK, TakeHead
<1>1. /\ count \in 1 .. Capacity /\ count' = count - 1
      /\ head' = Wrap(head + 1) /\ tail' = tail
  OBVIOUS
<1>2. /\ head \in Window /\ Window' = Window \ {head} /\ head' \in Slots
  BY <1>1, ArcShrink DEF Window
<1>3. Wrap(Wrap(head + 1) + (count - 1)) = Wrap(head + ((count - 1) + 1))
  BY <1>1, ArcShrink
<1>4. open /\ RingConsistent => tail' = Wrap(head' + count')
  BY <1>1, <1>3 DEF RingConsistent
<1>5. Window \subseteq Slots
  BY ArcInSlots DEF Window
<1>6. items' \in [Slots -> Buffers \cup {NULL}]
  OBVIOUS
<1>7. QED
  BY <1>1, <1>2, <1>4, <1>5, <1>6

-----------------------------------------------------------------------------
(* Counting: one reference more or one fewer.  The sets of holders of the  *)
(* other buffers do not change.                                            *)

HoldersSame(b) ==
  /\ SlotsOf(b)' = SlotsOf(b)
  /\ OwnersOf(b)' = OwnersOf(b)
  /\ GettersOf(b)' = GettersOf(b)

LEMMA AddHolder ==
  ASSUME TypeOK, RefsMatchHolders, NEW b \in Buffers, Ref(b),
         HolderCount(b)' = HolderCount(b) + 1,
         \A o \in Buffers \ {b} : HoldersSame(o)
  PROVE  RefsMatchHolders' /\ refs' \in [Buffers -> Nat]
<1>1. refs' = [refs EXCEPT ![b] = @ + 1] /\ refs \in [Buffers -> Nat]
  BY DEF Ref, TypeOK
<1>2. refs'[b] = HolderCount(b)'
  BY <1>1 DEF RefsMatchHolders
<1>3. ASSUME NEW o \in Buffers \ {b} PROVE refs'[o] = HolderCount(o)'
  BY <1>1 DEF RefsMatchHolders, HolderCount, HoldersSame
<1>4. RefsMatchHolders'
  BY <1>2, <1>3 DEF RefsMatchHolders
<1>5. QED
  BY <1>1, <1>4

LEMMA RemoveHolder ==
  ASSUME TypeOK, RefsMatchHolders, NEW b \in Buffers, Unref(b),
         refs[b] # 0, HolderCount(b)' = HolderCount(b) - 1,
         \A o \in Buffers \ {b} : HoldersSame(o)
  PROVE  RefsMatchHolders' /\ refs' \in [Buffers -> Nat]
<1>1. refs' = [refs EXCEPT ![b] = @ - 1] /\ refs \in [Buffers -> Nat]
  BY DEF Unref, TypeOK
<1>2. refs'[b] = HolderCount(b)'
  BY <1>1 DEF RefsMatchHolders
<1>3. ASSUME NEW o \in Buffers \ {b} PROVE refs'[o] = HolderCount(o)'
  BY <1>1 DEF RefsMatchHolders, HolderCount, HoldersSame
<1>4. RefsMatchHolders'
  BY <1>2, <1>3 DEF RefsMatchHolders
<1>5. QED
  BY <1>1, <1>4

(* Steps that touch neither the ring nor a reference.                      *)
LEMMA QuietStep ==
  ASSUME IInv, UNCHANGED <<open, ring, refs, own, got>>,
         st' \in [Consumers ->
                    {"idle", "blocked", "woken", "expired", "holding"}],
         kind' \in [Consumers -> {"poll", "timed", "forever"}],
         PullState', ~open => Inside' = {}
  PROVE  IInv'
<1>1. TypeOK'
  BY DEF IInv, TypeOK, ring
<1>2. RingConsistent'
  BY DEF IInv, RingConsistent, ring, Window, Arc
<1>3. RefsMatchHolders'
  <2>1. \A b \in Buffers : HolderCount(b)' = HolderCount(b)
    BY DEF HolderCount, SlotsOf, OwnersOf, GettersOf, ring, Window, Arc
  <2>2. QED
    BY <2>1 DEF IInv, RefsMatchHolders
<1>4. ClosedIsQuiet'
  BY DEF IInv, ClosedIsQuiet, ring
<1>5. QED
  BY <1>1, <1>2, <1>3, <1>4 DEF IInv

-----------------------------------------------------------------------------
(* One lemma per action.                                                   *)

LEMMA AllocStep ==
  ASSUME IInv, NEW p \in Producers, Alloc(p)
  PROVE  IInv'
<1> PICK b \in Buffers : /\ refs[b] = 0
                         /\ own' = [own EXCEPT ![p] = b]
                         /\ refs' = [refs EXCEPT ![b] = 1]
  BY DEF Alloc
<1> USE PortAssumption
<1>0. TypeOK /\ own[p] = NULL /\ UNCHANGED <<open, ring, st, kind, got>>
  BY DEF IInv, Alloc
<1>1. /\ SlotsOf(b) = {} /\ OwnersOf(b) = {} /\ GettersOf(b) = {}
      /\ HolderCount(b) = 0
  BY HeldIsAllocated DEF IInv
<1>2. Window' = Window
  BY <1>0 DEF ring, Window, Arc
<1>3. HolderCount(b)' = HolderCount(b) + 1
  <2>1. OwnersOf(b)' = {p}
    BY <1>0, <1>1 DEF TypeOK, OwnersOf
  <2>2. SlotsOf(b)' = {} /\ GettersOf(b)' = {}
    BY <1>0, <1>1, <1>2 DEF SlotsOf, GettersOf, ring
  <2>3. Cardinality({p}) = 1 /\ Cardinality({}) = 0
    BY FS_EmptySet, FS_Singleton
  <2>4. HolderCount(b)' = 0 + 1 + 0
    BY <2>1, <2>2, <2>3 DEF HolderCount
  <2>5. QED
    BY <1>1, <2>4
<1>4. ASSUME NEW o \in Buffers \ {b} PROVE HoldersSame(o)
  <2>1. OwnersOf(o)' = OwnersOf(o)
    BY <1>0 DEF TypeOK, OwnersOf
  <2>2. SlotsOf(o)' = SlotsOf(o) /\ GettersOf(o)' = GettersOf(o)
    BY <1>0, <1>2 DEF SlotsOf, GettersOf, ring
  <2>3. QED
    BY <2>1, <2>2 DEF HoldersSame
<1>5. Ref(b)
  BY <1>0 DEF Ref, TypeOK
<1>6. RefsMatchHolders' /\ refs' \in [Buffers -> Nat]
  BY <1>0, <1>3, <1>4, <1>5, AddHolder DEF IInv
<1>7. TypeOK'
  BY <1>0, <1>6 DEF TypeOK, ring
<1>8. RingConsistent' /\ PullState' /\ ClosedIsQuiet'
  BY <1>0, <1>2 DEF IInv, RingConsistent, PullState, ClosedIsQuiet, ring,
       Inside, Sleeping, Woken, Expired
<1>9. QED
  BY <1>6, <1>7, <1>8 DEF IInv

LEMMA SignalTyped ==
  ASSUME TypeOK, SignalNotEmpty
  PROVE  /\ st' \in [Consumers ->
                       {"idle", "blocked", "woken", "expired", "holding"}]
         /\ \A c \in Consumers : \/ st'[c] = st[c]
                                 \/ st[c] = "blocked" /\ st'[c] = "woken"
  BY DEF SignalNotEmpty, TypeOK, Sleeping, Expired

LEMMA PushStep ==
  ASSUME IInv, NEW p \in Producers, Push(p)
  PROVE  IInv'
<1> USE PortAssumption
<1> PICK b \in Buffers : b = own[p]
  BY DEF IInv, Push, TypeOK
<1>0. /\ TypeOK /\ RingConsistent /\ RefsMatchHolders /\ open
      /\ count < Capacity /\ b \in Buffers /\ PushAt(b) /\ SignalNotEmpty
      /\ UNCHANGED <<open, own, kind, got>>
  BY DEF IInv, Push, TypeOK
<1>1. /\ items' \in [Slots -> Buffers \cup {NULL}]
      /\ head' \in Slots /\ tail' \in Slots /\ count' \in 0 .. Capacity
      /\ tail' = Wrap(head' + count')
      /\ tail \in Slots \ Window
      /\ Window' = Window \cup {tail}
      /\ Window \subseteq Slots
  BY <1>0, PushWindow
<1>2. items' = [items EXCEPT ![tail] = b] /\ Ref(b)
  BY <1>0 DEF PushAt
<1>3. HolderCount(b)' = HolderCount(b) + 1
  <2>1. SlotsOf(b)' = SlotsOf(b) \cup {tail} /\ tail \notin SlotsOf(b)
    BY <1>0, <1>1, <1>2 DEF TypeOK, SlotsOf
  <2>2. OwnersOf(b)' = OwnersOf(b) /\ GettersOf(b)' = GettersOf(b)
    BY <1>0 DEF OwnersOf, GettersOf
  <2>3. Cardinality(SlotsOf(b) \cup {tail}) = Cardinality(SlotsOf(b)) + 1
    BY <1>0, <2>1, HoldersFinite, FS_AddElement
  <2>4. QED
    BY <1>0, <2>1, <2>2, <2>3, HoldersFinite DEF HolderCount
<1>4. ASSUME NEW o \in Buffers \ {b} PROVE HoldersSame(o)
  <2>1. SlotsOf(o)' = SlotsOf(o)
    BY <1>0, <1>1, <1>2 DEF TypeOK, SlotsOf
  <2>2. OwnersOf(o)' = OwnersOf(o) /\ GettersOf(o)' = GettersOf(o)
    BY <1>0 DEF OwnersOf, GettersOf
  <2>3. QED
    BY <2>1, <2>2 DEF HoldersSame
<1>6. RefsMatchHolders' /\ refs' \in [Buffers -> Nat]
  BY <1>0, <1>2, <1>3, <1>4, AddHolder
<1>7. TypeOK'
  BY <1>0, <1>1, <1>6, SignalTyped DEF TypeOK
<1>8. RingConsistent'
  BY <1>0, <1>1, <1>2 DEF RingConsistent, TypeOK
<1>9. PullState' /\ ClosedIsQuiet'
  BY <1>0, SignalTyped DEF IInv, PullState, ClosedIsQuiet
<1>10. QED
  BY <1>6, <1>7, <1>8, <1>9 DEF IInv

LEMMA DropStep ==
  ASSUME IInv, NEW p \in Producers, Drop(p)
  PROVE  IInv'
<1> USE PortAssumption
<1> PICK b \in Buffers : b = own[p]
  BY DEF IInv, Drop, TypeOK
<1>0. /\ TypeOK /\ RefsMatchHolders /\ b \in Buffers /\ Unref(b)
      /\ own' = [own EXCEPT ![p] = NULL]
      /\ UNCHANGED <<open, ring, st, kind, got>>
  BY DEF IInv, Drop, TypeOK
<1>1. own[p] = b
  OBVIOUS
<1>2. Window' = Window
  BY <1>0 DEF ring, Window, Arc
<1>3. HolderCount(b)' = HolderCount(b) - 1
  <2>1. OwnersOf(b)' = OwnersOf(b) \ {p} /\ p \in OwnersOf(b)
    BY <1>0, <1>1 DEF TypeOK, OwnersOf
  <2>2. SlotsOf(b)' = SlotsOf(b) /\ GettersOf(b)' = GettersOf(b)
    BY <1>0, <1>2 DEF SlotsOf, GettersOf, ring
  <2>3. Cardinality(OwnersOf(b) \ {p}) = Cardinality(OwnersOf(b)) - 1
    BY <1>0, <2>1, HoldersFinite, FS_RemoveElement
  <2>4. QED
    BY <1>0, <2>1, <2>2, <2>3, HoldersFinite DEF HolderCount
<1>4. ASSUME NEW o \in Buffers \ {b} PROVE HoldersSame(o)
  <2>1. OwnersOf(o)' = OwnersOf(o)
    BY <1>0, <1>1 DEF TypeOK, OwnersOf
  <2>2. SlotsOf(o)' = SlotsOf(o) /\ GettersOf(o)' = GettersOf(o)
    BY <1>0, <1>2 DEF SlotsOf, GettersOf, ring
  <2>3. QED
    BY <2>1, <2>2 DEF HoldersSame
<1>5. refs[b] # 0
  BY <1>0, <1>1, HeldIsAllocated DEF OwnersOf
<1>6. RefsMatchHolders' /\ refs' \in [Buffers -> Nat]
  BY <1>0, <1>3, <1>4, <1>5, RemoveHolder
<1>7. TypeOK'
  BY <1>0, <1>6 DEF TypeOK, ring
<1>8. RingConsistent' /\ PullState' /\ ClosedIsQuiet'
  BY <1>0, <1>2 DEF IInv, RingConsistent, PullState, ClosedIsQuiet, ring,
       Inside, Sleeping, Woken, Expired
<1>9. QED
  BY <1>6, <1>7, <1>8 DEF IInv

(* Taking the head, whoever does it: the queue's reference becomes the     *)
(* caller's.                                                               *)
LEMMA TakeStep ==
  ASSUME IInv, NEW c \in Consumers, st[c] \in {"idle", "woken"}, TakeHead(c)
  PROVE  IInv'
<1> USE PortAssumption
<1>0. /\ TypeOK /\ RingConsistent /\ RefsMatchHolders /\ PullState
      /\ UNCHANGED <<open, tail, refs, own>> /\ count > 0
      /\ got' = [got EXCEPT ![c] = items[head]]
      /\ items' = [items EXCEPT ![head] = NULL]
      /\ st' = [st EXCEPT ![c] = "holding"]
      /\ kind' = [kind EXCEPT ![c] = "poll"]
  BY DEF IInv, TakeHead
<1>1. /\ items' \in [Slots -> Buffers \cup {NULL}]
      /\ head' \in Slots /\ tail' \in Slots /\ count' \in 0 .. Capacity
      /\ open /\ RingConsistent => tail' = Wrap(head' + count')
      /\ head \in Window
      /\ Window' = Window \ {head}
      /\ Window \subseteq Slots
  BY <1>0, TakeWindow
<1>2. open
  BY <1>0 DEF IInv, ClosedIsQuiet
<1>3. PICK b \in Buffers : items[head] = b
  BY <1>0, <1>1, <1>2 DEF RingConsistent, TypeOK
<1>4. got[c] = NULL
  BY <1>0 DEF PullState, TypeOK
<1>5. HolderCount(b)' = HolderCount(b)
  <2>1. SlotsOf(b)' = SlotsOf(b) \ {head} /\ head \in SlotsOf(b)
    BY <1>0, <1>1, <1>3 DEF TypeOK, SlotsOf
  <2>2. OwnersOf(b)' = OwnersOf(b)
    BY <1>0 DEF OwnersOf
  <2>3. GettersOf(b)' = GettersOf(b) \cup {c} /\ c \notin GettersOf(b)
    BY <1>0, <1>3, <1>4 DEF TypeOK, GettersOf
  <2>4. Cardinality(SlotsOf(b) \ {head}) = Cardinality(SlotsOf(b)) - 1
    BY <1>0, <2>1, HoldersFinite, FS_RemoveElement
  <2>5. Cardinality(GettersOf(b) \cup {c}) = Cardinality(GettersOf(b)) + 1
    BY <1>0, <2>3, HoldersFinite, FS_AddElement
  <2>6. QED
    BY <1>0, <2>1, <2>2, <2>3, <2>4, <2>5, HoldersFinite DEF HolderCount
<1>6. ASSUME NEW o \in Buffers \ {b} PROVE HolderCount(o)' = HolderCount(o)
  <2>1. SlotsOf(o)' = SlotsOf(o)
    BY <1>0, <1>1, <1>3 DEF TypeOK, SlotsOf
  <2>2. OwnersOf(o)' = OwnersOf(o)
    BY <1>0 DEF OwnersOf
  <2>3. GettersOf(o)' = GettersOf(o)
    BY <1>0, <1>3, <1>4 DEF TypeOK, GettersOf
  <2>4. QED
    BY <2>1, <2>2, <2>3 DEF HolderCount
<1>8. RefsMatchHolders'
  BY <1>0, <1>5, <1>6 DEF RefsMatchHolders
<1>9. TypeOK'
  BY <1>0, <1>1, <1>3 DEF TypeOK
<1>10. RingConsistent'
  BY <1>0, <1>1, <1>2 DEF RingConsistent, TypeOK
<1>11. PullState'
  BY <1>0, <1>3 DEF PullState, TypeOK
<1>12. ClosedIsQuiet'
  BY <1>0, <1>2 DEF ClosedIsQuiet
<1>13. QED
  BY <1>8, <1>9, <1>10, <1>11, <1>12 DEF IInv

LEMMA ReleaseStep ==
  ASSUME IInv, NEW c \in Consumers, Release(c)
  PROVE  IInv'
<1> USE PortAssumption
<1> PICK b \in Buffers : b = got[c]
  BY DEF IInv, Release, TypeOK, PullState
<1>0. /\ TypeOK /\ RefsMatchHolders /\ PullState /\ b \in Buffers /\ Unref(b)
      /\ got' = [got EXCEPT ![c] = NULL]
      /\ st' = [st EXCEPT ![c] = "idle"]
      /\ UNCHANGED <<open, ring, own, kind>>
  BY DEF IInv, Release, TypeOK, PullState
<1>1. got[c] = b
  OBVIOUS
<1>2. Window' = Window
  BY <1>0 DEF ring, Window, Arc
<1>3. HolderCount(b)' = HolderCount(b) - 1
  <2>1. GettersOf(b)' = GettersOf(b) \ {c} /\ c \in GettersOf(b)
    BY <1>0, <1>1 DEF TypeOK, GettersOf
  <2>2. SlotsOf(b)' = SlotsOf(b) /\ OwnersOf(b)' = OwnersOf(b)
    BY <1>0, <1>2 DEF SlotsOf, OwnersOf, ring
  <2>3. Cardinality(GettersOf(b) \ {c}) = Cardinality(GettersOf(b)) - 1
    BY <1>0, <2>1, HoldersFinite, FS_RemoveElement
  <2>4. QED
    BY <1>0, <2>1, <2>2, <2>3, HoldersFinite DEF HolderCount
<1>4. ASSUME NEW o \in Buffers \ {b} PROVE HoldersSame(o)
  <2>1. GettersOf(o)' = GettersOf(o)
    BY <1>0, <1>1 DEF TypeOK, GettersOf
  <2>2. SlotsOf(o)' = SlotsOf(o) /\ OwnersOf(o)' = OwnersOf(o)
    BY <1>0, <1>2 DEF SlotsOf, OwnersOf, ring
  <2>3. QED
    BY <2>1, <2>2 DEF HoldersSame
<1>5. refs[b] # 0
  BY <1>0, <1>1, HeldIsAllocated DEF GettersOf
<1>6. RefsMatchHolders' /\ refs' \in [Buffers -> Nat]
  BY <1>0, <1>3, <1>4, <1>5, RemoveHolder
<1>7. TypeOK'
  BY <1>0, <1>6 DEF TypeOK, ring
<1>8. RingConsistent'
  BY <1>0, <1>2 DEF IInv, RingConsistent, ring
<1>9. PullState' /\ ClosedIsQuiet'
  BY <1>0 DEF IInv, PullState, ClosedIsQuiet, ring, TypeOK,
       Inside, Sleeping, Woken, Expired
<1>10. QED
  BY <1>6, <1>7, <1>8, <1>9 DEF IInv

(* destroy drops the references of all queued buffers at once.             *)
LEMMA DestroyStep ==
  ASSUME IInv, Destroy
  PROVE  IInv'
<1>0. /\ TypeOK /\ RefsMatchHolders /\ PullState /\ Inside = {}
      /\ refs' = [b \in Buffers |-> refs[b] - Cardinality(SlotsOf(b))]
      /\ head' = Wrap(head + count) /\ count' = 0 /\ open' = FALSE
      /\ UNCHANGED <<items, tail, own, st, kind, got>>
  BY DEF IInv, Destroy
<1>1. Window' = {}
  BY <1>0 DEF Window, Arc
<1>2. \A b \in Buffers : SlotsOf(b)' = {}
  BY <1>1 DEF SlotsOf
<1>3. \A b \in Buffers : /\ OwnersOf(b)' = OwnersOf(b)
                          /\ GettersOf(b)' = GettersOf(b)
  BY <1>0 DEF OwnersOf, GettersOf
<1>4. ASSUME NEW b \in Buffers
      PROVE  refs'[b] = HolderCount(b)' /\ refs'[b] \in Nat
  <2>1. refs'[b] = Cardinality(OwnersOf(b)) + Cardinality(GettersOf(b))
    BY <1>0, HoldersFinite DEF RefsMatchHolders, HolderCount
  <2>2. Cardinality(SlotsOf(b)') = 0
    BY <1>2, FS_EmptySet
  <2>3. HolderCount(b)' = Cardinality(OwnersOf(b)) + Cardinality(GettersOf(b))
    BY <1>0, <1>3, <2>2, HoldersFinite DEF HolderCount
  <2>4. QED
    BY <1>0, <2>1, <2>3, HoldersFinite
<1>5. RefsMatchHolders' /\ refs' \in [Buffers -> Nat]
  BY <1>0, <1>4 DEF RefsMatchHolders
<1>6. head' \in Slots /\ count' \in 0 .. Capacity
  <2>1. head + count \in 0 .. 2 * Capacity - 1
    BY <1>0, CapacityPositive DEF TypeOK, Slots
  <2>2. QED
    BY <1>0, <2>1, WrapInSlots, CapacityPositive
<1>7. TypeOK'
  BY <1>0, <1>5, <1>6 DEF TypeOK
<1>8. RingConsistent' /\ PullState' /\ ClosedIsQuiet'
  BY <1>0 DEF RingConsistent, PullState, ClosedIsQuiet,
       Inside, Sleeping, Woken, Expired
<1>9. QED
  BY <1>5, <1>7, <1>8 DEF IInv

(* The steps of a consumer that move it through its pull.                  *)
LEMMA PullMoves ==
  ASSUME IInv, NEW c \in Consumers,
         \/ PullWait(c) \/ SpuriousWake(c) \/ Expire(c)
         \/ WakeSleep(c) \/ GiveUp(c)
  PROVE  IInv'
<1> USE PortAssumption DEF IInv
<1>1. CASE PullWait(c)
  <2>1. PICK t \in Kinds \ {"poll"} : /\ kind' = [kind EXCEPT ![c] = t]
                                     /\ st' = [st EXCEPT ![c] = "blocked"]
    BY <1>1 DEF PullWait
  <2>2. open /\ st[c] = "idle" /\ UNCHANGED <<open, ring, refs, own, got>>
    BY <1>1 DEF PullWait
  <2>3. PullState'
    BY <2>1, <2>2 DEF PullState, TypeOK
  <2>4. QED
    BY <2>1, <2>2, <2>3, QuietStep DEF TypeOK
<1>2. CASE SpuriousWake(c)
  <2>1. PullState'
    BY <1>2 DEF SpuriousWake, PullState, TypeOK
  <2>2. open
    BY <1>2 DEF SpuriousWake, ClosedIsQuiet, Inside, Sleeping
  <2>3. QED
    BY <1>2, <2>1, <2>2, QuietStep DEF SpuriousWake, TypeOK
<1>3. CASE Expire(c)
  <2>1. PullState'
    BY <1>3 DEF Expire, PullState, TypeOK
  <2>2. open
    BY <1>3 DEF Expire, ClosedIsQuiet, Inside, Sleeping
  <2>3. QED
    BY <1>3, <2>1, <2>2, QuietStep DEF Expire, TypeOK
<1>4. CASE WakeSleep(c)
  <2>1. PullState'
    BY <1>4 DEF WakeSleep, PullState, TypeOK
  <2>2. open
    BY <1>4 DEF WakeSleep, ClosedIsQuiet, Inside, Woken
  <2>3. QED
    BY <1>4, <2>1, <2>2, QuietStep DEF WakeSleep, TypeOK
<1>5. CASE GiveUp(c)
  <2>1. PullState'
    BY <1>5 DEF GiveUp, Return, PullState, TypeOK
  <2>2. open
    BY <1>5 DEF GiveUp, ClosedIsQuiet, Inside, Expired
  <2>3. QED
    BY <1>5, <2>1, <2>2, QuietStep DEF GiveUp, Return, TypeOK
<1>6. QED
  BY <1>1, <1>2, <1>3, <1>4, <1>5

LEMMA NextIInv == IInv /\ [Next]_vars => IInv'
<1> SUFFICES ASSUME IInv, [Next]_vars PROVE IInv'
  OBVIOUS
<1>1. ASSUME NEW p \in Producers, ProducerStep(p) PROVE IInv'
  BY <1>1, AllocStep, PushStep, DropStep DEF ProducerStep
<1>2. ASSUME NEW c \in Consumers, ConsumerStep(c) PROVE IInv'
  <2>1. CASE PullNow(c)
    BY <2>1, TakeStep DEF PullNow
  <2>2. CASE WakeTake(c)
    BY <2>2, TakeStep DEF WakeTake
  <2>3. CASE Release(c)
    BY <2>3, ReleaseStep
  <2>4. QED
    BY <1>2, <2>1, <2>2, <2>3, PullMoves DEF ConsumerStep
<1>3. CASE Destroy
  BY <1>3, DestroyStep
<1>4. CASE UNCHANGED vars
  <2>1. UNCHANGED <<open, ring, refs, own, got, st, kind>>
    BY <1>4 DEF vars, ring
  <2>2. PullState' /\ (~open => Inside' = {})
    BY <2>1 DEF IInv, PullState, ClosedIsQuiet, Inside, Sleeping, Woken, Expired
  <2>3. QED
    BY <2>1, <2>2, QuietStep DEF IInv, TypeOK
<1>5. QED
  BY <1>1, <1>2, <1>3, <1>4 DEF Next

-----------------------------------------------------------------------------
(* The theorems.                                                           *)

(* The inductive invariant holds in every reachable state.                 *)
THEOREM Invariance == Spec => []IInv
  BY InitIInv, NextIInv, PTL DEF Spec

(* Every variable keeps its type; in particular no reference count goes    *)
(* below zero and no index leaves the ring.                                *)
THEOREM TypeCorrect == Spec => []TypeOK
<1>1. IInv => TypeOK
  BY DEF IInv
<1>2. QED
  BY <1>1, Invariance, PTL

(* head, tail, count and the slots always describe one window, so a pull   *)
(* never returns a null pointer and a push never overwrites a buffer.      *)
THEOREM RingCorrect == Spec => []RingConsistent
<1>1. IInv => RingConsistent
  BY DEF IInv
<1>2. QED
  BY <1>1, Invariance, PTL

(* A reference count is the number of holders, whatever the threads do.    *)
THEOREM RefsCorrect == Spec => []RefsMatchHolders
<1>1. IInv => RefsMatchHolders
  BY DEF IInv
<1>2. QED
  BY <1>1, Invariance, PTL

-----------------------------------------------------------------------------
(* No wake-up is lost in a system without finite time-outs.                *)

LEMMA WokenFinite ==
  ASSUME TypeOK
  PROVE  /\ IsFiniteSet(Woken) /\ Cardinality(Woken) \in Nat
         /\ count \in Nat
<1>1. Woken \in SUBSET Consumers
  BY DEF Woken
<1>2. IsFiniteSet(Woken)
  BY <1>1, PortAssumption, FS_Subset
<1>3. QED
  BY <1>2, FS_CardinalityType, CapacityPositive DEF TypeOK

(* A push signals: the new buffer finds a new consumer awake.              *)
LEMMA PushWakes ==
  ASSUME IInv, NoLostWakeup, NEW p \in Producers, Push(p)
  PROVE  NoLostWakeup'
<1> SUFFICES ASSUME "timed" \notin Kinds, Sleeping' # {}
             PROVE  count' <= Cardinality(Woken')
  BY DEF NoLostWakeup
<1>1. /\ TypeOK /\ SignalNotEmpty /\ count' = count + 1
      /\ count > 0 /\ Sleeping # {} => count <= Cardinality(Woken)
  BY DEF IInv, Push, PushAt, NoLostWakeup
<1>2. Expired = {}
  BY DEF IInv, PullState, Expired
<1>3. Sleeping # {}
  BY <1>1, <1>2 DEF SignalNotEmpty, Sleeping
<1>4. PICK c \in Sleeping : st' = [st EXCEPT ![c] = "woken"]
  BY <1>1, <1>2, <1>3 DEF SignalNotEmpty
<1>5. Woken' = Woken \cup {c} /\ c \notin Woken
  BY <1>1, <1>4 DEF Woken, Sleeping, TypeOK
<1>6. Cardinality(Woken') = Cardinality(Woken) + 1
  BY <1>1, <1>5, WokenFinite, FS_AddElement
<1>7. QED
  BY <1>1, <1>3, <1>6, WokenFinite

(* A consumer that takes a buffer leaves the queue with one buffer less    *)
(* and at most one woken consumer less.                                    *)
LEMMA TakeWakes ==
  ASSUME IInv, NoLostWakeup, NEW c \in Consumers, PullNow(c) \/ WakeTake(c)
  PROVE  NoLostWakeup'
<1> SUFFICES ASSUME "timed" \notin Kinds, count' > 0, Sleeping' # {}
             PROVE  count' <= Cardinality(Woken')
  BY DEF NoLostWakeup
<1>1. /\ TypeOK /\ TakeHead(c) /\ count' = count - 1 /\ count > 0
      /\ st' = [st EXCEPT ![c] = "holding"]
  BY DEF IInv, PullNow, WakeTake, TakeHead
<1>2. Sleeping # {}
  BY <1>1 DEF Sleeping, TypeOK
<1>3. count <= Cardinality(Woken)
  BY <1>1, <1>2 DEF NoLostWakeup
<1>4. CASE PullNow(c)
  <2>1. Woken' = Woken
    BY <1>1, <1>4 DEF Woken, TypeOK, PullNow
  <2>2. QED
    BY <1>1, <1>3, <2>1, WokenFinite
<1>5. CASE WakeTake(c)
  <2>1. Woken' = Woken \ {c} /\ c \in Woken
    BY <1>1, <1>5 DEF Woken, TypeOK, WakeTake
  <2>2. Cardinality(Woken') = Cardinality(Woken) - 1
    BY <1>1, <2>1, WokenFinite, FS_RemoveElement
  <2>3. QED
    BY <1>1, <1>3, <2>2, WokenFinite
<1>6. QED
  BY <1>4, <1>5

LEMMA NextWakes == IInv /\ NoLostWakeup /\ [Next]_vars => NoLostWakeup'
<1> SUFFICES ASSUME IInv, NoLostWakeup, [Next]_vars PROVE NoLostWakeup'
  OBVIOUS
<1> SUFFICES ASSUME "timed" \notin Kinds PROVE NoLostWakeup'
  BY DEF NoLostWakeup
<1>1. TypeOK
  BY DEF IInv
<1>2. ASSUME NEW p \in Producers, ProducerStep(p) PROVE NoLostWakeup'
  <2>1. CASE Alloc(p) \/ Drop(p)
    BY <2>1 DEF Alloc, Drop, ring, NoLostWakeup, Sleeping, Woken
  <2>2. QED
    BY <1>2, <2>1, PushWakes DEF ProducerStep
<1>3. ASSUME NEW c \in Consumers, ConsumerStep(c) PROVE NoLostWakeup'
  <2>1. CASE PullWait(c) \/ WakeSleep(c)
    BY <2>1 DEF PullWait, WakeSleep, ring, NoLostWakeup
  <2>2. CASE SpuriousWake(c)
    <3>1. Woken' = Woken \cup {c} /\ c \notin Woken
      BY <1>1, <2>2 DEF SpuriousWake, Woken, TypeOK
    <3>2. Cardinality(Woken') = Cardinality(Woken) + 1
      BY <1>1, <3>1, WokenFinite, FS_AddElement
    <3>3. count' = count /\ Sleeping # {}
      BY <2>2 DEF SpuriousWake, ring, Sleeping
    <3>4. QED
      BY <1>1, <3>2, <3>3, WokenFinite DEF NoLostWakeup
  <2>3. CASE Expire(c) \/ GiveUp(c)
    BY <2>3 DEF IInv, PullState, Expire, GiveUp
  <2>4. CASE Release(c)
    <3>1. Sleeping' = Sleeping /\ Woken' = Woken /\ count' = count
      BY <1>1, <2>4 DEF Release, ring, Sleeping, Woken, TypeOK
    <3>2. QED
      BY <3>1 DEF NoLostWakeup
  <2>5. QED
    BY <1>3, <2>1, <2>2, <2>3, <2>4, TakeWakes DEF ConsumerStep
<1>4. CASE Destroy
  BY <1>4 DEF Destroy, NoLostWakeup
<1>5. CASE UNCHANGED vars
  BY <1>5 DEF vars, NoLostWakeup, Sleeping, Woken
<1>6. QED
  BY <1>2, <1>3, <1>4, <1>5 DEF Next

(* As long as nobody uses a finite time-out, a sleeping consumer never     *)
(* coexists with a queued buffer that no woken consumer will come for.     *)
THEOREM WakeupCorrect == Spec => []NoLostWakeup
<1>1. Init => NoLostWakeup
  BY DEF Init, NoLostWakeup
<1>2. QED
  BY <1>1, NextWakes, Invariance, PTL DEF Spec

-----------------------------------------------------------------------------
(* The queue implements the bounded FIFO.                                  *)

LEMMA ContentsSeq ==
  ASSUME TypeOK, RingConsistent, open
  PROVE  /\ Contents \in Seq(Buffers) /\ Len(Contents) = count
         /\ \A k \in 1 .. count : Contents[k] = items[Wrap(head + k - 1)]
<1> USE CapacityPositive
<1>1. count \in Nat /\ head \in Slots /\ count \in 0 .. Capacity
  BY DEF TypeOK
<1>2. ASSUME NEW k \in 1 .. count PROVE items[Wrap(head + k - 1)] \in Buffers
  <2>1. Wrap(head + k - 1) \in Window
    <3>1. k - 1 \in 0 .. count - 1 /\ head + k - 1 = head + (k - 1)
      BY <1>1 DEF Slots
    <3>2. QED
      BY <3>1 DEF Window, Arc
  <2>2. Wrap(head + k - 1) \in Slots
    BY <1>1, <2>1, ArcInSlots DEF Window
  <2>3. QED
    BY <2>1, <2>2 DEF TypeOK, RingConsistent
<1>3. QED
  BY <1>1, <1>2 DEF Contents

LEMMA TailIsShift ==
  ASSUME NEW S, NEW s \in Seq(S), NEW n \in Nat \ {0}, Len(s) = n
  PROVE  Tail(s) = [k \in 1 .. n - 1 |-> s[k + 1]]
<1>1. s # <<>>
  OBVIOUS
<1>2. /\ Tail(s) \in Seq(S) /\ Len(Tail(s)) = n - 1
      /\ \A i \in 1 .. Len(Tail(s)) : Tail(s)[i] = s[i + 1]
  BY <1>1, HeadTailProperties
<1>3. Tail(s) = [i \in 1 .. n - 1 |-> Tail(s)[i]]
  <2>1. Tail(s) \in [1 .. n - 1 -> S]
    BY <1>2, LenProperties
  <2>2. QED
    BY <2>1
<1>4. QED
  BY <1>2, <1>3

LEMMA PushRefines ==
  ASSUME IInv, NEW p \in Producers, Push(p)
  PROVE  Fifo!Put(own[p])
<1> USE CapacityPositive
<1>1. /\ TypeOK /\ RingConsistent /\ open /\ open' = open /\ got' = got
      /\ count < Capacity /\ count' = count + 1 /\ head' = head
      /\ items' = [items EXCEPT ![tail] = own[p]] /\ own[p] \in Buffers
  BY DEF IInv, Push, PushAt, TypeOK
<1>2. IInv'
  BY PushStep
<1>3. /\ Contents \in Seq(Buffers) /\ Len(Contents) = count
      /\ \A k \in 1 .. count : Contents[k] = items[Wrap(head + k - 1)]
  BY <1>1, ContentsSeq
<1>4. /\ head \in Slots /\ count \in 0 .. Capacity - 1 /\ tail \in Slots
      /\ tail = Wrap(head + count) /\ tail \notin Window
  BY <1>1, ArcExtend DEF TypeOK, RingConsistent, Window
<1>5. ASSUME NEW k \in 1 .. count
      PROVE  items'[Wrap(head + k - 1)] = Contents[k]
  <2>1. Wrap(head + k - 1) \in Window
    <3>1. k - 1 \in 0 .. count - 1 /\ head + k - 1 = head + (k - 1)
      BY <1>4 DEF Slots
    <3>2. QED
      BY <3>1 DEF Window, Arc
  <2>2. Wrap(head + k - 1) \in Slots /\ Wrap(head + k - 1) # tail
    BY <1>4, <2>1, ArcInSlots DEF Window
  <2>3. QED
    BY <1>1, <1>3, <2>2 DEF TypeOK
<1>6. items'[Wrap(head + (count + 1) - 1)] = own[p]
  <2>1. head + (count + 1) - 1 = head + count
    BY <1>4 DEF Slots
  <2>2. QED
    BY <1>1, <1>4, <2>1 DEF TypeOK
<1>7. Contents' = [k \in 1 .. count + 1 |-> items'[Wrap(head + k - 1)]]
  BY <1>1 DEF Contents, Wrap
<1>8. Contents' = Append(Contents, own[p])
  <2>1. Append(Contents, own[p])
          = [k \in 1 .. count + 1 |-> IF k = count + 1 THEN own[p] ELSE Contents[k]]
    BY <1>1, <1>3
  <2>2. \A k \in 1 .. count + 1 :
          items'[Wrap(head + k - 1)]
            = IF k = count + 1 THEN own[p] ELSE Contents[k]
    BY <1>4, <1>5, <1>6
  <2>3. QED
    BY <1>7, <2>1, <2>2
<1>9. QED
  BY <1>1, <1>3, <1>8 DEF Fifo!Put

LEMMA TakeRefines ==
  ASSUME IInv, NEW c \in Consumers, st[c] \in {"idle", "woken"}, TakeHead(c)
  PROVE  Fifo!Take(c)
<1> USE CapacityPositive
<1>1. /\ TypeOK /\ RingConsistent /\ open' = open /\ PullState
      /\ count > 0 /\ count' = count - 1 /\ head' = Wrap(head + 1)
      /\ items' = [items EXCEPT ![head] = NULL]
      /\ got' = [got EXCEPT ![c] = items[head]]
  BY DEF IInv, TakeHead
<1>2. open
  BY <1>1 DEF IInv, ClosedIsQuiet
<1>3. got[c] = NULL
  BY <1>1 DEF PullState
<1>4. /\ Contents \in Seq(Buffers) /\ Len(Contents) = count
      /\ \A k \in 1 .. count : Contents[k] = items[Wrap(head + k - 1)]
  BY <1>1, <1>2, ContentsSeq
<1>5. /\ head \in Slots /\ count \in 1 .. Capacity
      /\ \A k \in 0 .. count - 1 : Wrap(Wrap(head + 1) + k) = Wrap(head + (k + 1))
      /\ Arc(Wrap(head + 1), count - 1) = Window \ {head}
      /\ Window \subseteq Slots
  BY <1>1, ArcShrink, ArcInSlots DEF TypeOK, Window
<1>6. Contents[1] = items[head]
  <2>1. Wrap(head + 1 - 1) = head
    BY <1>5, WrapValue DEF Slots
  <2>2. QED
    BY <1>4, <1>5, <2>1
<1>7. ASSUME NEW k \in 1 .. count - 1
      PROVE  items'[Wrap(head' + k - 1)] = Contents[k + 1]
  <2>1. /\ k - 1 \in 0 .. count - 2 /\ k - 1 \in 0 .. count - 1
        /\ (k - 1) + 1 = k /\ (k + 1) - 1 = k /\ k + 1 \in 1 .. count
    BY <1>5
  <2>2. Wrap(Wrap(head + 1) + (k - 1)) = Wrap(head + k)
    BY <1>5, <2>1
  <2>3. Wrap(Wrap(head + 1) + (k - 1)) \in Window \ {head}
    <3>1. k - 1 \in 0 .. (count - 1) - 1
      BY <1>5
    <3>2. QED
      BY <1>5, <3>1 DEF Arc
  <2>4. head' + k - 1 = Wrap(head + 1) + (k - 1) /\ head + (k + 1) - 1 = head + k
    <3>1. Wrap(head + 1) \in Slots
      BY <1>5, ArcShrink
    <3>2. QED
      BY <1>1, <1>5, <3>1 DEF Slots
  <2>5. items'[Wrap(head + k)] = items[Wrap(head + k)]
    BY <1>1, <1>5, <2>2, <2>3 DEF TypeOK
  <2>6. Contents[k + 1] = items[Wrap(head + k)]
    BY <1>4, <2>1, <2>4
  <2>7. QED
    BY <2>2, <2>4, <2>5, <2>6
<1>8. Contents' = [k \in 1 .. count - 1 |-> items'[Wrap(head' + k - 1)]]
  BY <1>1 DEF Contents, Wrap
<1>9. Contents' = Tail(Contents)
  <2>1. Tail(Contents) = [k \in 1 .. count - 1 |-> Contents[k + 1]]
    BY <1>4, <1>5, TailIsShift
  <2>2. QED
    BY <1>7, <1>8, <2>1
<1>10. Contents # <<>> /\ Head(Contents) = items[head]
  BY <1>4, <1>5, <1>6
<1>11. QED
  BY <1>1, <1>2, <1>3, <1>9, <1>10 DEF Fifo!Take

(* All other steps leave the queue's contents as they are.                 *)
LEMMA SameContents ==
  ASSUME UNCHANGED ring
  PROVE  Contents' = Contents
  BY DEF ring, Contents, Wrap

LEMMA NextRefines == IInv /\ [Next]_vars => [Fifo!Next]_(Fifo!fifoVars)
<1> SUFFICES ASSUME IInv, [Next]_vars
             PROVE  Fifo!Next \/ UNCHANGED Fifo!fifoVars
  OBVIOUS
<1> USE DEF IInv
<1>1. ASSUME NEW p \in Producers, ProducerStep(p)
      PROVE  Fifo!Next \/ UNCHANGED Fifo!fifoVars
  <2>1. CASE Alloc(p) \/ Drop(p)
    BY <2>1, SameContents DEF Alloc, Drop, Fifo!fifoVars
  <2>2. CASE Push(p)
    <3>1. own[p] \in Buffers
      BY <2>2 DEF Push, TypeOK
    <3>2. QED
      BY <2>2, <3>1, PushRefines DEF Fifo!Next
  <2>3. QED
    BY <1>1, <2>1, <2>2 DEF ProducerStep
<1>2. ASSUME NEW c \in Consumers, ConsumerStep(c)
      PROVE  Fifo!Next \/ UNCHANGED Fifo!fifoVars
  <2>1. CASE PullNow(c) \/ WakeTake(c)
    BY <2>1, TakeRefines DEF PullNow, WakeTake, Fifo!Next
  <2>2. CASE PullWait(c) \/ SpuriousWake(c) \/ Expire(c) \/ WakeSleep(c) \/ GiveUp(c)
    BY <2>2, SameContents DEF PullWait, SpuriousWake, Expire, WakeSleep, GiveUp,
         Return, Fifo!fifoVars
  <2>3. CASE Release(c)
    <3>1. Fifo!Finish(c)
      BY <2>3, SameContents DEF Release, PullState, Fifo!Finish
    <3>2. QED
      BY <3>1 DEF Fifo!Next
  <2>4. QED
    BY <1>2, <2>1, <2>2, <2>3 DEF ConsumerStep
<1>3. CASE Destroy
  <2>1. Contents' = <<>>
    BY <1>3 DEF Destroy, Contents
  <2>2. Fifo!Close
    BY <1>3, <2>1 DEF Destroy, Fifo!Close
  <2>3. QED
    BY <2>2 DEF Fifo!Next
<1>4. CASE UNCHANGED vars
  BY <1>4, SameContents DEF vars, ring, Fifo!fifoVars
<1>5. QED
  BY <1>1, <1>2, <1>3, <1>4 DEF Next

(* For every capacity and every number of threads the ring under its lock  *)
(* behaves like a bounded FIFO: nothing is lost, duplicated or reordered.  *)
THEOREM FifoRefinement == Spec => RefinesFifo
<1>1. Init => Fifo!Init
  BY DEF Init, Fifo!Init, Contents
<1>2. QED
  BY <1>1, NextRefines, Invariance, PTL DEF Spec, RefinesFifo, Fifo!Spec
=============================================================================
