------------------------ MODULE WorkStealingQueueProofs ------------------------
(***************************************************************************)
(* Proofs about WorkStealingQueue.                                         *)
(***************************************************************************)
EXTENDS WorkStealingQueue, FiniteSetTheorems, SequenceTheorems, TLAPS

Pushing == owner.pc \in {"resize", "write", "publish"}
Popping == owner.pc \in {"top", "cas", "restore"}

\* What the owner knows at each of its steps.
OwnerInv ==
  /\ owner.pc # "idle" => owner.b = bottom
  /\ Pushing => owner.item = pushed /\ bottom < pushed
  /\ owner.pc = "resize" => Cap(Current) <= bottom
  /\ owner.pc \in {"write", "publish"} => bottom - top < Cap(Current)
  /\ owner.pc = "publish" => Slot(Current, bottom) = pushed
  /\ owner.pc = "cas" => bottom <= top
  /\ owner.pc = "restore" => top = bottom + 1

\* How far the queue reaches.
RangeInv == /\ top <= Limit
            /\ Limit <= pushed
            /\ Limit - top <= Cap(Current)

\* The items that have been in the queue.
Entered == IF Pushing THEN 1..(pushed - 1) ELSE 1..pushed

ItemsInv ==
  /\ taken \subseteq Entered
  /\ \A i \in top..(Limit - 1) : Slot(Current, i) \in Entered \ taken
  /\ \A i, j \in top..(Limit - 1) : i # j => Slot(Current, i) # Slot(Current, j)

\* A thief that will win has seen the queue as it is.
ThiefInv ==
  \A th \in Thief :
    /\ thief[th].pc # "idle" => thief[th].t <= top
    /\ thief[th].pc \in {"array", "read", "cas"} /\ thief[th].t = top =>
         /\ top < Limit
         /\ thief[th].pc = "read" => Slot(thief[th].a, top) = Slot(Current, top)
         /\ thief[th].pc = "cas" => thief[th].item = Slot(Current, top)

ArraysInv == \A k \in 1..Current : Cap(k) \in Nat \ {0}

IInv == TypeOK /\ ArraysInv /\ OwnerInv /\ RangeInv /\ ItemsInv /\ ThiefInv
-----------------------------------------------------------------------------
(***************************************************************************)
(* Indices modulo the capacity.                                            *)
(***************************************************************************)

\* A slot number is within the array.
LEMMA SlotInRange ==
  ASSUME NEW n \in Nat \ {0}, NEW i \in Int
  PROVE  i % n \in 0..(n - 1)
  OBVIOUS

\* Two places closer than the capacity do not share a slot.
LEMMA NoAlias ==
  ASSUME NEW n \in Nat \ {0}, NEW i \in Int, NEW j \in Int,
         i < j, j < i + n
  PROVE  i % n # j % n
  <1> DEFINE p == i \div n
             q == j \div n
  <1>1. p \in Int /\ q \in Int
    OBVIOUS
  <1>2. i = n * p + (i % n) /\ j = n * q + (j % n)
    OBVIOUS
  <1>3. n * p \in Int /\ n * q \in Int /\ i % n \in 0..(n - 1) /\ j % n \in 0..(n - 1)
    BY <1>1
  <1>4. p < q => n * p + n <= n * q
    BY <1>1
  <1>5. q < p => n * q + n <= n * p
    BY <1>1
  <1> HIDE DEF p, q
  <1>6. p = q => i % n # j % n
    BY <1>1, <1>2, <1>3
  <1>7. QED
    BY <1>1, <1>2, <1>3, <1>4, <1>5, <1>6

\* The capacity is the number of slots.
LEMMA CapIs ==
  ASSUME NEW n \in Nat \ {0}, NEW S, NEW f \in [0..(n - 1) -> S]
  PROVE  Cardinality(DOMAIN f) = n
  BY FS_Interval
-----------------------------------------------------------------------------
(***************************************************************************)
(* What the steps do to the arrays.                                        *)
(***************************************************************************)
Content == Item \cup {None}

\* Being a sequence of its own elements is being a sequence.
LEMMA OwnElements ==
  ASSUME NEW S, NEW q \in Seq(S)
  PROVE  q \in Seq({q[k] : k \in DOMAIN q})
  <1>1. q \in [1..Len(q) -> {q[k] : k \in DOMAIN q}] /\ Len(q) \in Nat
    OBVIOUS
  <1>2. QED
    BY <1>1, SeqDef

LEMMA ArraysTyped ==
  ASSUME TypeOK, ArraysInv
  PROVE  /\ Current \in Nat \ {0}
         /\ DOMAIN arrays = 1..Current
         /\ Cap(Current) \in Nat \ {0}
         /\ \A k \in 1..Current, i \in Int : Slot(k, i) \in Content
  <1>1. /\ Current \in Nat \ {0}
        /\ DOMAIN arrays = 1..Current
        /\ Cap(Current) \in Nat \ {0}
    BY DEF TypeOK, ArraysInv, Current
  <1>2. ASSUME NEW k \in 1..Current, NEW i \in Int PROVE Slot(k, i) \in Content
    <2>1. Cap(k) \in Nat \ {0} /\ arrays[k] \in [0..(Cap(k) - 1) -> Content]
      BY DEF TypeOK, ArraysInv, Content
    <2>2. i % Cap(k) \in 0..(Cap(k) - 1)
      BY <2>1, SlotInRange
    <2>3. QED
      BY <2>1, <2>2 DEF Slot
  <1>3. QED
    BY <1>1, <1>2

\* An array of a sequence of arrays
ArraysOK == /\ arrays \in Seq({arrays[k] : k \in DOMAIN arrays}) /\ arrays # <<>>
            /\ \A k \in 1..Current : arrays[k] \in [0..(Cap(k) - 1) -> Content]
            /\ Cap(1) = Capacity
            /\ \A k \in 1..(Current - 1) : Cap(k + 1) = 2 * Cap(k)
            /\ ArraysInv

LEMMA WriteEffect ==
  ASSUME TypeOK, ArraysInv, Write, owner.b \in Int, owner.item \in Content
  PROVE  /\ ArraysOK'
         /\ Current' = Current
         /\ \A k \in 1..Current : Cap(k)' = Cap(k)
         /\ \A k \in 1..Current, i \in Int :
              Slot(k, i)' = IF k = Current /\ i % Cap(k) = owner.b % Cap(k)
                              THEN owner.item ELSE Slot(k, i)
  <1> DEFINE n == Cap(Current)
             a == [arrays[Current] EXCEPT ![owner.b % n] = owner.item]
  <1>1. /\ Current \in 1..Current /\ n \in Nat \ {0} /\ DOMAIN arrays = 1..Current
    BY ArraysTyped
  <1>0. owner.b % n \in 0..(n - 1) /\ arrays[Current] \in [0..(n - 1) -> Content]
    BY <1>1, SlotInRange DEF TypeOK, Content
  <1>2. arrays' = [arrays EXCEPT ![Current] = a]
    BY DEF Write
  <1>3. a \in [0..(n - 1) -> Content]
    BY <1>0, <1>1
  <1>4. Cardinality(DOMAIN a) = n
    BY <1>1, <1>3, CapIs
  <1>5. /\ Current' = Current
        /\ arrays' \in Seq({arrays[k] : k \in DOMAIN arrays} \cup {a})
        /\ arrays' # <<>>
        /\ \A k \in 1..Current : arrays'[k] = IF k = Current THEN a ELSE arrays[k]
    BY <1>1, <1>2 DEF TypeOK, Current
  <1>6. \A k \in 1..Current : Cap(k)' = Cap(k)
    BY <1>4, <1>5 DEF Cap
  <1>7. \A k \in 1..Current, i \in Int :
              Slot(k, i)' = IF k = Current /\ i % Cap(k) = owner.b % Cap(k)
                              THEN owner.item ELSE Slot(k, i)
    <2> SUFFICES ASSUME NEW k \in 1..Current, NEW i \in Int
                 PROVE  Slot(k, i)' = IF k = Current /\ i % Cap(k) = owner.b % Cap(k)
                                        THEN owner.item ELSE Slot(k, i)
      OBVIOUS
    <2>1. Slot(k, i)' = arrays'[k][i % Cap(k)]
      BY <1>6 DEF Slot
    <2>2. CASE k # Current
      BY <2>1, <2>2, <1>5 DEF Slot
    <2>3. CASE k = Current
      <3>1. i % n \in 0..(n - 1)
        BY <1>1, SlotInRange
      <3>2. QED
        BY <2>1, <2>3, <3>1, <1>0, <1>1, <1>5 DEF Slot
    <2>4. QED
      BY <2>2, <2>3
  <1>8. ArraysOK'
    <2>1. arrays' \in Seq({arrays'[k] : k \in DOMAIN arrays'})
      BY <1>5, OwnElements
    <2>2. \A k \in 1..Current : arrays'[k] \in [0..(Cap(k)' - 1) -> Content]
      BY <1>1, <1>3, <1>5, <1>6 DEF TypeOK, Content
    <2>3. Cap(1)' = Capacity
      BY <1>1, <1>6 DEF TypeOK
    <2>4. ASSUME NEW k \in 1..(Current - 1) PROVE Cap(k + 1)' = 2 * Cap(k)'
      <3>1. k \in 1..Current /\ k + 1 \in 1..Current /\ Cap(k + 1) = 2 * Cap(k)
        BY <1>1 DEF TypeOK
      <3>2. QED
        BY <1>6, <3>1
    <2>5. \A k \in 1..Current : Cap(k)' \in Nat \ {0}
      BY <1>6 DEF ArraysInv
    <2>6. QED
      BY <1>5, <2>1, <2>2, <2>3, <2>4, <2>5 DEF ArraysOK, ArraysInv
  <1>9. QED
    BY <1>5, <1>6, <1>7, <1>8

LEMMA ResizeEffect ==
  ASSUME TypeOK, ArraysInv, Resize, owner.b \in Int
  PROVE  /\ ArraysOK'
         /\ Current' = Current + 1
         /\ \A k \in 1..Current : Cap(k)' = Cap(k)
         /\ Cap(Current)' = 2 * Cap(Current)
         /\ \A k \in 1..Current, i \in Int : Slot(k, i)' = Slot(k, i)
         /\ \A i \in (owner.b - Cap(Current))..(owner.b - 1) :
              Slot(Current, i)' = Slot(Current, i)
  <1> DEFINE n == Cap(Current)
             cap == 2 * n
             live(i) == {j \in (owner.b - n)..(owner.b - 1) : j % cap = i}
             a == [i \in 0..(cap - 1) |->
                     IF live(i) = {} THEN None
                     ELSE Slot(Current, CHOOSE j \in live(i) : TRUE)]
  <1>1. /\ Current \in 1..Current /\ n \in Nat \ {0} /\ DOMAIN arrays = 1..Current
        /\ cap \in Nat \ {0}
    BY ArraysTyped
  <1>2. arrays' = Append(arrays, a)
    BY DEF Resize
  <1>3. a \in [0..(cap - 1) -> Content]
    <2> SUFFICES ASSUME NEW i \in 0..(cap - 1), live(i) # {}
                 PROVE  Slot(Current, CHOOSE j \in live(i) : TRUE) \in Content
      BY DEF Content
    <2>1. (CHOOSE j \in live(i) : TRUE) \in live(i)
      OBVIOUS
    <2>2. (CHOOSE j \in live(i) : TRUE) \in Int
      BY <1>1, <2>1
    <2>3. QED
      BY <1>1, <2>2, ArraysTyped
  <1> HIDE DEF a
  <1>4. Cardinality(DOMAIN a) = cap
    BY <1>1, <1>3, CapIs
  <1>5. /\ Current' = Current + 1
        /\ arrays' \in Seq({arrays[k] : k \in DOMAIN arrays} \cup {a})
        /\ arrays' # <<>>
        /\ \A k \in 1..Current : arrays'[k] = arrays[k]
        /\ arrays'[Current + 1] = a
    BY <1>1, <1>2 DEF TypeOK, Current
  <1>6. /\ \A k \in 1..Current : Cap(k)' = Cap(k)
        /\ Cap(Current)' = cap
    BY <1>1, <1>4, <1>5 DEF Cap
  <1>7. \A k \in 1..Current, i \in Int : Slot(k, i)' = Slot(k, i)
    BY <1>5, <1>6 DEF Slot
  <1>8. \A i \in (owner.b - n)..(owner.b - 1) :
           Slot(Current, i)' = Slot(Current, i)
    <2> SUFFICES ASSUME NEW i \in (owner.b - n)..(owner.b - 1)
                 PROVE  a[i % cap] = Slot(Current, i)
      BY <1>1, <1>5, <1>6 DEF Slot
    <2> DEFINE m == i % cap
    <2>0. i \in Int
      BY <1>1
    <2>1. m \in 0..(cap - 1)
      BY <1>1, <2>0, SlotInRange
    <2>2. i \in live(m)
      OBVIOUS
    <2>3. ASSUME NEW j \in live(m) PROVE j = i
      <3>1. j \in (owner.b - n)..(owner.b - 1) /\ j % cap = i % cap
        OBVIOUS
      <3>2. j \in Int /\ i < j + cap /\ j < i + cap
        BY <1>1, <3>1
      <3>3. ~(i < j) /\ ~(j < i)
        BY <1>1, <2>0, <3>1, <3>2, NoAlias
      <3>4. QED
        BY <2>0, <3>2, <3>3
    <2>4. (CHOOSE j \in live(m) : TRUE) = i
      <3>1. (CHOOSE j \in live(m) : TRUE) \in live(m)
        BY <2>2
      <3>2. QED
        BY <3>1, <2>3
    <2>5. QED
      BY <2>1, <2>2, <2>4 DEF a
  <1>9. ArraysOK'
    <2>1. arrays' \in Seq({arrays'[k] : k \in DOMAIN arrays'})
      BY <1>5, OwnElements
    <2>2. ASSUME NEW k \in 1..(Current + 1)
          PROVE  /\ arrays'[k] \in [0..(Cap(k)' - 1) -> Content]
                 /\ Cap(k)' \in Nat \ {0}
      <3>1. CASE k = Current + 1
        BY <1>1, <1>3, <1>5, <1>6, <3>1
      <3>2. CASE k \in 1..Current
        BY <1>5, <1>6, <3>2 DEF TypeOK, ArraysInv, Content
      <3>3. QED
        BY <1>1, <3>1, <3>2
    <2>3. Cap(1)' = Capacity
      BY <1>1, <1>6 DEF TypeOK
    <2>4. ASSUME NEW k \in 1..Current
          PROVE  Cap(k + 1)' = 2 * Cap(k)'
      <3>1. CASE k = Current
        BY <1>1, <1>5, <1>6, <3>1
      <3>2. CASE k \in 1..(Current - 1)
        <4>1. k + 1 \in 1..Current /\ Cap(k + 1) = 2 * Cap(k)
          BY <1>1, <3>2 DEF TypeOK
        <4>2. QED
          BY <1>6, <4>1
      <3>3. QED
        BY <1>1, <3>1, <3>2
    <2>5. QED
      BY <1>1, <1>5, <2>1, <2>2, <2>3, <2>4 DEF ArraysOK, ArraysInv
  <1>10. QED
    BY <1>5, <1>6, <1>7, <1>8, <1>9

LEMMA SameArrays ==
  ASSUME TypeOK, ArraysInv, UNCHANGED arrays
  PROVE  /\ ArraysOK'
         /\ Current' = Current
         /\ Cap(Current)' = Cap(Current)
         /\ \A k : Cap(k)' = Cap(k)
         /\ \A k, i : Slot(k, i)' = Slot(k, i)
         /\ \A i : Slot(Current, i)' = Slot(Current, i)
  BY DEF TypeOK, ArraysOK, ArraysInv, Current, Cap, Slot, Content
-----------------------------------------------------------------------------
(***************************************************************************)
(* The steps of the owner.                                                 *)
(***************************************************************************)

\* The variables that hold numbers.
LEMMA Numbers ==
  ASSUME IInv
  PROVE  /\ top \in Nat /\ bottom \in Int /\ pushed \in 0..MaxPush
         /\ MaxPush \in Nat
         /\ owner.b \in Int /\ owner.item \in Content
         /\ owner.pc \in OwnerPC
         /\ Cap(Current) \in Nat \ {0}
         /\ Limit = IF Popping THEN bottom + 1 ELSE bottom
  BY ArraysTyped, WorkStealingQueueAssumption
     DEF IInv, TypeOK, OwnerInv, Limit, Popping, Content

\* An owner whose step leaves the arrays as they are
LEMMA OwnerArrays ==
  ASSUME IInv, UNCHANGED arrays
  PROVE  ArraysOK'
  BY SameArrays DEF IInv

LEMMA PushBeginInv == IInv /\ PushBegin => IInv'
  <1> SUFFICES ASSUME IInv, PushBegin PROVE IInv'
    OBVIOUS
  <1> USE DEF PushBegin
  <1>1. /\ owner.pc = "idle" /\ pushed < MaxPush /\ pushed' = pushed + 1
        /\ owner'.pc \in {"resize", "write"}
        /\ owner'.b = bottom /\ owner'.item = pushed + 1
        /\ owner'.pc = "resize" <=> Full
    OBVIOUS
  <1>2. ArraysOK'
    BY OwnerArrays
  <1>3. Limit = bottom /\ Limit' = bottom /\ ~Popping /\ ~Pushing /\ Pushing'
    BY <1>1 DEF Limit, Popping, Pushing
  <1>4. TypeOK'
    <2>1. owner' \in [pc : OwnerPC, b : -1..MaxPush, item : Item \cup {None}]
      <3>1. pushed + 1 \in Item /\ bottom \in -1..MaxPush
        BY <1>1, Numbers DEF IInv, TypeOK, Item
      <3>2. QED
        BY <1>1, <3>1 DEF OwnerPC
    <2>2. thief' \in [Thief -> [pc : ThiefPC, t : 0..MaxPush, a : 1..Current',
                                item : Item \cup {None}]]
      BY SameArrays DEF IInv, TypeOK
    <2>3. /\ top' \in 0..MaxPush /\ bottom' \in (top' - 1)..MaxPush
          /\ pushed' \in 0..MaxPush /\ taken' \subseteq 1..pushed'
      BY <1>1, Numbers DEF IInv, TypeOK
    <2>4. QED
      BY <1>2, <2>1, <2>2, <2>3 DEF TypeOK, ArraysOK, Content
  <1>5. OwnerInv'
    BY <1>1, <1>3, Numbers, SameArrays DEF IInv, OwnerInv, RangeInv, Full, Pushing
  <1>6. RangeInv'
    BY <1>1, <1>3, Numbers, SameArrays DEF IInv, RangeInv
  <1>7. ItemsInv'
    <2>1. Entered' = Entered
      BY <1>1, <1>3, Numbers DEF Entered
    <2>2. QED
      BY <1>3, <2>1, SameArrays DEF IInv, ItemsInv
  <1>8. ThiefInv'
    BY <1>3, SameArrays DEF IInv, ThiefInv
  <1>9. QED
    BY <1>2, <1>4, <1>5, <1>6, <1>7, <1>8 DEF IInv, ArraysOK

LEMMA ResizeInv == IInv /\ Resize => IInv'
  <1> SUFFICES ASSUME IInv, Resize PROVE IInv'
    OBVIOUS
  <1>1. /\ owner.pc = "resize" /\ owner' = [owner EXCEPT !.pc = "write"]
        /\ UNCHANGED <<top, bottom, thief, pushed, taken>>
        /\ owner'.pc = "write" /\ owner'.b = bottom /\ owner.b = bottom
        /\ owner'.item = owner.item
    BY DEF Resize, IInv, OwnerInv, TypeOK
  <1>2. Limit = bottom /\ Limit' = bottom /\ Pushing /\ Pushing' /\ Entered' = Entered
    BY <1>1 DEF Limit, Pushing, Entered
  <1>3. /\ ArraysOK'
        /\ Current' = Current + 1 /\ Current \in Nat \ {0}
        /\ \A k \in 1..Current : Cap(k)' = Cap(k)
        /\ Cap(Current)' = 2 * Cap(Current)
        /\ \A k \in 1..Current, i \in Int : Slot(k, i)' = Slot(k, i)
        /\ \A i \in top..(bottom - 1) : Slot(Current, i)' = Slot(Current, i)
    BY <1>1, <1>2, ResizeEffect, ArraysTyped, Numbers DEF IInv, RangeInv
  <1>4. TypeOK'
    <2>1. thief' \in [Thief -> [pc : ThiefPC, t : 0..MaxPush, a : 1..(Current + 1),
                          item : Item \cup {None}]]
      BY <1>1, <1>3 DEF IInv, TypeOK
    <2>2. QED
      BY <1>1, <1>3, <2>1 DEF IInv, TypeOK, ArraysOK, Content, OwnerPC
  <1>5. OwnerInv'
    BY <1>1, <1>2, <1>3, Numbers DEF IInv, OwnerInv, RangeInv, Pushing
  <1>6. RangeInv'
    BY <1>1, <1>2, <1>3, Numbers DEF IInv, RangeInv
  <1>7. ItemsInv'
    BY <1>1, <1>2, <1>3 DEF IInv, ItemsInv
  <1>8. ThiefInv'
    <2> SUFFICES ASSUME NEW th \in Thief,
                        thief[th].pc \in {"array", "read", "cas"}, thief[th].t = top
                 PROVE  /\ top < bottom
                        /\ thief[th].pc = "read" =>
                             Slot(thief[th].a, top)' = Slot(Current, top)'
                        /\ thief[th].pc = "cas" => thief[th].item = Slot(Current, top)'
      BY <1>1, <1>2 DEF IInv, ThiefInv
    <2>1. /\ top < bottom
          /\ thief[th].pc = "read" => Slot(thief[th].a, top) = Slot(Current, top)
          /\ thief[th].pc = "cas" => thief[th].item = Slot(Current, top)
      BY <1>2 DEF IInv, ThiefInv
    <2>2. top \in top..(bottom - 1) /\ top \in Int /\ thief[th].a \in 1..Current
      BY <2>1, Numbers DEF IInv, TypeOK
    <2>3. Slot(Current, top)' = Slot(Current, top)
      BY <1>1, <1>3, <2>2
    <2>4. Slot(thief[th].a, top)' = Slot(thief[th].a, top)
      BY <1>1, <1>3, <2>2
    <2>5. QED
      BY <2>1, <2>3, <2>4
  <1>9. QED
    BY <1>3, <1>4, <1>5, <1>6, <1>7, <1>8 DEF IInv, ArraysOK

LEMMA WriteInv == IInv /\ Write => IInv'
  <1> SUFFICES ASSUME IInv, Write PROVE IInv'
    OBVIOUS
  <1>1. /\ owner.pc = "write" /\ owner' = [owner EXCEPT !.pc = "publish"]
        /\ UNCHANGED <<top, bottom, thief, pushed, taken>>
        /\ owner'.pc = "publish" /\ owner'.b = bottom /\ owner.b = bottom
        /\ owner'.item = pushed /\ owner.item = pushed
    BY DEF Write, IInv, OwnerInv, TypeOK, Pushing
  <1>2. Limit = bottom /\ Limit' = bottom /\ Pushing /\ Pushing' /\ Entered' = Entered
    BY <1>1 DEF Limit, Pushing, Entered
  <1>3. /\ ArraysOK'
        /\ Current' = Current /\ Current \in Nat \ {0}
        /\ \A k \in 1..Current : Cap(k)' = Cap(k)
        /\ Cap(Current)' = Cap(Current)
        /\ \A k \in 1..Current, i \in Int :
             Slot(k, i)' = IF k = Current /\ i % Cap(k) = bottom % Cap(k)
                             THEN pushed ELSE Slot(k, i)
    BY <1>1, WriteEffect, ArraysTyped, Numbers DEF IInv
  <1>4. \A i \in top..(bottom - 1) : Slot(Current, i)' = Slot(Current, i)
    <2> SUFFICES ASSUME NEW i \in top..(bottom - 1)
                 PROVE  Slot(Current, i)' = Slot(Current, i)
      OBVIOUS
    <2>1. i \in Int /\ i < bottom /\ bottom < i + Cap(Current)
      BY <1>1, Numbers DEF IInv, OwnerInv
    <2>2. i % Cap(Current) # bottom % Cap(Current)
      BY <2>1, NoAlias, Numbers
    <2>3. QED
      BY <1>3, <2>1, <2>2
  <1>5. Slot(Current, bottom)' = pushed
    BY <1>1, <1>3, Numbers
  <1>6. TypeOK'
    BY <1>1, <1>3 DEF IInv, TypeOK, ArraysOK, Content, OwnerPC
  <1>7. OwnerInv'
    BY <1>1, <1>2, <1>3, <1>5, Numbers DEF IInv, OwnerInv, Pushing
  <1>8. RangeInv'
    BY <1>1, <1>2, <1>3, Numbers DEF IInv, RangeInv
  <1>9. ItemsInv'
    BY <1>1, <1>2, <1>4 DEF IInv, ItemsInv
  <1>10. ThiefInv'
    <2> SUFFICES ASSUME NEW th \in Thief,
                        thief[th].pc \in {"array", "read", "cas"}, thief[th].t = top
                 PROVE  /\ top < bottom
                        /\ thief[th].pc = "read" =>
                             Slot(thief[th].a, top)' = Slot(Current, top)'
                        /\ thief[th].pc = "cas" => thief[th].item = Slot(Current, top)'
      BY <1>1, <1>2 DEF IInv, ThiefInv
    <2>1. /\ top < bottom
          /\ thief[th].pc = "read" => Slot(thief[th].a, top) = Slot(Current, top)
          /\ thief[th].pc = "cas" => thief[th].item = Slot(Current, top)
      BY <1>2 DEF IInv, ThiefInv
    <2>2. top \in top..(bottom - 1) /\ top \in Int /\ thief[th].a \in 1..Current
      BY <2>1, Numbers DEF IInv, TypeOK
    <2>3. Slot(Current, top)' = Slot(Current, top)
      BY <1>1, <1>4, <2>2
    <2>4. Slot(thief[th].a, top)' = IF thief[th].a = Current THEN Slot(Current, top)'
                                    ELSE Slot(thief[th].a, top)
      BY <1>1, <1>3, <2>2
    <2>5. QED
      BY <2>1, <2>3, <2>4
  <1>11. QED
    BY <1>3, <1>6, <1>7, <1>8, <1>9, <1>10 DEF IInv, ArraysOK

\* A step of the owner that leaves the arrays and the pushed items alone
LEMMA OwnerTyped ==
  ASSUME IInv, UNCHANGED <<arrays, thief, pushed>>,
         owner' \in [pc : OwnerPC, b : -1..MaxPush, item : Item \cup {None}],
         top' \in 0..MaxPush, bottom' \in (top' - 1)..MaxPush,
         taken' \subseteq 1..pushed
  PROVE  TypeOK'
  <1>1. ArraysOK' /\ Current' = Current
    BY OwnerArrays, SameArrays DEF IInv
  <1>2. QED
    BY <1>1 DEF IInv, TypeOK, ArraysOK, Content

LEMMA IdleTyped ==
  ASSUME IInv
  PROVE  OwnerIdle \in [pc : OwnerPC, b : -1..MaxPush, item : Item \cup {None}]
  BY Numbers DEF OwnerIdle, OwnerPC

LEMMA PublishInv == IInv /\ Publish => IInv'
  <1> SUFFICES ASSUME IInv, Publish PROVE IInv'
    OBVIOUS
  <1>1. /\ owner.pc = "publish" /\ owner' = OwnerIdle /\ owner'.pc = "idle"
        /\ UNCHANGED <<top, arrays, thief, pushed, taken>>
        /\ bottom' = bottom + 1 /\ bottom < pushed /\ bottom - top < Cap(Current)
        /\ Slot(Current, bottom) = pushed
    BY DEF Publish, IInv, OwnerInv, OwnerIdle, Pushing
  <1>2. Limit = bottom /\ Limit' = bottom + 1 /\ Pushing /\ ~Pushing'
    BY <1>1 DEF Limit, Pushing
  <1>3. Entered = 1..(pushed - 1) /\ Entered' = 1..pushed
    BY <1>1, <1>2 DEF Entered
  <1>4. TypeOK'
    <2>1. bottom' \in (top' - 1)..MaxPush
      BY <1>1, Numbers DEF IInv, TypeOK
    <2>2. QED
      BY <1>1, <2>1, IdleTyped, OwnerTyped DEF IInv, TypeOK
  <1>5. OwnerInv'
    BY <1>1, <1>2 DEF OwnerInv
  <1>6. RangeInv'
    BY <1>1, <1>2, SameArrays, Numbers DEF IInv, RangeInv
  <1>7. ItemsInv'
    <2>1. ASSUME NEW i \in top..bottom
          PROVE  Slot(Current, i) \in 1..pushed \ taken
      BY <1>1, <1>2, <1>3, Numbers DEF IInv, ItemsInv
    <2>2. ASSUME NEW i \in top..bottom, NEW j \in top..bottom, i # j
          PROVE  Slot(Current, i) # Slot(Current, j)
      <3>1. CASE i = bottom
        BY <1>1, <1>2, <1>3, <3>1, <2>2, Numbers DEF IInv, ItemsInv
      <3>2. CASE j = bottom
        BY <1>1, <1>2, <1>3, <3>2, <2>2, Numbers DEF IInv, ItemsInv
      <3>3. CASE i # bottom /\ j # bottom
        BY <1>1, <1>2, <3>3, <2>2, Numbers DEF IInv, ItemsInv
      <3>4. QED
        BY <3>1, <3>2, <3>3
    <2>3. taken \subseteq 1..pushed
      BY <1>3, Numbers DEF IInv, ItemsInv
    <2>4. (Limit - 1)' = bottom
      BY <1>2, Numbers
    <2>5. QED
      BY <1>1, <1>3, <2>1, <2>2, <2>3, <2>4, SameArrays DEF IInv, ItemsInv
  <1>8. ThiefInv'
    BY <1>1, <1>2, SameArrays, Numbers DEF IInv, ThiefInv
  <1>9. QED
    BY <1>1, <1>4, <1>5, <1>6, <1>7, <1>8, OwnerArrays DEF IInv, ArraysOK

LEMMA PopBeginInv == IInv /\ PopBegin => IInv'
  <1> SUFFICES ASSUME IInv, PopBegin PROVE IInv'
    OBVIOUS
  <1>1. /\ owner.pc = "idle" /\ owner'.pc = "top" /\ owner'.b = bottom - 1
        /\ UNCHANGED <<top, arrays, thief, pushed, taken>>
        /\ bottom' = bottom - 1
        /\ owner' = [pc |-> "top", b |-> bottom - 1, item |-> None]
    BY DEF PopBegin
  <1>2. Limit = bottom /\ Limit' = bottom /\ ~Pushing /\ ~Pushing' /\ Entered' = Entered
    BY <1>1, Numbers DEF Limit, Pushing, Entered
  <1>3. top <= bottom /\ bottom <= MaxPush
    BY <1>2, Numbers DEF IInv, RangeInv
  <1>4. TypeOK'
    BY <1>1, <1>3, OwnerTyped, Numbers DEF IInv, TypeOK, OwnerPC
  <1>5. OwnerInv'
    BY <1>1, <1>2 DEF OwnerInv
  <1>6. RangeInv'
    BY <1>1, <1>2, SameArrays DEF IInv, RangeInv
  <1>7. ItemsInv'
    BY <1>1, <1>2, SameArrays DEF IInv, ItemsInv
  <1>8. ThiefInv'
    BY <1>1, <1>2, SameArrays DEF IInv, ThiefInv
  <1>9. QED
    BY <1>1, <1>4, <1>5, <1>6, <1>7, <1>8, OwnerArrays DEF IInv, ArraysOK

LEMMA PopTopInv == IInv /\ PopTop => IInv'
  <1> SUFFICES ASSUME IInv, PopTop PROVE IInv'
    OBVIOUS
  <1>1. /\ owner.pc = "top" /\ owner.b = bottom
        /\ UNCHANGED <<top, bottom, arrays, thief, pushed>>
        /\ Popping /\ Limit = bottom + 1 /\ ~Pushing
    BY Numbers DEF PopTop, IInv, OwnerInv, Popping, Pushing
  <1>2. top <= bottom + 1 /\ bottom + 1 <= MaxPush
    BY <1>1, Numbers DEF IInv, RangeInv
  <1>3. CASE top < bottom /\ OwnerTakes
    <2>1. /\ owner' = OwnerIdle /\ owner'.pc = "idle"
          /\ taken' = taken \cup {Slot(Current, bottom)}
          /\ Limit' = bottom /\ ~Pushing' /\ Entered' = Entered
      BY <1>1, <1>3 DEF OwnerTakes, OwnerIdle, Limit, Pushing, Entered
    <2>2. bottom \in top..(Limit - 1) /\ Slot(Current, bottom) \in Entered
      BY <1>1, <1>3, Numbers DEF IInv, ItemsInv
    <2>3. Entered = 1..pushed
      BY <1>1 DEF Entered
    <2>4. TypeOK'
      BY <1>1, <2>1, <2>2, <2>3, IdleTyped, OwnerTyped DEF IInv, TypeOK
    <2>5. OwnerInv'
      BY <2>1 DEF OwnerInv
    <2>6. RangeInv'
      BY <1>1, <1>2, <1>3, <2>1, SameArrays, Numbers DEF IInv, RangeInv
    <2>7. ItemsInv'
      <3>1. ASSUME NEW i \in top..(bottom - 1)
            PROVE  /\ i \in top..(Limit - 1)
                   /\ Slot(Current, i) # Slot(Current, bottom)
                   /\ Slot(Current, i) \in Entered \ taken
        BY <1>1, <2>2, Numbers DEF IInv, ItemsInv
      <3>2. taken' \subseteq Entered
        BY <2>1, <2>2 DEF IInv, ItemsInv
      <3>3. QED
        BY <1>1, <2>1, <3>1, <3>2, SameArrays DEF IInv, ItemsInv
    <2>8. ThiefInv'
      BY <1>1, <1>3, <2>1, SameArrays DEF IInv, ThiefInv
    <2>9. QED
      BY <1>1, <2>4, <2>5, <2>6, <2>7, <2>8, OwnerArrays DEF IInv, ArraysOK
  <1>4. ASSUME NEW to \in {"cas", "restore"}, OwnerGoes(to),
               to = "cas" => bottom <= top,
               to = "restore" => top = bottom + 1
        PROVE  IInv'
    <2>1. /\ owner' = [owner EXCEPT !.pc = to] /\ taken' = taken
          /\ owner'.pc = to /\ owner'.b = bottom
          /\ Limit' = bottom + 1 /\ ~Pushing' /\ Entered' = Entered
      BY <1>1, <1>4 DEF OwnerGoes, Limit, Pushing, Entered, IInv, TypeOK
    <2>2. owner' \in [pc : OwnerPC, b : -1..MaxPush, item : Item \cup {None}]
      BY <1>4, <2>1 DEF IInv, TypeOK, OwnerPC
    <2>3. TypeOK'
      BY <1>1, <2>1, <2>2, OwnerTyped DEF IInv, TypeOK
    <2>4. OwnerInv'
      BY <1>1, <1>4, <2>1 DEF OwnerInv
    <2>5. RangeInv'
      BY <1>1, <2>1, SameArrays DEF IInv, RangeInv
    <2>6. ItemsInv'
      BY <1>1, <2>1, SameArrays DEF IInv, ItemsInv
    <2>7. ThiefInv'
      BY <1>1, <2>1, SameArrays DEF IInv, ThiefInv
    <2>8. QED
      BY <1>1, <2>3, <2>4, <2>5, <2>6, <2>7, OwnerArrays DEF IInv, ArraysOK
  <1>5. CASE top = bottom /\ OwnerGoes("cas")
    BY <1>4, <1>5, Numbers
  <1>6. CASE top > bottom /\ OwnerGoes("restore")
    BY <1>2, <1>4, <1>6, Numbers
  <1>7. QED
    BY <1>1, <1>3, <1>5, <1>6 DEF PopTop

LEMMA PopCasInv == IInv /\ PopCas => IInv'
  <1> SUFFICES ASSUME IInv, PopCas PROVE IInv'
    OBVIOUS
  <1>1. /\ owner.pc = "cas" /\ owner.b = bottom /\ bottom <= top
        /\ UNCHANGED <<bottom, arrays, thief, pushed>>
        /\ owner' = [owner EXCEPT !.pc = "restore"]
        /\ owner'.pc = "restore" /\ owner'.b = bottom
        /\ Limit = bottom + 1 /\ Limit' = bottom + 1
        /\ ~Pushing /\ ~Pushing' /\ Entered' = Entered /\ Entered = 1..pushed
    BY DEF PopCas, IInv, OwnerInv, TypeOK, Limit, Pushing, Entered
  <1>2. top <= bottom + 1 /\ bottom + 1 <= MaxPush
    BY <1>1, Numbers DEF IInv, RangeInv
  <1>3. owner' \in [pc : OwnerPC, b : -1..MaxPush, item : Item \cup {None}]
    BY <1>1 DEF IInv, TypeOK, OwnerPC
  <1>4. CASE top = bottom
    <2>1. top' = bottom + 1 /\ taken' = taken \cup {Slot(Current, bottom)}
      BY <1>1, <1>4 DEF PopCas
    <2>2. bottom \in top..(Limit - 1) /\ Slot(Current, bottom) \in Entered
      BY <1>1, <1>4, Numbers DEF IInv, ItemsInv
    <2>3. TypeOK'
      <3>1. /\ top' \in 0..MaxPush /\ bottom' \in (top' - 1)..MaxPush
            /\ taken' \subseteq 1..pushed
        BY <1>1, <1>2, <1>4, <2>1, <2>2, Numbers DEF IInv, TypeOK
      <3>2. QED
        BY <1>1, <1>3, <3>1, OwnerTyped
    <2>4. OwnerInv'
      BY <1>1, <2>1 DEF OwnerInv
    <2>5. RangeInv'
      BY <1>1, <1>4, <2>1, SameArrays, Numbers DEF IInv, RangeInv
    <2>6. ItemsInv'
      <3>1. top'..(Limit' - 1) = {}
        BY <1>1, <2>1, Numbers
      <3>2. taken' \subseteq Entered
        BY <2>1, <2>2 DEF IInv, ItemsInv
      <3>3. QED
        BY <1>1, <3>1, <3>2 DEF ItemsInv
    <2>7. ThiefInv'
      <3>1. \A th \in Thief : thief[th].t \in Int
        BY DEF IInv, TypeOK
      <3>2. QED
        BY <1>1, <1>4, <2>1, <3>1, Numbers DEF IInv, ThiefInv
    <2>8. QED
      BY <1>1, <2>3, <2>4, <2>5, <2>6, <2>7, OwnerArrays DEF IInv, ArraysOK
  <1>5. CASE top # bottom
    <2>1. top' = top /\ taken' = taken /\ top = bottom + 1
      BY <1>1, <1>2, <1>5, Numbers DEF PopCas
    <2>2. TypeOK'
      BY <1>1, <1>3, <2>1, OwnerTyped DEF IInv, TypeOK
    <2>3. OwnerInv'
      BY <1>1, <2>1 DEF OwnerInv
    <2>4. RangeInv'
      BY <1>1, <2>1, SameArrays DEF IInv, RangeInv
    <2>5. ItemsInv'
      BY <1>1, <2>1, SameArrays DEF IInv, ItemsInv
    <2>6. ThiefInv'
      BY <1>1, <2>1, SameArrays DEF IInv, ThiefInv
    <2>7. QED
      BY <1>1, <2>2, <2>3, <2>4, <2>5, <2>6, OwnerArrays DEF IInv, ArraysOK
  <1>6. QED
    BY <1>4, <1>5

LEMMA PopRestoreInv == IInv /\ PopRestore => IInv'
  <1> SUFFICES ASSUME IInv, PopRestore PROVE IInv'
    OBVIOUS
  <1>1. /\ owner.pc = "restore" /\ owner.b = bottom
        /\ UNCHANGED <<top, arrays, thief, pushed, taken>>
        /\ bottom' = bottom + 1 /\ owner' = OwnerIdle /\ owner'.pc = "idle"
        /\ Limit = bottom + 1 /\ Limit' = bottom + 1
        /\ ~Pushing /\ ~Pushing' /\ Entered' = Entered
    BY DEF PopRestore, IInv, OwnerInv, OwnerIdle, Limit, Pushing, Entered
  <1>2. bottom + 1 <= MaxPush
    BY <1>1, Numbers DEF IInv, RangeInv
  <1>3. TypeOK'
    <2>1. bottom' \in (top' - 1)..MaxPush
      BY <1>1, <1>2, Numbers DEF IInv, TypeOK
    <2>2. QED
      BY <1>1, <2>1, IdleTyped, OwnerTyped DEF IInv, TypeOK
  <1>4. OwnerInv'
    BY <1>1 DEF OwnerInv
  <1>5. RangeInv'
    BY <1>1, SameArrays DEF IInv, RangeInv
  <1>6. ItemsInv'
    BY <1>1, SameArrays DEF IInv, ItemsInv
  <1>7. ThiefInv'
    BY <1>1, SameArrays DEF IInv, ThiefInv
  <1>8. QED
    BY <1>1, <1>3, <1>4, <1>5, <1>6, <1>7, OwnerArrays DEF IInv, ArraysOK
-----------------------------------------------------------------------------
(***************************************************************************)
(* The steps of a thief.                                                   *)
(***************************************************************************)

\* All but the last step of a thief change only what it knows.
LEMMA ThiefLooks ==
  ASSUME IInv, UNCHANGED <<top, bottom, arrays, owner, pushed, taken>>,
         thief' \in [Thief -> [pc : ThiefPC, t : 0..MaxPush, a : 1..Current,
                               item : Item \cup {None}]],
         ThiefInv'
  PROVE  IInv'
  <1>1. Limit' = Limit /\ Entered' = Entered /\ Pushing' = Pushing
    BY DEF Limit, Entered, Pushing
  <1>2. ArraysOK' /\ Current' = Current
    BY SameArrays DEF IInv
  <1>3. TypeOK'
    BY <1>2 DEF IInv, TypeOK, ArraysOK, Content
  <1>4. OwnerInv'
    BY <1>1, SameArrays DEF IInv, OwnerInv
  <1>5. RangeInv' /\ ItemsInv'
    BY <1>1, SameArrays DEF IInv, RangeInv, ItemsInv
  <1>6. QED
    BY <1>2, <1>3, <1>4, <1>5 DEF IInv, ArraysOK

LEMMA ThiefIdleTyped ==
  ASSUME IInv
  PROVE  ThiefIdle \in [pc : ThiefPC, t : 0..MaxPush, a : 1..Current, item : Item \cup {None}]
  BY Numbers, ArraysTyped DEF IInv, ThiefIdle, ThiefPC

LEMMA StealInv == ASSUME NEW th \in Thief PROVE IInv /\ Steal(th) => IInv'
  <1> SUFFICES ASSUME IInv, Steal(th) PROVE IInv'
    OBVIOUS
  <1> DEFINE Locals == [pc : ThiefPC, t : 0..MaxPush, a : 1..Current, item : Item \cup {None}]
  <1>1. thief \in [Thief -> Locals] /\ top \in 0..MaxPush /\ ThiefIdle \in Locals
        /\ ThiefIdle.pc = "idle"
    BY ThiefIdleTyped DEF IInv, TypeOK, ThiefIdle
  \* th goes on to the locals l, and the others stay where they are.
  <1>2. ASSUME NEW l \in Locals, thief' = [thief EXCEPT ![th] = l],
               UNCHANGED <<top, bottom, arrays, owner, pushed, taken>>,
               l.pc # "idle" => l.t <= top,
               l.pc \in {"array", "read", "cas"} /\ l.t = top =>
                 /\ top < Limit
                 /\ l.pc = "read" => Slot(l.a, top) = Slot(Current, top)
                 /\ l.pc = "cas" => l.item = Slot(Current, top)
        PROVE  IInv'
    <2>1. thief' \in [Thief -> Locals]
      BY <1>1, <1>2
    <2>2. Limit' = Limit
      BY <1>2 DEF Limit
    <2>3. \A u \in Thief : thief'[u] = IF u = th THEN l ELSE thief[u]
      BY <1>1, <1>2
    <2> HIDE DEF Locals
    <2>4. ThiefInv'
      BY <1>2, <2>2, <2>3, SameArrays DEF IInv, ThiefInv
    <2> USE DEF Locals
    <2>5. QED
      BY <1>2, <2>1, <2>4, ThiefLooks
  <1>3. CASE StealTop(th)
    <2> DEFINE l == [thief[th] EXCEPT !.pc = "bottom", !.t = top]
    <2>1. l \in Locals /\ l.pc = "bottom" /\ l.t = top
      BY <1>1 DEF ThiefPC
    <2>2. thief' = [thief EXCEPT ![th] = l]
      BY <1>3, <1>1 DEF StealTop
    <2> HIDE DEF l
    <2>3. top <= top
      BY Numbers
    <2>4. QED
      BY <1>2, <1>3, <2>1, <2>2, <2>3 DEF StealTop
  <1>4. CASE StealBottom(th)
    <2>1. thief[th].pc = "bottom" /\ thief[th].t <= top
      BY <1>4 DEF StealBottom, IInv, ThiefInv
    <2>2. CASE thief[th].t < bottom
      <3> DEFINE l == [thief[th] EXCEPT !.pc = "array"]
      <3>1. l \in Locals /\ l.pc = "array" /\ l.t = thief[th].t
        BY <1>1 DEF ThiefPC
      <3>2. thief' = [thief EXCEPT ![th] = l]
        BY <1>4, <2>2 DEF StealBottom
      <3>3. bottom <= Limit /\ Limit \in Int
        BY Numbers
      <3>4. l.t = top => top < Limit
        BY <2>2, <3>1, <3>3, Numbers
      <3>5. QED
        BY <1>2, <1>4, <2>1, <3>1, <3>2, <3>4 DEF StealBottom
    <2>3. CASE ~(thief[th].t < bottom)
      <3>1. thief' = [thief EXCEPT ![th] = ThiefIdle]
        BY <1>4, <2>3 DEF StealBottom
      <3>2. QED
        BY <1>1, <1>2, <1>4, <3>1 DEF StealBottom
    <2>4. QED
      BY <2>2, <2>3
  <1>5. CASE StealArray(th)
    <2> DEFINE l == [thief[th] EXCEPT !.pc = "read", !.a = Current]
    <2>0. Current \in 1..Current
      BY ArraysTyped DEF IInv
    <2>1. l \in Locals /\ l.pc = "read" /\ l.t = thief[th].t /\ l.a = Current
      BY <1>1, <2>0 DEF ThiefPC
    <2>2. thief' = [thief EXCEPT ![th] = l]
      BY <1>5, <1>1 DEF StealArray
    <2>3. thief[th].t <= top /\ (thief[th].t = top => top < Limit)
      BY <1>5 DEF StealArray, IInv, ThiefInv
    <2>4. QED
      BY <1>2, <1>5, <2>1, <2>2, <2>3 DEF StealArray
  <1>6. CASE StealRead(th)
    <2> DEFINE x == Slot(thief[th].a, thief[th].t)
               l == [thief[th] EXCEPT !.pc = "cas", !.item = x]
    <2>1. x \in Item \cup {None}
      BY <1>1, ArraysTyped DEF IInv, Content
    <2> HIDE DEF x
    <2>2. l \in Locals /\ l.pc = "cas" /\ l.t = thief[th].t /\ l.item = x
      BY <1>1, <2>1 DEF ThiefPC
    <2>3. thief' = [thief EXCEPT ![th] = l]
      BY <1>6, <1>1 DEF StealRead, x
    <2>4. /\ thief[th].t <= top
          /\ thief[th].t = top => top < Limit /\ x = Slot(Current, top)
      BY <1>6 DEF StealRead, IInv, ThiefInv, x
    <2>5. QED
      BY <1>2, <1>6, <2>2, <2>3, <2>4 DEF StealRead
  <1>7. CASE StealCas(th) /\ top # thief[th].t
    <2>1. thief' = [thief EXCEPT ![th] = ThiefIdle]
      BY <1>7 DEF StealCas
    <2>2. QED
      BY <1>1, <1>2, <1>7, <2>1 DEF StealCas
  <1>8. CASE StealCas(th) /\ top = thief[th].t
    <2>1. /\ thief[th].pc = "cas" /\ top < Limit /\ thief[th].item = Slot(Current, top)
          /\ top' = top + 1 /\ taken' = taken \cup {Slot(Current, top)}
          /\ thief' = [thief EXCEPT ![th] = ThiefIdle]
          /\ UNCHANGED <<bottom, arrays, owner, pushed>>
      BY <1>8 DEF StealCas, IInv, ThiefInv
    <2>2. Limit' = Limit /\ Entered' = Entered /\ Pushing' = Pushing
      BY <2>1 DEF Limit, Entered, Pushing
    <2>3. /\ Limit \in Int /\ Limit <= MaxPush /\ Limit <= bottom + 1
      BY Numbers DEF IInv, RangeInv
    <2>4. top \in top..(Limit - 1) /\ Slot(Current, top) \in Entered
      BY <2>1, <2>3, Numbers DEF IInv, ItemsInv
    <2>5. TypeOK'
      <3>1. top' \in 0..MaxPush /\ bottom' \in (top' - 1)..MaxPush
        BY <2>1, <2>3, Numbers DEF IInv, TypeOK
      <3>0. Entered \subseteq 1..pushed
        BY Numbers DEF Entered
      <3>2. taken' \subseteq 1..pushed
        BY <2>1, <2>4, <3>0 DEF IInv, TypeOK
      <3>3. ArraysOK' /\ Current' = Current
        BY <2>1, SameArrays DEF IInv
      <3>4. thief' \in [Thief -> Locals]
        BY <1>1, <2>1
      <3>5. QED
        BY <2>1, <3>1, <3>2, <3>3, <3>4 DEF IInv, TypeOK, ArraysOK, Content
    <2>6. OwnerInv'
      <3>1. owner.pc = "restore" => FALSE
        BY <2>1, <2>3, Numbers DEF IInv, OwnerInv, Popping
      <3>2. QED
        BY <2>1, <2>2, <3>1, SameArrays, Numbers DEF IInv, OwnerInv
    <2>7. RangeInv'
      BY <2>1, <2>2, <2>3, SameArrays, Numbers DEF IInv, RangeInv
    <2>8. ItemsInv'
      <3>1. ASSUME NEW i \in (top + 1)..(Limit - 1)
            PROVE  /\ i \in top..(Limit - 1)
                   /\ Slot(Current, i) # Slot(Current, top)
                   /\ Slot(Current, i) \in Entered \ taken
        BY <2>3, <2>4, Numbers DEF IInv, ItemsInv
      <3>2. taken' \subseteq Entered
        BY <2>1, <2>4 DEF IInv, ItemsInv
      <3>3. QED
        BY <2>1, <2>2, <3>1, <3>2, SameArrays DEF IInv, ItemsInv
    <2>9. ThiefInv'
      <3>1. \A u \in Thief : thief'[u] = IF u = th THEN ThiefIdle ELSE thief[u]
        BY <1>1, <2>1
      <3>2. \A u \in Thief : thief[u].t \in Int
        BY <1>1
      <3>3. QED
        BY <1>1, <2>1, <3>1, <3>2, Numbers DEF IInv, ThiefInv
    <2>10. QED
      BY <2>1, <2>5, <2>6, <2>7, <2>8, <2>9, OwnerArrays DEF IInv, ArraysOK
  <1>9. QED
    BY <1>3, <1>4, <1>5, <1>6, <1>7, <1>8 DEF Steal
-----------------------------------------------------------------------------
(***************************************************************************)
(* The invariant, and what follows from it.                                *)
(***************************************************************************)

LEMMA InitInv == Init => IInv
  <1> SUFFICES ASSUME Init PROVE IInv
    OBVIOUS
  <1> DEFINE a == [i \in 0..(Capacity - 1) |-> None]
  <1>1. /\ top = 0 /\ bottom = 0 /\ arrays = <<a>> /\ owner = OwnerIdle /\ owner.pc = "idle"
        /\ thief = [th \in Thief |-> ThiefIdle] /\ pushed = 0 /\ taken = {}
        /\ MaxPush \in Nat /\ Capacity \in Nat \ {0}
    BY WorkStealingQueueAssumption DEF Init, OwnerIdle
  <1>2. a \in [0..(Capacity - 1) -> Content]
    BY DEF Content
  <1>3. Cardinality(DOMAIN a) = Capacity
    BY <1>1, <1>2, CapIs
  <1> HIDE DEF a
  <1>4. /\ Current = 1 /\ arrays[1] = a /\ arrays # <<>> /\ arrays \in Seq({a})
        /\ DOMAIN arrays = {1}
    BY <1>1 DEF Current
  <1>5. Cap(1) = Capacity
    BY <1>3, <1>4 DEF Cap
  <1>6. ArraysOK
    <2>1. arrays \in Seq({arrays[k] : k \in DOMAIN arrays})
      BY <1>4, OwnElements
    <2>2. QED
      BY <1>1, <1>2, <1>4, <1>5, <2>1 DEF ArraysOK, ArraysInv
  <1>7. TypeOK
    <2>1. owner \in [pc : OwnerPC, b : -1..MaxPush, item : Item \cup {None}]
      BY <1>1 DEF OwnerIdle, OwnerPC
    <2>2. thief \in [Thief -> [pc : ThiefPC, t : 0..MaxPush, a : 1..Current,
                               item : Item \cup {None}]]
      BY <1>1, <1>4 DEF ThiefIdle, ThiefPC
    <2>3. QED
      BY <1>1, <1>6, <2>1, <2>2 DEF TypeOK, ArraysOK, Content
  <1>8. Limit = 0 /\ ~Pushing
    BY <1>1 DEF Limit, Pushing
  <1>9. OwnerInv /\ RangeInv
    BY <1>1, <1>4, <1>5, <1>8 DEF OwnerInv, RangeInv
  <1>10. ItemsInv /\ ThiefInv
    BY <1>1, <1>8 DEF ItemsInv, ThiefInv, ThiefIdle
  <1>11. QED
    BY <1>6, <1>7, <1>9, <1>10 DEF IInv, ArraysOK

LEMMA NextInv == IInv /\ [Next]_vars => IInv'
  <1> SUFFICES ASSUME IInv, [Next]_vars PROVE IInv'
    OBVIOUS
  <1>1. CASE PushStep
    BY <1>1, PushBeginInv, ResizeInv, WriteInv, PublishInv DEF PushStep
  <1>2. CASE PopStep
    BY <1>2, PopBeginInv, PopTopInv, PopCasInv, PopRestoreInv DEF PopStep
  <1>3. CASE \E th \in Thief : Steal(th)
    BY <1>3, StealInv
  <1>4. CASE UNCHANGED vars
    <2>1. thief' \in [Thief -> [pc : ThiefPC, t : 0..MaxPush, a : 1..Current,
                                item : Item \cup {None}]]
      BY <1>4 DEF IInv, TypeOK, vars
    <2>2. ThiefInv'
      <3>1. Limit' = Limit
        BY <1>4 DEF vars, Limit
      <3>2. QED
        BY <1>4, <3>1, SameArrays DEF IInv, ThiefInv, vars
    <2>3. QED
      BY <1>4, <2>1, <2>2, ThiefLooks DEF vars
  <1>5. QED
    BY <1>1, <1>2, <1>3, <1>4 DEF Next

\* The invariant that the theorems below rest on.
THEOREM Invariance == Spec => []IInv
  BY InitInv, NextInv, PTL DEF Spec

\* Everything keeps its type: in particular the capacities double, and neither
\* end of the queue runs away from the other.
THEOREM TypeCorrect == Spec => []TypeOK
  <1>1. IInv => TypeOK
    BY DEF IInv
  <1>2. QED
    BY <1>1, Invariance, PTL

\* A thief that is going to win has copied the item at the top, for whatever
\* number of thieves and items.
THEOREM ThievesCopyFresh == Spec => []CopiesAreFresh
  <1>1. IInv => CopiesAreFresh
    BY DEF IInv, ThiefInv, CopiesAreFresh
  <1>2. QED
    BY <1>1, Invariance, PTL
-----------------------------------------------------------------------------
(***************************************************************************)
(* The queue implements WorkBag.                                           *)
(***************************************************************************)

\* What the bag holds.
Items == {Slot(Current, i) : i \in top..(Limit - 1)}

LEMMA SameItems ==
  ASSUME top' = top, Limit' = Limit, UNCHANGED taken,
         \A i \in top..(Limit - 1) : Slot(Current, i)' = Slot(Current, i)
  PROVE  UNCHANGED <<Items, taken>>
  BY DEF Items

\* Only the last step of push puts an item in: the number of the push, which
\* no item had before.
LEMMA PushImplements ==
  ASSUME IInv, PushStep
  PROVE  UNCHANGED <<Items, taken>> \/ \E x \in Item : Bag!Put(x)
  <1>1. CASE PushBegin
    <2>1. Limit' = Limit /\ UNCHANGED <<top, arrays, taken>>
      BY <1>1 DEF PushBegin, Limit
    <2>2. QED
      BY <2>1, SameArrays, SameItems DEF IInv
  <1>2. CASE Resize
    <2>1. /\ owner.b = bottom /\ Limit = bottom /\ Limit' = bottom
          /\ UNCHANGED <<top, taken>>
      BY <1>2 DEF Resize, Limit, IInv, OwnerInv, TypeOK
    <2>2. \A i \in top..(bottom - 1) : Slot(Current, i)' = Slot(Current, i)
      BY <1>2, <2>1, ResizeEffect, Numbers DEF IInv, RangeInv
    <2>3. QED
      BY <2>1, <2>2, SameItems
  <1>3. CASE Write
    <2>1. /\ owner.b = bottom /\ Limit = bottom /\ Limit' = bottom
          /\ bottom - top < Cap(Current) /\ UNCHANGED <<top, taken>>
      BY <1>3 DEF Write, Limit, IInv, OwnerInv, TypeOK
    <2>2. ASSUME NEW i \in top..(bottom - 1)
          PROVE  Slot(Current, i)' = Slot(Current, i)
      <3>1. i \in Int /\ i < bottom /\ bottom < i + Cap(Current)
        BY <2>1, Numbers
      <3>2. i % Cap(Current) # bottom % Cap(Current)
        BY <3>1, NoAlias, Numbers
      <3>3. QED
        BY <1>3, <2>1, <3>1, <3>2, WriteEffect, ArraysTyped, Numbers DEF IInv
    <2>3. QED
      BY <2>1, <2>2, SameItems
  <1>4. CASE Publish
    <2>1. /\ owner.pc = "publish" /\ owner.b = bottom /\ Slot(Current, bottom) = pushed
          /\ Limit = bottom /\ Limit' = bottom + 1 /\ bottom < pushed
          /\ UNCHANGED <<top, arrays, taken>> /\ Entered = 1..(pushed - 1)
          /\ top <= bottom
      BY <1>4 DEF Publish, Limit, IInv, OwnerInv, OwnerIdle, Entered, Pushing, RangeInv
    <2>2. Items' = {Slot(Current, i) : i \in top..bottom}
      <3>1. (Limit - 1)' = bottom
        BY <2>1, Numbers
      <3>2. QED
        BY <2>1, <3>1, SameArrays DEF Items, IInv
    <2>3. Items' = Items \cup {pushed}
      <3>1. \A i : i \in top..bottom <=> i \in top..(bottom - 1) \/ i = bottom
        BY <2>1, Numbers
      <3>2. QED
        BY <2>1, <2>2, <3>1 DEF Items
    <2>4. Items \subseteq 1..(pushed - 1) /\ taken \subseteq 1..(pushed - 1)
      BY <2>1 DEF IInv, ItemsInv, Items
    <2>5. pushed \notin Items \cup taken /\ pushed \in Item
      <3>1. pushed \notin 1..(pushed - 1)
        BY Numbers
      <3>2. pushed \in Item
        BY <2>1, Numbers DEF IInv, TypeOK, Item, RangeInv
      <3>3. QED
        BY <2>4, <3>1, <3>2
    <2>6. Bag!Put(pushed)
      BY <2>1, <2>3, <2>5 DEF Bag!Put, Items
    <2>7. QED
      BY <2>5, <2>6
  <1>5. QED
    BY <1>1, <1>2, <1>3, <1>4 DEF PushStep

\* To take the item at one end is to take it out of the bag.
LEMMA TakeAt ==
  ASSUME IInv, NEW k \in Int, k \in top..(Limit - 1),
         top'..(Limit - 1)' = (top..(Limit - 1)) \ {k},
         UNCHANGED arrays, taken' = taken \cup {Slot(Current, k)}
  PROVE  \E x \in Item : Bag!Take(x)
  <1> DEFINE x == Slot(Current, k)
  <1>1. x \in Items /\ x \in Item
    <2>1. x \in Entered
      BY DEF IInv, ItemsInv
    <2>2. Entered \subseteq Item
      BY Numbers DEF Entered, Item
    <2>3. QED
      BY <2>1, <2>2 DEF Items
  <1>2. Items' = {Slot(Current, i) : i \in (top..(Limit - 1)) \ {k}}
    BY SameArrays DEF Items, IInv
  <1>3. \A i \in (top..(Limit - 1)) \ {k} : Slot(Current, i) # x
    BY DEF IInv, ItemsInv
  <1>4. Items' = Items \ {x}
    BY <1>2, <1>3 DEF Items
  <1>5. QED
    BY <1>1, <1>4 DEF Bag!Take, Items

LEMMA PopImplements ==
  ASSUME IInv, PopStep
  PROVE  UNCHANGED <<Items, taken>> \/ \E x \in Item : Bag!Take(x)
  <1>1. UNCHANGED arrays
    BY DEF PopStep, PopBegin, PopTop, PopCas, PopRestore
  <1>2. ASSUME UNCHANGED <<top, taken>>, Limit' = Limit PROVE UNCHANGED <<Items, taken>>
    BY <1>1, <1>2, SameArrays, SameItems DEF IInv
  <1>3. CASE PopBegin
    <2>1. Limit = bottom /\ Limit' = (bottom - 1) + 1
      BY <1>3 DEF PopBegin, Limit
    <2>2. QED
      BY <1>2, <1>3, <2>1, Numbers DEF PopBegin
  <1>4. CASE PopRestore
    BY <1>2, <1>4 DEF PopRestore, Limit, OwnerIdle
  <1>5. CASE PopTop
    <2>1. /\ owner.pc = "top" /\ owner.b = bottom /\ Limit = bottom + 1
          /\ UNCHANGED <<top, bottom>>
      BY <1>5 DEF PopTop, IInv, OwnerInv, Limit
    <2>2. CASE top < bottom /\ OwnerTakes
      <3>1. Limit' = bottom /\ taken' = taken \cup {Slot(Current, bottom)}
        BY <2>1, <2>2 DEF OwnerTakes, OwnerIdle, Limit
      <3>2. /\ bottom \in Int /\ bottom \in top..(Limit - 1)
            /\ top'..(Limit - 1)' = (top..(Limit - 1)) \ {bottom}
        BY <2>1, <2>2, <3>1, Numbers
      <3>3. QED
        BY <1>1, <3>1, <3>2, TakeAt
    <2>3. ASSUME NEW to \in {"cas", "restore"}, OwnerGoes(to)
          PROVE  UNCHANGED <<Items, taken>>
      <3>1. Limit' = owner.b + 1 /\ UNCHANGED taken
        BY <2>1, <2>3 DEF OwnerGoes, Limit, IInv, TypeOK
      <3>2. QED
        BY <1>2, <2>1, <3>1
    <2>4. QED
      BY <1>5, <2>1, <2>2, <2>3 DEF PopTop
  <1>6. CASE PopCas
    <2>1. /\ owner.pc = "cas" /\ owner.b = bottom /\ Limit = bottom + 1
          /\ Limit' = bottom + 1 /\ UNCHANGED bottom
      BY <1>6 DEF PopCas, IInv, OwnerInv, TypeOK, Limit
    <2>2. CASE top = bottom
      <3>1. top' = bottom + 1 /\ taken' = taken \cup {Slot(Current, bottom)}
        BY <1>6, <2>1, <2>2 DEF PopCas
      <3>2. /\ bottom \in Int /\ bottom \in top..(Limit - 1)
            /\ top'..(Limit - 1)' = (top..(Limit - 1)) \ {bottom}
        BY <2>1, <2>2, <3>1, Numbers
      <3>3. QED
        BY <1>1, <3>1, <3>2, TakeAt
    <2>3. CASE top # bottom
      BY <1>2, <1>6, <2>1, <2>3 DEF PopCas
    <2>4. QED
      BY <2>2, <2>3
  <1>7. QED
    BY <1>3, <1>4, <1>5, <1>6 DEF PopStep

LEMMA StealImplements ==
  ASSUME IInv, NEW th \in Thief, Steal(th)
  PROVE  UNCHANGED <<Items, taken>> \/ \E x \in Item : Bag!Take(x)
  <1>1. UNCHANGED <<bottom, arrays, owner>>
    BY DEF Steal, StealTop, StealBottom, StealArray, StealRead, StealCas
  <1>2. Limit' = Limit
    BY <1>1 DEF Limit
  <1>3. CASE UNCHANGED <<top, taken>>
    BY <1>1, <1>2, <1>3, SameArrays, SameItems DEF IInv
  <1>4. CASE StealCas(th) /\ top = thief[th].t
    <2>1. /\ top < Limit /\ top' = top + 1 /\ taken' = taken \cup {Slot(Current, top)}
      BY <1>4 DEF StealCas, IInv, ThiefInv
    <2>2. /\ top \in Int /\ top \in top..(Limit - 1)
          /\ top'..(Limit - 1)' = (top..(Limit - 1)) \ {top}
      BY <1>2, <2>1, Numbers
    <2>3. QED
      BY <1>1, <2>1, <2>2, TakeAt
  <1>5. QED
    BY <1>3, <1>4 DEF Steal, StealTop, StealBottom, StealArray, StealRead, StealCas

\* Every behaviour of the queue is one of the bag: an item is taken at most
\* once, by the owner or a thief, and none disappears.
THEOREM QueueImplementsBag == Spec => ImplementsBag
  <1>1. Init => Bag!Init
    <2> SUFFICES ASSUME Init PROVE Bag!Init
      OBVIOUS
    <2>1. top..(Limit - 1) = {} /\ taken = {}
      BY DEF Init, Limit, OwnerIdle
    <2>2. QED
      BY <2>1 DEF Bag!Init
  <1>2. IInv /\ [Next]_vars => [Bag!Next]_(Bag!vars)
    <2> SUFFICES ASSUME IInv, [Next]_vars
                 PROVE  UNCHANGED <<Items, taken>> \/ Bag!Next
      BY DEF Bag!vars, Items
    <2>1. CASE UNCHANGED vars
      <3>1. Limit' = Limit /\ UNCHANGED <<top, arrays, taken>>
        BY <2>1 DEF vars, Limit
      <3>2. QED
        BY <3>1, SameArrays, SameItems DEF IInv
    <2>2. CASE Next
      BY <2>2, PushImplements, PopImplements, StealImplements DEF Next, Bag!Next
    <2>3. QED
      BY <2>1, <2>2
  <1>3. QED
    BY <1>1, <1>2, Invariance, PTL DEF Spec, ImplementsBag, Bag!Spec
=============================================================================
