-------------------------- MODULE SyncDequeProofs --------------------------
(***************************************************************************)
(* Proofs about SyncDeque.                                                 *)
(***************************************************************************)
EXTENDS SyncDeque, TLAPS

TypeOK == /\ queue \in Seq(Item)
          /\ waiting \subseteq Thread
          /\ woken \subseteq Thread \ waiting
          /\ maxSize \in Nat
          /\ pushed \subseteq Item
          /\ popped \subseteq Item

Elements(q) == {q[i] : i \in DOMAIN q}
Distinct(q) == \A i, j \in DOMAIN q : q[i] = q[j] => i = j

Queued == Elements(queue)

\* Every item that was pushed is in the deque, in one place, or was popped.
NothingLost ==
  /\ pushed = Queued \cup popped
  /\ Queued \cap popped = {}
  /\ Distinct(queue)

IInv == TypeOK /\ LimitHolds /\ NothingLost
-----------------------------------------------------------------------------
LEMMA InsertedBack ==
  ASSUME NEW q \in Seq(Item), NEW x \in Item, x \notin Elements(q), Distinct(q)
  PROVE  /\ Append(q, x) \in Seq(Item) /\ Len(Append(q, x)) = Len(q) + 1
         /\ Elements(Append(q, x)) = Elements(q) \cup {x}
         /\ Distinct(Append(q, x))
  <1> DEFINE r == Append(q, x)
  <1>1. /\ r \in Seq(Item) /\ Len(r) = Len(q) + 1 /\ DOMAIN r = 1..(Len(q) + 1)
        /\ DOMAIN q = 1..Len(q) /\ Len(q) \in Nat
        /\ r[Len(q) + 1] = x /\ \A i \in DOMAIN q : r[i] = q[i]
    OBVIOUS
  <1> HIDE DEF r
  <1>2. DOMAIN r = DOMAIN q \cup {Len(q) + 1} /\ Len(q) + 1 \notin DOMAIN q
    BY <1>1
  <1>3. Elements(r) = Elements(q) \cup {x}
    <2>1. Elements(r) \subseteq Elements(q) \cup {x}
      BY <1>1, <1>2 DEF Elements
    <2>2. Elements(q) \subseteq Elements(r)
      BY <1>1, <1>2 DEF Elements
    <2>3. x \in Elements(r)
      BY <1>1, <1>2 DEF Elements
    <2>4. QED
      BY <2>1, <2>2, <2>3
  <1>4. Distinct(r)
    BY <1>1, <1>2 DEF Distinct, Elements
  <1>5. QED
    BY <1>1, <1>3, <1>4 DEF r

LEMMA InsertedFront ==
  ASSUME NEW q \in Seq(Item), NEW x \in Item, x \notin Elements(q), Distinct(q)
  PROVE  /\ <<x>> \o q \in Seq(Item) /\ Len(<<x>> \o q) = Len(q) + 1
         /\ Elements(<<x>> \o q) = Elements(q) \cup {x}
         /\ Distinct(<<x>> \o q)
  <1> DEFINE r == <<x>> \o q
  <1>1. /\ r \in Seq(Item) /\ Len(r) = Len(q) + 1 /\ DOMAIN r = 1..(Len(q) + 1)
        /\ DOMAIN q = 1..Len(q) /\ Len(q) \in Nat
        /\ r[1] = x /\ \A i \in 2..(Len(q) + 1) : r[i] = q[i - 1]
    OBVIOUS
  <1> HIDE DEF r
  <1>2. /\ \A i \in DOMAIN r : i = 1 \/ (i - 1 \in DOMAIN q /\ r[i] = q[i - 1])
        /\ \A i \in DOMAIN q : i + 1 \in DOMAIN r /\ r[i + 1] = q[i]
        /\ 1 \in DOMAIN r
    BY <1>1
  <1>3. Elements(r) = Elements(q) \cup {x}
    <2>1. Elements(r) \subseteq Elements(q) \cup {x}
      BY <1>1, <1>2 DEF Elements
    <2>2. Elements(q) \subseteq Elements(r)
      BY <1>2 DEF Elements
    <2>3. x \in Elements(r)
      BY <1>1, <1>2 DEF Elements
    <2>4. QED
      BY <2>1, <2>2, <2>3
  <1>4. Distinct(r)
    BY <1>1, <1>2 DEF Distinct, Elements
  <1>5. QED
    BY <1>1, <1>3, <1>4 DEF r

LEMMA Popped ==
  ASSUME NEW q \in Seq(Item), q # <<>>, Distinct(q)
  PROVE  /\ Tail(q) \in Seq(Item) /\ Len(Tail(q)) = Len(q) - 1 /\ Head(q) \in Item
         /\ Elements(q) = Elements(Tail(q)) \cup {Head(q)}
         /\ Head(q) \notin Elements(Tail(q))
         /\ Distinct(Tail(q))
  <1> DEFINE r == Tail(q)
  <1>1. /\ r \in Seq(Item) /\ Len(r) = Len(q) - 1 /\ DOMAIN r = 1..(Len(q) - 1)
        /\ Head(q) = q[1] /\ Head(q) \in Item /\ Len(q) > 0 /\ Len(q) \in Nat
        /\ DOMAIN q = 1..Len(q)
        /\ \A i \in 1..(Len(q) - 1) : r[i] = q[i + 1]
    OBVIOUS
  <1> HIDE DEF r
  <1>2. /\ \A i \in DOMAIN q : i = 1 \/ (i - 1 \in DOMAIN r /\ q[i] = r[i - 1])
        /\ \A i \in DOMAIN r : i + 1 \in DOMAIN q /\ i + 1 # 1 /\ r[i] = q[i + 1]
        /\ 1 \in DOMAIN q
    BY <1>1
  <1>3. Head(q) \notin Elements(r)
    BY <1>1, <1>2 DEF Elements, Distinct
  <1>4. Elements(q) = Elements(r) \cup {Head(q)}
    <2>1. Elements(q) \subseteq Elements(r) \cup {Head(q)}
      BY <1>1, <1>2 DEF Elements
    <2>2. Elements(r) \subseteq Elements(q)
      BY <1>2 DEF Elements
    <2>3. Head(q) \in Elements(q)
      BY <1>1, <1>2 DEF Elements
    <2>4. QED
      BY <2>1, <2>2, <2>3
  <1>5. Distinct(r)
    BY <1>1, <1>2 DEF Distinct
  <1>6. QED
    BY <1>1, <1>3, <1>4, <1>5 DEF r
-----------------------------------------------------------------------------
LEMMA PushKeeps ==
  ASSUME IInv, NEW th \in Thread, NEW x \in Item \ pushed, NEW fifo \in BOOLEAN,
         Push(th, x, fifo), pushed' = pushed \cup {x}, UNCHANGED <<maxSize, popped>>
  PROVE  IInv'
  <1>1. TypeOK /\ LimitHolds /\ NothingLost /\ HasRoom
        /\ queue' = IF fifo THEN Append(queue, x) ELSE <<x>> \o queue
    BY DEF IInv, Push, Insert
  <1>2. x \notin Elements(queue)
    BY <1>1 DEF NothingLost, Queued
  <1>3. /\ queue' \in Seq(Item) /\ Len(queue') = Len(queue) + 1
        /\ Queued' = Queued \cup {x} /\ Distinct(queue')
    BY <1>1, <1>2, InsertedBack, InsertedFront DEF TypeOK, NothingLost, Queued
  <1>4. TypeOK'
    BY <1>1, <1>3 DEF TypeOK, Push, NotifyOne
  <1>5. LimitHolds'
    BY <1>1, <1>3 DEF LimitHolds, HasRoom, TypeOK
  <1>6. NothingLost'
    BY <1>1, <1>3 DEF NothingLost
  <1>7. QED
    BY <1>4, <1>5, <1>6 DEF IInv

LEMMA PopKeeps ==
  ASSUME IInv, NEW th \in Thread, Pop(th), popped' = popped \cup {Head(queue)},
         UNCHANGED <<maxSize, pushed>>
  PROVE  IInv'
  <1>1. /\ TypeOK /\ LimitHolds /\ NothingLost
        /\ queue # <<>> /\ queue' = Tail(queue)
        /\ waiting' = waiting /\ woken' = woken \ {th}
    BY DEF IInv, Pop
  <1>2. /\ queue' \in Seq(Item) /\ Len(queue') = Len(queue) - 1 /\ Head(queue) \in Item
        /\ Queued = Queued' \cup {Head(queue)} /\ Head(queue) \notin Queued'
        /\ Distinct(queue')
    BY <1>1, Popped DEF TypeOK, NothingLost, Queued
  <1>3. TypeOK'
    BY <1>1, <1>2 DEF TypeOK
  <1>4. LimitHolds'
    BY <1>1, <1>2 DEF LimitHolds, TypeOK
  <1>5. NothingLost'
    BY <1>1, <1>2 DEF NothingLost
  <1>6. QED
    BY <1>3, <1>4, <1>5 DEF IInv

LEMMA WaitKeeps ==
  ASSUME IInv, NEW th \in Thread, Wait(th) \/ SpuriousWakeup(th), UNCHANGED <<maxSize, pushed, popped>>
  PROVE  IInv'
  <1>1. queue' = queue
    BY DEF Wait, SpuriousWakeup
  <1>2. TypeOK'
    BY <1>1 DEF IInv, TypeOK, Wait, SpuriousWakeup
  <1>3. LimitHolds' /\ NothingLost'
    BY <1>1 DEF IInv, LimitHolds, NothingLost, Queued
  <1>4. QED
    BY <1>2, <1>3 DEF IInv

LEMMA InitInv == Init => IInv
  <1> SUFFICES ASSUME Init PROVE IInv
    OBVIOUS
  <1>1. TypeOK
    BY SyncDequeAssumption DEF Init, TypeOK
  <1>2. LimitHolds /\ NothingLost
    <2>1. DOMAIN queue = {} /\ Len(queue) = 0
      BY DEF Init
    <2>2. Elements(queue) = {} /\ Distinct(queue)
      BY <2>1 DEF Elements, Distinct
    <2>3. QED
      BY <1>1, <2>1, <2>2 DEF Init, LimitHolds, NothingLost, Queued, TypeOK
  <1>3. QED
    BY <1>1, <1>2 DEF IInv

LEMMA NextInv == IInv /\ [Next]_vars => IInv'
  <1> SUFFICES ASSUME IInv, [Next]_vars PROVE IInv'
    OBVIOUS
  <1>1. ASSUME NEW p \in Producer, ProducerStep(p) PROVE IInv'
    BY <1>1, PushKeeps, WaitKeeps DEF ProducerStep, BlockPush, Thread
  <1>2. ASSUME NEW c \in Consumer, ConsumerStep(c) PROVE IInv'
    BY <1>2, PopKeeps, WaitKeeps DEF ConsumerStep, BlockPop, Thread
  <1>3. ASSUME NEW th \in Thread, TryPop(th) \/ Wakeup(th) PROVE IInv'
    BY <1>3, PopKeeps, WaitKeeps DEF TryPop, Wakeup
  <1>4. CASE UNCHANGED vars
    BY <1>4 DEF vars, IInv, TypeOK, LimitHolds, NothingLost, Queued
  <1>5. QED
    BY <1>1, <1>2, <1>3, <1>4 DEF Next

\* Whatever the order in which waiting producers are woken, a deque with a
\* limit never holds more than it.
THEOREM LimitIsKept == Spec => []LimitHolds
  <1>1. IInv => LimitHolds
    BY DEF IInv
  <1>2. QED
    BY <1>1, InitInv, NextInv, PTL DEF Spec

\* Whichever ends the items are pushed at, none gets lost and none is in the
\* deque twice or after it was popped.
THEOREM ItemsKept == Spec => []NothingLost
  <1>1. IInv => NothingLost
    BY DEF IInv
  <1>2. QED
    BY <1>1, InitInv, NextInv, PTL DEF Spec
=============================================================================
