--------------------------- MODULE NotifierProofs ---------------------------
(***************************************************************************)
(* Proofs about Notifier, for any number of waiters, callers and pieces of *)
(* work, and any number of epochs above twice the waiters, as long as the  *)
(* epoch does not come full circle during an operation (NoFullCircle).     *)
(***************************************************************************)
EXTENDS Notifier, FiniteSetTheorems, TLAPS

-----------------------------------------------------------------------------
(***************************************************************************)
(* Epochs, which wrap.                                                     *)
(***************************************************************************)

Epoch == 0..(Epochs - 1)
Half == Epochs \div 2

\* How far epoch a is ahead of epoch b, and the epoch that is n after a.
Gap(a, b) == IF a >= b THEN a - b ELSE a - b + Epochs
Plus(a, n) == IF a + n < Epochs THEN a + n ELSE a + n - Epochs

LEMMA Numbers ==
  /\ Cardinality(Waiter) \in Nat
  /\ Epochs \in Nat /\ Epochs > 0
  /\ Half \in Nat /\ Half > Cardinality(Waiter)
  /\ 2 * Half <= Epochs /\ Epochs <= 2 * Half + 1
  <1>1. Cardinality(Waiter) \in Nat
    BY NotifierAssumption, FS_CardinalityType DEF NotifierAssumption
  <1>2. Epochs \in Nat /\ Epochs > 2 * Cardinality(Waiter) + 1
    BY NotifierAssumption DEF NotifierAssumption
  <1>3. QED
    BY <1>1, <1>2 DEF Half

LEMMA ModIs ==
  ASSUME NEW a \in Int, NEW r \in Epoch, a = r \/ a = r + Epochs \/ a = r - Epochs
  PROVE  a % Epochs = r
  <1> DEFINE q == a \div Epochs
             m == a % Epochs
  <1>1. Epochs \in Nat /\ Epochs > 0
    BY Numbers
  <1>2. q \in Int /\ m \in 0..(Epochs - 1) /\ a = Epochs * q + m
    BY <1>1
  <1> HIDE DEF q, m
  <1>3. \A j \in Int : (j >= 1 => Epochs * j >= Epochs) /\ (j <= -1 => Epochs * j <= -Epochs)
    BY <1>1
  <1>4. PICK k \in {-1, 0, 1} : a = r + k * Epochs
    BY <1>1 DEF Epoch
  <1>5. r - m = Epochs * (q - k) /\ q - k \in Int
    BY <1>1, <1>2, <1>4 DEF Epoch
  <1>6. r - m < Epochs /\ r - m > -Epochs
    BY <1>1, <1>2 DEF Epoch
  <1>7. q - k = 0
    BY <1>1, <1>3, <1>5, <1>6
  <1>8. m = r
    BY <1>1, <1>2, <1>5, <1>7 DEF Epoch
  <1>9. QED
    BY <1>8 DEF m

LEMMA Mods ==
  ASSUME NEW a \in Epoch, NEW b \in Epoch
  PROVE  (a - b) % Epochs = Gap(a, b) /\ (a + b) % Epochs = Plus(a, b)
  <1>1. Epochs \in Nat /\ Epochs > 0
    BY Numbers
  <1>2. a - b \in Int /\ Gap(a, b) \in Epoch /\ (a - b = Gap(a, b) \/ a - b = Gap(a, b) - Epochs)
    BY <1>1 DEF Gap, Epoch
  <1>3. a + b \in Int /\ Plus(a, b) \in Epoch /\ (a + b = Plus(a, b) \/ a + b = Plus(a, b) + Epochs)
    BY <1>1 DEF Plus, Epoch
  <1>4. QED
    BY <1>2, <1>3, ModIs

-----------------------------------------------------------------------------
(***************************************************************************)
(* What TypeOK says of words.                                              *)
(***************************************************************************)

LEMMA WordIs ==
  ASSUME NEW s \in Word
  PROVE  /\ s.stack \in Waiter \cup {none}
         /\ s.waiters \in 0..Cardinality(Waiter) /\ s.waiters \in Nat /\ s.waiters < Half
         /\ s.waiters \in Epoch /\ s.epoch \in Epoch
  <1>1. /\ s.stack \in Waiter \cup {none} /\ s.waiters \in 0..Cardinality(Waiter)
        /\ s.epoch \in 0..(Epochs - 1)
    BY DEF Word
  <1>2. QED
    BY <1>1, Numbers DEF Epoch

LEMMA TurnIs ==
  ASSUME TypeOK, NEW w \in Waiter
  PROVE  Turn(w) \in Epoch
  <1>1. ticket[w] \in Word
    BY DEF TypeOK
  <1>2. Turn(w) = Plus(ticket[w].epoch, ticket[w].waiters)
    BY <1>1, WordIs, Mods DEF Turn
  <1>3. QED
    BY <1>1, <1>2, WordIs, Numbers DEF Plus, Epoch

\* The comparisons, without the remainder.
LEMMA Compare ==
  ASSUME TypeOK, NEW s \in Word, NEW w \in Waiter
  PROVE  /\ Ahead(s, w) <=> Gap(s.epoch, Turn(w)) \in 1..(Half - 1)
         /\ Behind(s, w) <=> Gap(s.epoch, Turn(w)) >= Half
  BY WordIs, TurnIs, Mods DEF Ahead, Behind, Half

LEMMA DecidedIs ==
  ASSUME NEW s \in Word, NEW n \in 0..s.waiters
  PROVE  /\ Decided(s, n) \in Word
         /\ Decided(s, n).stack = s.stack
         /\ Decided(s, n).waiters = s.waiters - n
         /\ Decided(s, n).epoch = Plus(s.epoch, n)
  <1>1. n \in Epoch /\ n \in Nat /\ s.waiters - n \in 0..Cardinality(Waiter)
    BY WordIs, Numbers DEF Epoch
  <1>2. (s.epoch + n) % Epochs = Plus(s.epoch, n)
    BY <1>1, WordIs, Mods
  <1>3. Plus(s.epoch, n) \in 0..(Epochs - 1)
    BY <1>1, WordIs, Numbers DEF Plus, Epoch
  <1>4. Decided(s, n) = [stack |-> s.stack, waiters |-> s.waiters - n, epoch |-> Plus(s.epoch, n)]
    BY <1>2 DEF Decided
  <1>5. QED
    BY <1>1, <1>3, <1>4, WordIs DEF Word

LEMMA RestackedIs ==
  ASSUME NEW s \in Word, NEW x \in Waiter \cup {none}
  PROVE  /\ [s EXCEPT !.stack = x] \in Word
         /\ [s EXCEPT !.stack = x].stack = x
         /\ [s EXCEPT !.stack = x].waiters = s.waiters
         /\ [s EXCEPT !.stack = x].epoch = s.epoch
  BY DEF Word

LEMMA JoinedIs ==
  ASSUME NEW s \in Word, s.waiters < Cardinality(Waiter)
  PROVE  /\ [s EXCEPT !.waiters = @ + 1] \in Word
         /\ [s EXCEPT !.waiters = @ + 1].stack = s.stack
         /\ [s EXCEPT !.waiters = @ + 1].waiters = s.waiters + 1
         /\ [s EXCEPT !.waiters = @ + 1].epoch = s.epoch
  <1>1. s.waiters + 1 \in 0..Cardinality(Waiter)
    BY Numbers DEF Word
  <1>2. QED
    BY <1>1 DEF Word

-----------------------------------------------------------------------------
(***************************************************************************)
(* The invariant about the word and the turns.                             *)
(***************************************************************************)

\* How many threads decide before w.
Left(w) == Gap(Turn(w), word.epoch)

\* TurnsInOrder, said of the threads one by one.
TurnInv ==
  /\ \A w \in Prewait : Left(w) < word.waiters
  /\ \A v, w \in Prewait : Left(v) = Left(w) => v = w
  /\ \A i \in 0..(word.waiters - 1) : \E w \in Prewait : Left(w) = i

\* A word seen earlier is right about those it says are released.
SeenAt(w) ==
  /\ pc[w] \in {"commit", "commit cas", "cancel"} /\ Ahead(seen[w], w) => Ahead(word, w)
  /\ pc[w] = "commit cas" => seen[w].epoch = Turn(w)

SeenInv == \A w \in Waiter : SeenAt(w)

LEMMA Circle ==
  ASSUME NEW e \in Epoch, NEW t \in Epoch, NEW k \in Nat, k < Half, NEW n \in 0..k
  PROVE  /\ Plus(e, n) \in Epoch /\ Gap(t, e) \in Epoch /\ Gap(t, e) \in Nat
         /\ Gap(t, e) < k /\ Gap(t, e) >= n =>
              /\ Gap(t, Plus(e, n)) = Gap(t, e) - n
              /\ Gap(Plus(e, n), t) \notin 1..(Half - 1)
         /\ Gap(t, e) < n => Gap(Plus(e, n), t) \in 1..(Half - 1)
         /\ Gap(e, t) \in 1..(Half - 1) => Gap(t, e) >= Half
         /\ t = Plus(e, k) => Gap(t, e) = k /\ Gap(e, t) \notin 1..(Half - 1)
         /\ t = e <=> Gap(t, e) = 0
         /\ n # 0 => Plus(e, n) # e
         /\ Plus(e, 0) = e
  BY Numbers DEF Plus, Gap, Epoch

LEMMA PrewaitIs ==
  ASSUME TypeOK, NEW w \in Announced
  PROVE  /\ w \in Waiter /\ Turn(w) \in Epoch /\ word.epoch \in Epoch
         /\ Left(w) \in Nat
         /\ w \in Prewait <=> Gap(word.epoch, Turn(w)) \notin 1..(Half - 1)
         /\ Ahead(word, w) => Left(w) >= Half
         /\ Turn(w) = word.epoch <=> Left(w) = 0
  <1>1. w \in Waiter /\ word \in Word
    BY DEF Announced, TypeOK
  <1>2. Turn(w) \in Epoch /\ word.epoch \in Epoch
    BY <1>1, TurnIs, WordIs
  <1>3. Ahead(word, w) <=> Gap(word.epoch, Turn(w)) \in 1..(Half - 1)
    BY <1>1, Compare
  <1>4. 0 \in Nat /\ 0 < Half
    BY Numbers
  <1>5. QED
    BY <1>1, <1>2, <1>3, <1>4, Circle DEF Prewait, Left

\* The epoch moves on by n, and by nobody's leaving but of those whose turn is
\* over by then.
LEMMA Advance ==
  ASSUME TypeOK, TurnInv, Timely, word' \in Word,
         NEW n \in 0..word.waiters,
         word'.epoch = Plus(word.epoch, n), word'.waiters = word.waiters - n,
         Announced' \subseteq Announced,
         \A w \in Announced' : Turn(w)' = Turn(w),
         \A w \in Prewait : Left(w) >= n => w \in Announced'
  PROVE  /\ Prewait' = {w \in Prewait : Left(w) >= n}
         /\ TurnInv'
  <1> DEFINE k == word.waiters
  <1>1. k \in Nat /\ k < Half /\ n \in 0..k /\ n \in Nat
    BY WordIs DEF TypeOK
  <1>2. ASSUME NEW w \in Announced'
        PROVE  /\ w \in Announced /\ Turn(w)' = Turn(w)
               /\ Left(w)' = Gap(Turn(w), Plus(word.epoch, n))
               /\ Ahead(word, w)' <=> Gap(Plus(word.epoch, n), Turn(w)) \in 1..(Half - 1)
    <2>1. w \in Announced /\ Turn(w)' = Turn(w)
      OBVIOUS
    <2>2. Turn(w) \in Epoch /\ word'.epoch \in Epoch
      BY <2>1, PrewaitIs, WordIs
    <2>3. Ahead(word, w)' <=> Gap(word'.epoch, Turn(w)) \in 1..(Half - 1)
      BY <2>1, <2>2, Mods DEF Ahead, Half
    <2>4. QED
      BY <2>1, <2>3 DEF Left
  <1>3. ASSUME NEW w \in Prewait, Left(w) >= n
        PROVE  w \in Prewait' /\ Left(w)' = Left(w) - n
    <2>1. w \in Announced' /\ w \in Announced /\ Left(w) < k
      BY <1>3 DEF Prewait, TurnInv
    <2>2. Turn(w) \in Epoch /\ word.epoch \in Epoch
      BY <2>1, PrewaitIs
    <2>3. /\ Gap(Turn(w), Plus(word.epoch, n)) = Left(w) - n
          /\ Gap(Plus(word.epoch, n), Turn(w)) \notin 1..(Half - 1)
      BY <1>1, <1>3, <2>1, <2>2, Circle DEF Left
    <2>4. QED
      BY <1>2, <2>1, <2>3 DEF Prewait
  <1>4. ASSUME NEW w \in Prewait'
        PROVE  w \in Prewait /\ Left(w) >= n
    <2>1. w \in Announced' /\ w \in Announced /\ ~Ahead(word, w)'
      BY <1>2, <1>4 DEF Prewait
    <2>2. ~Ahead(word, w)
      BY <2>1 DEF Timely
    <2>3. w \in Prewait
      BY <2>1, <2>2 DEF Prewait
    <2>4. Turn(w) \in Epoch /\ word.epoch \in Epoch /\ Left(w) \in Nat
      BY <2>1, PrewaitIs
    <2>5. ~(Left(w) < n)
      BY <1>1, <1>2, <2>1, <2>4, Circle DEF Left
    <2>6. QED
      BY <1>1, <2>3, <2>4, <2>5
  <1>5. Prewait' = {w \in Prewait : Left(w) >= n}
    BY <1>3, <1>4
  <1>6. \A w \in Prewait' : w \in Prewait /\ Left(w)' = Left(w) - n /\ Left(w) \in Nat
    BY <1>3, <1>4, PrewaitIs DEF Prewait
  <1>7. \A w \in Prewait' : Left(w)' < word'.waiters
    BY <1>1, <1>6 DEF TurnInv
  <1>8. \A v, w \in Prewait' : Left(v)' = Left(w)' => v = w
    BY <1>1, <1>6 DEF TurnInv
  <1>9. ASSUME NEW i \in 0..(word'.waiters - 1)
        PROVE  \E w \in Prewait' : Left(w)' = i
    <2>1. i + n \in 0..(k - 1) /\ i \in Nat
      BY <1>1
    <2>2. PICK w \in Prewait : Left(w) = i + n
      BY <2>1 DEF TurnInv
    <2>3. QED
      BY <1>1, <1>3, <2>1, <2>2
  <1>10. QED
    BY <1>5, <1>7, <1>8, <1>9 DEF TurnInv

LEMMA Stay ==
  ASSUME TypeOK, TurnInv, Timely, word' \in Word,
         word'.epoch = word.epoch, word'.waiters = word.waiters,
         Announced' \subseteq Announced,
         \A w \in Announced' : ticket'[w] = ticket[w],
         Prewait \subseteq Announced'
  PROVE  Prewait' = Prewait /\ TurnInv'
  <1>1. 0 \in 0..word.waiters /\ word.waiters \in Nat
    BY WordIs DEF TypeOK
  <1>2. word.waiters < Half /\ word.epoch \in Epoch
    BY WordIs DEF TypeOK
  <1>3. Plus(word.epoch, 0) = word.epoch
    BY <1>1, <1>2, Circle
  <1>4. \A w \in Prewait : Left(w) \in Nat /\ Left(w) >= 0
    BY PrewaitIs DEF Prewait
  <1>5. \A w \in Announced' : Turn(w)' = Turn(w)
    BY DEF Turn
  <1>6. Prewait' = {w \in Prewait : Left(w) >= 0} /\ TurnInv'
    BY <1>1, <1>3, <1>5, Advance
  <1>7. QED
    BY <1>4, <1>6

\* The threads in pre-wait are as many as the word says.
LEMMA CountPrewait ==
  ASSUME TypeOK, TurnInv
  PROVE  /\ word.waiters = Cardinality(Prewait)
         /\ {Left(w) : w \in Prewait} = 0..(word.waiters - 1)
  <1> DEFINE k == word.waiters
             turns == [w \in Prewait |-> Left(w)]
  <1>1. k \in Nat
    BY WordIs DEF TypeOK
  <1>2. \A w \in Prewait : Left(w) \in 0..(k - 1)
    BY <1>1, PrewaitIs DEF Prewait, TurnInv
  <1>3. {Left(w) : w \in Prewait} = 0..(k - 1)
    BY <1>2 DEF TurnInv
  <1>4. turns \in Bijection(Prewait, 0..(k - 1))
    <2>1. turns \in [Prewait -> 0..(k - 1)]
      BY <1>2
    <2>2. \A v, w \in Prewait : turns[v] = turns[w] => v = w
      BY DEF TurnInv
    <2>3. \A i \in 0..(k - 1) : \E w \in Prewait : turns[w] = i
      BY DEF TurnInv
    <2>4. QED
      BY <2>1, <2>2, <2>3 DEF Bijection, Injection, Surjection, IsInjective
  <1>5. IsFiniteSet(Prewait)
    <2>1. Prewait \subseteq Waiter
      BY DEF Prewait, Announced
    <2>2. QED
      BY <2>1, FS_Subset, NotifierAssumption DEF NotifierAssumption
  <1>6. Cardinality(Prewait) = Cardinality(0..(k - 1))
    <2> HIDE DEF turns, k
    <2>1. QED
      BY <1>4, <1>5, FS_Bijection DEF ExistsBijection
  <1>7. Cardinality(0..(k - 1)) = k
    BY <1>1, FS_Interval
  <1>8. QED
    BY <1>3, <1>6, <1>7

\* w announces itself, after those that have.
LEMMA Joins ==
  ASSUME TypeOK, TurnInv, Timely, word' \in Word, NEW w \in Waiter, w \notin Announced,
         word'.epoch = word.epoch, word'.waiters = word.waiters + 1,
         ticket' = [ticket EXCEPT ![w] = word],
         Announced' = Announced \cup {w}
  PROVE  Prewait' = Prewait \cup {w} /\ TurnInv'
  <1> DEFINE k == word.waiters
  <1>1. /\ k \in Nat /\ k < Half /\ word.epoch \in Epoch /\ k \in Epoch
        /\ k \in 0..k
    BY WordIs DEF TypeOK
  <1>2. Turn(w)' = Plus(word.epoch, k)
    BY <1>1, Mods DEF Turn, TypeOK
  <1>3. Turn(w)' \in Epoch
    BY <1>1, <1>2, Circle
  <1>4. Left(w)' = k /\ ~Ahead(word, w)'
    <2>1. /\ Gap(Plus(word.epoch, k), word.epoch) = k
          /\ Gap(word.epoch, Plus(word.epoch, k)) \notin 1..(Half - 1)
      BY <1>1, <1>2, <1>3, Circle
    <2>2. Ahead(word, w)' <=> Gap(word.epoch, Plus(word.epoch, k)) \in 1..(Half - 1)
      BY <1>1, <1>2, <1>3, Mods DEF Ahead, Half
    <2>3. QED
      BY <1>2, <2>1, <2>2 DEF Left
  <1>5. ASSUME NEW v \in Announced
        PROVE  /\ v # w /\ Left(v)' = Left(v)
               /\ Ahead(word, v)' <=> Ahead(word, v)
    <2>1. Turn(v)' = Turn(v) /\ v # w
      BY DEF Turn, TypeOK
    <2>2. QED
      BY <2>1 DEF Left, Ahead
  <1>6. Prewait' = Prewait \cup {w}
    BY <1>4, <1>5 DEF Prewait
  <1>7. \A v \in Prewait : v \in Announced /\ Left(v) \in Nat /\ Left(v) < k /\ Left(v)' = Left(v)
    BY <1>5, PrewaitIs DEF Prewait, TurnInv
  <1>8. \A v \in Prewait' : Left(v)' < word'.waiters
    BY <1>1, <1>4, <1>6, <1>7
  <1>9. ASSUME NEW u \in Prewait', NEW v \in Prewait', Left(u)' = Left(v)'
        PROVE  u = v
    BY <1>1, <1>4, <1>6, <1>7, <1>9 DEF TurnInv
  <1>10. ASSUME NEW i \in 0..(word'.waiters - 1)
         PROVE  \E v \in Prewait' : Left(v)' = i
    <2>1. i = k \/ i \in 0..(k - 1)
      BY <1>1
    <2>2. QED
      BY <1>4, <1>6, <1>7, <2>1 DEF TurnInv
  <1>11. QED
    BY <1>6, <1>8, <1>9, <1>10 DEF TurnInv

-----------------------------------------------------------------------------
(***************************************************************************)
(* The invariant about the links, the callers and the work.                *)
(***************************************************************************)

\* Waiters popped off the stack, whose links are going to be cleared.
Popped == {target[c] : c \in {d \in Caller : npc[d] = "clear"}}

\* No sleeper comes after itself.
LoopFree == \A w \in Sleeping \ Popped : w \notin ListOf(next[w])

\* A thread on its way to sleep has not been signaled, and links itself to
\* the stack it saw.
CommitAt(w) ==
  /\ pc[w] \in {"commit", "commit cas"} => signal[w] # "signaled"
  /\ pc[w] = "commit cas" => next[w] = seen[w].stack

CommitInv == \A w \in Waiter : CommitAt(w)

\* A caller that unparks is at a waiter and knows the next one.  One that is
\* about to pop the top of the stack knows the next one too, unless the word is
\* not the one it saw: the ABA comment.
CallAt(c) ==
  /\ npc[c] \in {"clear", "unpark", "signal", "wake"} => target[c] \in Waiter
  /\ npc[c] = "signal" => link[c] = next[target[c]]
  /\ npc[c] = "cas" => ~Empty(nseen[c])
  /\ npc[c] = "cas" /\ Pops(c) /\ nseen[c].epoch = word.epoch
       /\ nseen[c].stack \in ListOf(word.stack)
     => link[c] = next[nseen[c].stack]

CallInv == \A c \in Caller : CallAt(c)

\* Threads that sleep or decided to when there was no work.
Committed == {w \in Waiter : PhaseOf(w) = "asleep"}
             \cup {w \in Prewait : pc[w] \in {"commit load", "commit", "commit cas"}}

\* Threads that look at the predicate before they wait again.
Free == {w \in Waiter : PhaseOf(w) \in {"away", "released"} /\ pc[w] # "prepare"}

\* Calls of notify that release somebody, if anybody waits.
Pending == {c \in Caller : \/ npc[c] \in {"load", "cas"}
                           \/ npc[c] = "decide" /\ ~Empty(nseen[c])}

WorkInv ==
  /\ work <= added
  /\ over => added = MaxWork
  /\ \A w \in Waiter : pc[w] = "out" => over /\ work = 0
  /\ Committed # {} => work <= Cardinality(Free) + Cardinality(Pending)

IInv == /\ TypeOK
        /\ TurnInv
        /\ SeenInv
        /\ SleepersHeld
        /\ LoopFree
        /\ CommitInv
        /\ CallInv
        /\ WorkInv

-----------------------------------------------------------------------------
(***************************************************************************)
(* Lists.  Reach is ListOf for given links nx, so that the lists before    *)
(* and after a step can be compared.                                       *)
(***************************************************************************)

Links == [Waiter -> Waiter \cup {none}]

Closed(nx, S) == \A v \in S : nx[v] \in S \cup {none}

Reach(nx, x) == {w \in Waiter : \A S \in SUBSET Waiter :
                                   x \in S \cup {none} /\ Closed(nx, S) => w \in S}

LEMMA ListIs ==
  /\ \A x : ListOf(x) = Reach(next, x)
  /\ ListOf(word.stack) = Reach(next, word.stack)
  /\ ListOf(word.stack)' = Reach(next', word'.stack)
  BY DEF ListOf, Reach, Closed

LEMMA ReachNone == ASSUME NEW nx PROVE Reach(nx, none) = {}
  <1>1. {} \in SUBSET Waiter /\ none \in {} \cup {none} /\ Closed(nx, {})
    BY DEF Closed
  <1>2. QED
    BY <1>1 DEF Reach

\* A list goes on with the next of each that is in it, and is part of every
\* set that does.
LEMMA ReachClosed ==
  ASSUME NEW nx \in Links, NEW x \in Waiter \cup {none}
  PROVE  /\ Reach(nx, x) \subseteq Waiter
         /\ x \in Reach(nx, x) \cup {none}
         /\ Closed(nx, Reach(nx, x))
         /\ \A S \in SUBSET Waiter : x \in S \cup {none} /\ Closed(nx, S) => Reach(nx, x) \subseteq S
  <1>1. Reach(nx, x) \subseteq Waiter
    BY DEF Reach
  <1>2. x \in Reach(nx, x) \cup {none}
    BY NotifierAssumption DEF Reach, NotifierAssumption
  <1>3. ASSUME NEW v \in Reach(nx, x), nx[v] # none
        PROVE  nx[v] \in Reach(nx, x)
    <2>1. nx[v] \in Waiter
      BY <1>1, <1>3 DEF Links
    <2>2. ASSUME NEW S \in SUBSET Waiter, x \in S \cup {none}, Closed(nx, S)
          PROVE  nx[v] \in S
      BY <1>3, <2>2 DEF Reach, Closed
    <2>3. QED
      BY <2>1, <2>2 DEF Reach
  <1>4. \A S \in SUBSET Waiter : x \in S \cup {none} /\ Closed(nx, S) => Reach(nx, x) \subseteq S
    BY DEF Reach
  <1>5. Closed(nx, Reach(nx, x))
    BY <1>3 DEF Closed
  <1>6. QED
    BY <1>1, <1>2, <1>4, <1>5

LEMMA ReachStep ==
  ASSUME NEW nx \in Links, NEW x \in Waiter
  PROVE  Reach(nx, x) = {x} \cup Reach(nx, nx[x])
  <1>1. nx[x] \in Waiter \cup {none} /\ x # none
    BY NotifierAssumption DEF Links, NotifierAssumption
  <1>2. x \in Reach(nx, x) /\ nx[x] \in Reach(nx, x) \cup {none} /\ Reach(nx, x) \in SUBSET Waiter
    BY <1>1, ReachClosed DEF Closed
  <1>3. Reach(nx, nx[x]) \subseteq Reach(nx, x)
    BY <1>1, <1>2, ReachClosed
  <1>4. Reach(nx, x) \subseteq {x} \cup Reach(nx, nx[x])
    <2> DEFINE S == {x} \cup Reach(nx, nx[x])
    <2>1. S \in SUBSET Waiter /\ x \in S
      BY <1>1, ReachClosed
    <2>2. nx[x] \in S \cup {none}
      BY <1>1, ReachClosed
    <2>3. Closed(nx, Reach(nx, nx[x]))
      BY <1>1, ReachClosed
    <2>4. Closed(nx, S)
      BY <2>2, <2>3 DEF Closed
    <2> HIDE DEF S
    <2>5. Reach(nx, x) \subseteq S
      BY <2>1, <2>4, ReachClosed
    <2>6. QED
      BY <2>5 DEF S
  <1>5. QED
    BY <1>2, <1>3, <1>4

\* What is in a list has its own list in there.
LEMMA ReachWithin ==
  ASSUME NEW nx \in Links, NEW x \in Waiter \cup {none}, NEW v \in Reach(nx, x)
  PROVE  Reach(nx, v) \subseteq Reach(nx, x) /\ Reach(nx, nx[v]) \subseteq Reach(nx, x)
  <1>1. v \in Waiter /\ Reach(nx, x) \in SUBSET Waiter /\ Closed(nx, Reach(nx, x))
    BY ReachClosed
  <1>2. nx[v] \in Waiter \cup {none} /\ nx[v] \in Reach(nx, x) \cup {none}
    BY <1>1 DEF Links, Closed
  <1>3. QED
    BY <1>1, <1>2, ReachClosed

\* Links of others do not matter.
LEMMA ReachSame ==
  ASSUME NEW nx \in Links, NEW ny \in Links, NEW x \in Waiter \cup {none},
         \A v \in Reach(nx, x) : ny[v] = nx[v]
  PROVE  Reach(ny, x) = Reach(nx, x)
  <1>1. /\ Reach(nx, x) \in SUBSET Waiter /\ x \in Reach(nx, x) \cup {none}
        /\ Closed(nx, Reach(nx, x))
        /\ Reach(ny, x) \in SUBSET Waiter /\ x \in Reach(ny, x) \cup {none}
        /\ Closed(ny, Reach(ny, x))
    BY ReachClosed
  <1>2. Closed(ny, Reach(nx, x))
    BY <1>1 DEF Closed
  <1>3. Reach(ny, x) \subseteq Reach(nx, x)
    BY <1>1, <1>2, ReachClosed
  <1>4. Closed(nx, Reach(ny, x))
    BY <1>1, <1>3 DEF Closed
  <1>5. Reach(nx, x) \subseteq Reach(ny, x)
    BY <1>1, <1>4, ReachClosed
  <1>6. QED
    BY <1>3, <1>5

\* The same for a link that is set.
LEMMA ReachExcept ==
  ASSUME NEW nx \in Links, NEW t \in Waiter, NEW y \in Waiter \cup {none},
         NEW x \in Waiter \cup {none}, t \notin Reach(nx, x)
  PROVE  [nx EXCEPT ![t] = y] \in Links /\ Reach([nx EXCEPT ![t] = y], x) = Reach(nx, x)
  <1> DEFINE ny == [nx EXCEPT ![t] = y]
  <1>1. ny \in Links
    BY DEF Links
  <1>2. \A v \in Reach(nx, x) : v \in Waiter /\ v # t
    BY ReachClosed
  <1>3. \A v \in Reach(nx, x) : ny[v] = nx[v]
    BY <1>2 DEF Links
  <1> HIDE DEF ny
  <1>4. Reach(ny, x) = Reach(nx, x)
    BY <1>1, <1>3, ReachSame
  <1>5. QED
    BY <1>1, <1>4 DEF ny

\* Held, for given links and a caller at n with target t and link l.
HeldIn(nx, n, t, l) ==
  CASE n = "clear" -> {t}
    [] n = "unpark" -> {t} \cup Reach(nx, nx[t])
    [] n = "signal" -> {t} \cup Reach(nx, l)
    [] n = "wake" -> Reach(nx, l)
    [] OTHER -> {}

LEMMA HeldIs ==
  /\ \A c : Held(c) = HeldIn(next, npc[c], target[c], link[c])
  /\ \A c : Held(c)' = HeldIn(next', npc'[c], target'[c], link'[c])
  <1>1. \A c : Held(c) = HeldIn(next, npc[c], target[c], link[c])
    BY DEF Held, HeldIn, ListOf, Reach, Closed
  <1>2. \A c : Held(c)' = HeldIn(next', npc'[c], target'[c], link'[c])
    BY DEF Held, HeldIn, ListOf, Reach, Closed
  <1>3. QED
    BY <1>1, <1>2

-----------------------------------------------------------------------------
(***************************************************************************)
(* Every step keeps the types.                                             *)
(***************************************************************************)

\* A thread whose turn it is counts among those in pre-wait, before the others.
LEMMA OnTurn ==
  ASSUME TypeOK, TurnInv, NEW w \in Announced, Turn(w) = word.epoch
  PROVE  /\ w \in Prewait /\ Left(w) = 0
         /\ 1 \in 0..word.waiters
         /\ \A v \in Prewait : v # w => Left(v) >= 1
  <1>1. Left(w) = 0 /\ Turn(w) \in Epoch /\ word.epoch \in Epoch
    BY PrewaitIs
  <1>2. Gap(word.epoch, Turn(w)) = 0
    BY <1>1, Numbers DEF Gap, Epoch
  <1>3. w \in Prewait
    BY <1>2, PrewaitIs
  <1>4. word.waiters \in Nat /\ 0 < word.waiters
    BY <1>1, <1>3, WordIs DEF TurnInv, TypeOK
  <1>5. \A v \in Prewait : v # w => Left(v) # 0 /\ Left(v) \in Nat
    BY <1>1, <1>3, PrewaitIs DEF TurnInv, Prewait
  <1>6. QED
    BY <1>1, <1>3, <1>4, <1>5

\* There is room in the word for one that has not announced itself.
LEMMA Room ==
  ASSUME TypeOK, TurnInv, NEW w \in Waiter, w \notin Announced
  PROVE  word.waiters < Cardinality(Waiter)
  <1>1. word.waiters = Cardinality(Prewait)
    BY CountPrewait
  <1>2. IsFiniteSet(Waiter) /\ Prewait \subseteq Waiter \ {w}
    BY NotifierAssumption DEF NotifierAssumption, Prewait, Announced
  <1>3. IsFiniteSet(Waiter \ {w}) /\ Cardinality(Waiter \ {w}) = Cardinality(Waiter) - 1
    BY <1>2, FS_RemoveElement
  <1>4. IsFiniteSet(Prewait) /\ Cardinality(Prewait) <= Cardinality(Waiter \ {w})
    BY <1>2, <1>3, FS_Subset
  <1>5. Cardinality(Prewait) \in Nat /\ Cardinality(Waiter) \in Nat
    BY <1>4, FS_CardinalityType, Numbers
  <1>6. QED
    BY <1>1, <1>3, <1>4, <1>5

LEMMA FreshIs == Fresh \in Word
  <1>1. none \in Waiter \cup {none} /\ 0 \in 0..Cardinality(Waiter)
    BY Numbers
  <1>2. Epochs - 1 - 2 * Cardinality(Waiter) \in 0..(Epochs - 1)
    BY NotifierAssumption, Numbers DEF NotifierAssumption
  <1>3. QED
    BY <1>1, <1>2 DEF Fresh, Word

\* What the three steps that change the word make of it.
LEMMA PrepareWord ==
  ASSUME TypeOK, TurnInv, NEW w \in Waiter, Prepare(w)
  PROVE  /\ word' \in Word
         /\ word'.stack = word.stack
         /\ word'.waiters = word.waiters + 1
         /\ word'.epoch = word.epoch
  <1>1. w \notin Announced
    BY DEF Prepare, Announced
  <1>2. word \in Word /\ word.waiters < Cardinality(Waiter)
    BY <1>1, Room DEF TypeOK
  <1>3. word' = [word EXCEPT !.waiters = @ + 1]
    BY DEF Prepare
  <1>4. QED
    BY <1>2, <1>3, JoinedIs

LEMMA CommitWord ==
  ASSUME TypeOK, TurnInv, SeenInv, NEW w \in Waiter, CommitCas(w), word = seen[w]
  PROVE  /\ w \in Announced /\ Turn(w) = word.epoch
         /\ word' \in Word
         /\ word'.stack = w
         /\ word'.waiters = word.waiters - 1
         /\ word'.epoch = Plus(word.epoch, 1)
  <1>1. w \in Announced /\ Turn(w) = word.epoch
    BY DEF CommitCas, Announced, SeenInv, SeenAt
  <1>2. word \in Word /\ 1 \in 0..word.waiters
    BY <1>1, OnTurn DEF TypeOK
  <1>3. word' = [Decided(word, 1) EXCEPT !.stack = w]
    BY DEF CommitCas
  <1>4. /\ Decided(word, 1) \in Word
        /\ Decided(word, 1).waiters = word.waiters - 1
        /\ Decided(word, 1).epoch = Plus(word.epoch, 1)
    BY <1>2, DecidedIs
  <1>5. QED
    BY <1>1, <1>3, <1>4, RestackedIs

LEMMA CancelWord ==
  ASSUME TypeOK, TurnInv, NEW w \in Waiter, CancelCas(w), word = seen[w]
  PROVE  /\ w \in Announced /\ Turn(w) = word.epoch
         /\ word' \in Word
         /\ word'.stack = word.stack
         /\ word'.waiters = word.waiters - 1
         /\ word'.epoch = Plus(word.epoch, 1)
  <1>1. w \in Announced /\ Turn(w) = word.epoch
    BY DEF CancelCas, MyTurn, Announced
  <1>2. word \in Word /\ 1 \in 0..word.waiters
    BY <1>1, OnTurn DEF TypeOK
  <1>3. word' = Decided(word, 1)
    BY DEF CancelCas
  <1>4. QED
    BY <1>1, <1>2, <1>3, DecidedIs

\* How many threads in pre-wait caller c releases.
Releases(c) == IF all[c] THEN word.waiters ELSE IF word.waiters > 0 THEN 1 ELSE 0

LEMMA NotifiedWord ==
  ASSUME TypeOK, NEW c \in Caller
  PROVE  /\ Notified(c) \in Word
         /\ Releases(c) \in 0..word.waiters
         /\ Notified(c).stack = IF all[c] THEN none
                                ELSE IF word.waiters > 0 THEN word.stack ELSE link[c]
         /\ Notified(c).waiters = word.waiters - Releases(c)
         /\ Notified(c).epoch = Plus(word.epoch, Releases(c))
  <1>1. word \in Word /\ word.waiters \in Nat /\ word.epoch \in Epoch /\ word.waiters < Half
    BY WordIs DEF TypeOK
  <1>2. link[c] \in Waiter \cup {none} /\ none \in Waiter \cup {none}
    BY DEF TypeOK
  <1>3. CASE all[c]
    <2>1. Releases(c) = word.waiters /\ word.waiters \in 0..word.waiters
      BY <1>1, <1>3 DEF Releases
    <2>2. Notified(c) = [Decided(word, word.waiters) EXCEPT !.stack = none]
      BY <1>3 DEF Notified
    <2>3. /\ Decided(word, word.waiters) \in Word
          /\ Decided(word, word.waiters).waiters = word.waiters - word.waiters
          /\ Decided(word, word.waiters).epoch = Plus(word.epoch, word.waiters)
      BY <1>1, <2>1, DecidedIs
    <2>4. QED
      BY <1>2, <1>3, <2>1, <2>2, <2>3, RestackedIs
  <1>4. CASE ~all[c] /\ word.waiters > 0
    <2>1. Releases(c) = 1 /\ 1 \in 0..word.waiters
      BY <1>1, <1>4 DEF Releases
    <2>2. Notified(c) = Decided(word, 1)
      BY <1>4 DEF Notified
    <2>3. QED
      BY <1>1, <1>4, <2>1, <2>2, DecidedIs
  <1>5. CASE ~all[c] /\ ~(word.waiters > 0)
    <2>1. Releases(c) = 0 /\ 0 \in 0..word.waiters
      BY <1>1, <1>5 DEF Releases
    <2>2. Notified(c) = [word EXCEPT !.stack = link[c]]
      BY <1>5 DEF Notified
    <2>3. Plus(word.epoch, 0) = word.epoch
      BY <1>1, <2>1, Circle
    <2>4. QED
      BY <1>1, <1>2, <1>5, <2>1, <2>2, <2>3, RestackedIs
  <1>6. QED
    BY <1>3, <1>4, <1>5

LEMMA TypeInit == Init => TypeOK
  <1> SUFFICES ASSUME Init PROVE TypeOK
    OBVIOUS
  <1>1. MaxWork \in Nat
    BY NotifierAssumption DEF NotifierAssumption
  <1>2. word \in Word /\ ticket \in [Waiter -> Word] /\ seen \in [Waiter -> Word]
    BY FreshIs DEF Init
  <1>3. nseen \in [Caller -> Word]
    BY FreshIs DEF Init
  <1>4. /\ next \in [Waiter -> Waiter \cup {none}]
        /\ signal \in [Waiter -> Signals] /\ pc \in [Waiter -> WaiterPC]
    BY DEF Init, Signals, WaiterPC
  <1>5. /\ npc \in [Caller -> CallerPC] /\ all \in [Caller -> BOOLEAN]
        /\ link \in [Caller -> Waiter \cup {none}]
        /\ target \in [Caller -> Waiter \cup {none}]
    BY DEF Init, CallerPC
  <1>6. work \in 0..MaxWork /\ added \in 0..MaxWork /\ over \in BOOLEAN
    <2>1. work = 0 /\ added = 0 /\ over = FALSE
      BY DEF Init
    <2>2. 0 \in 0..MaxWork
      BY <1>1
    <2>3. QED
      BY <2>1, <2>2
  <1>7. QED
    BY <1>2, <1>3, <1>4, <1>5, <1>6 DEF TypeOK

\* What a waiter does.
LEMMA WaiterType ==
  ASSUME TypeOK, TurnInv, SeenInv, NEW w \in Waiter, WaiterStep(w) \/ SpuriousWakeup(w)
  PROVE  TypeOK'
  <1>1. CASE Check(w)
    <2>1. work' \in 0..MaxWork
      BY <1>1, NotifierAssumption DEF Check, TypeOK, NotifierAssumption
    <2>2. QED
      BY <1>1, <2>1 DEF Check, Goes, TypeOK, WaiterPC, callerVars
  <1>2. CASE Prepare(w)
    BY <1>2, PrepareWord DEF Prepare, Goes, TypeOK, WaiterPC, callerVars, workVars
  <1>3. CASE Recheck(w)
    BY <1>3 DEF Recheck, Goes, TypeOK, WaiterPC, callerVars, workVars
  <1>4. CASE CommitLoad(w)
    BY <1>4 DEF CommitLoad, Goes, Sees, TypeOK, WaiterPC, Signals, callerVars, workVars
  <1>5. CASE CommitLink(w)
    <2>1. seen[w].stack \in Waiter \cup {none}
      BY WordIs DEF TypeOK
    <2>2. QED
      BY <1>5, <2>1 DEF CommitLink, Goes, TypeOK, WaiterPC, callerVars, workVars
  <1>6. CASE CommitCas(w)
    <2>1. word' \in Word
      BY <1>6, CommitWord DEF CommitCas, TypeOK
    <2>2. pc' \in [Waiter -> WaiterPC]
      BY <1>6 DEF CommitCas, Goes, Leaves, TypeOK, WaiterPC
    <2>3. ticket' \in [Waiter -> Word] /\ seen' \in [Waiter -> Word]
      BY <1>6, FreshIs DEF CommitCas, Leaves, Sees, TypeOK
    <2>4. QED
      BY <1>6, <2>1, <2>2, <2>3 DEF CommitCas, TypeOK, callerVars, workVars
  <1>7. CASE Park(w)
    BY <1>7, FreshIs DEF Park, Goes, Back, Leaves, TypeOK, WaiterPC, Signals, callerVars, workVars
  <1>8. CASE CancelLoad(w)
    BY <1>8 DEF CancelLoad, Goes, Sees, TypeOK, WaiterPC, callerVars, workVars
  <1>9. CASE CancelCas(w)
    <2>1. word' \in Word
      BY <1>9, CancelWord DEF CancelCas, TypeOK
    <2>2. QED
      BY <1>9, <2>1, FreshIs DEF CancelCas, Goes, Back, Leaves, Sees, TypeOK, WaiterPC,
                                  callerVars, workVars
  <1>10. ASSUME NEW at \in {"commit", "cancel"}, Await(w, at)
         PROVE  TypeOK'
    BY <1>10 DEF Await, Sees, TypeOK, callerVars, workVars
  <1>11. ASSUME NEW at \in {"commit", "cancel"}, WasNotified(w, at)
         PROVE  TypeOK'
    BY <1>11, FreshIs DEF WasNotified, Back, Leaves, Goes, TypeOK, WaiterPC, callerVars, workVars
  <1>12. CASE SpuriousWakeup(w)
    BY <1>12 DEF SpuriousWakeup, Goes, TypeOK, WaiterPC, callerVars, workVars
  <1>13. QED
    BY <1>1, <1>2, <1>3, <1>4, <1>5, <1>6, <1>7, <1>8, <1>9, <1>10, <1>11, <1>12 DEF WaiterStep

LEMMA DoneType ==
  ASSUME TypeOK, NEW c \in Caller, Done(c)
  PROVE  /\ npc' \in [Caller -> CallerPC]
         /\ nseen' \in [Caller -> Word]
         /\ all' \in [Caller -> BOOLEAN]
         /\ link' \in [Caller -> Waiter \cup {none}]
         /\ target' \in [Caller -> Waiter \cup {none}]
  BY FreshIs DEF Done, Calls, TypeOK, CallerPC

LEMMA FollowType ==
  ASSUME TypeOK, NEW c \in Caller, Follow(c)
  PROVE  /\ npc' \in [Caller -> CallerPC]
         /\ nseen' \in [Caller -> Word]
         /\ all' \in [Caller -> BOOLEAN]
         /\ link' \in [Caller -> Waiter \cup {none}]
         /\ target' \in [Caller -> Waiter \cup {none}]
  BY DoneType DEF Follow, Calls, TypeOK, CallerPC

\* What a caller does.
LEMMA CallerType ==
  ASSUME TypeOK, CallInv, WorkInv, NEW c \in Caller, CallerStep(c)
  PROVE  TypeOK'
  <1>1. CASE AddWork(c)
    <2>1. work' \in 0..MaxWork /\ added' \in 0..MaxWork
      BY <1>1, NotifierAssumption DEF AddWork, TypeOK, WorkInv, NotifierAssumption
    <2>2. all' \in [Caller -> BOOLEAN]
      BY <1>1 DEF AddWork, TypeOK
    <2>3. QED
      BY <1>1, <2>1, <2>2 DEF AddWork, Calls, TypeOK, CallerPC, waiterVars
  <1>2. CASE EndWork(c)
    BY <1>2 DEF EndWork, Calls, TypeOK, CallerPC, waiterVars
  <1>3. CASE NotifyLoad(c)
    BY <1>3 DEF NotifyLoad, Calls, TypeOK, CallerPC, waiterVars, workVars
  <1>4. CASE NotifyDecide(c)
    <2>1. CASE Empty(nseen[c])
      BY <1>4, <2>1, DoneType DEF NotifyDecide, TypeOK, waiterVars, workVars
    <2>2. CASE ~Empty(nseen[c])
      <3>1. nseen[c].stack \in Waiter \cup {none} /\ nseen[c].waiters \in Nat
        BY WordIs DEF TypeOK
      <3>2. Pops(c) => nseen[c].stack \in Waiter
        BY <2>2, <3>1 DEF Pops, Empty
      <3>3. link' \in [Caller -> Waiter \cup {none}]
        BY <1>4, <2>2, <3>2 DEF NotifyDecide, TypeOK
      <3>4. QED
        BY <1>4, <2>2, <3>3 DEF NotifyDecide, Calls, TypeOK, CallerPC, waiterVars, workVars
    <2>3. QED
      BY <2>1, <2>2
  <1>5. CASE NotifyCas(c)
    <2>1. CASE word # nseen[c]
      BY <1>5, <2>1 DEF NotifyCas, Calls, TypeOK, CallerPC, waiterVars, workVars
    <2>2. CASE word = nseen[c]
      <3>1. word' \in Word
        BY <1>5, <2>2, NotifiedWord DEF NotifyCas
      <3>2. CASE word.stack = none \/ (~all[c] /\ word.waiters > 0)
        BY <1>5, <2>2, <3>1, <3>2, DoneType DEF NotifyCas, TypeOK, waiterVars, workVars
      <3>3. CASE ~(word.stack = none \/ (~all[c] /\ word.waiters > 0))
        <4>1. word.stack \in Waiter \cup {none}
          BY WordIs DEF TypeOK
        <4>2. QED
          BY <1>5, <2>2, <3>1, <3>3, <4>1 DEF NotifyCas, Calls, TypeOK, CallerPC, waiterVars,
                                              workVars
      <3>4. QED
        BY <3>2, <3>3
    <2>3. QED
      BY <2>1, <2>2
  <1>6. CASE NotifyClear(c)
    BY <1>6 DEF NotifyClear, Calls, TypeOK, CallerPC, waiterVars, workVars
  <1>7. CASE UnparkNext(c)
    <2>1. target[c] \in Waiter
      BY <1>7 DEF UnparkNext, CallInv, CallAt
    <2>2. QED
      BY <1>7, <2>1 DEF UnparkNext, Calls, TypeOK, CallerPC, waiterVars, workVars
  <1>8. CASE UnparkSignal(c)
    <2>1. CASE Follow(c)
      BY <1>8, <2>1, FollowType DEF UnparkSignal, TypeOK, Signals, waiterVars, workVars
    <2>2. CASE ~Follow(c)
      BY <1>8, <2>2 DEF UnparkSignal, Calls, TypeOK, CallerPC, Signals, waiterVars, workVars
    <2>3. QED
      BY <2>1, <2>2
  <1>9. CASE UnparkWake(c)
    BY <1>9, FollowType DEF UnparkWake, Goes, TypeOK, WaiterPC, workVars
  <1>10. QED
    BY <1>1, <1>2, <1>3, <1>4, <1>5, <1>6, <1>7, <1>8, <1>9 DEF CallerStep

-----------------------------------------------------------------------------
(***************************************************************************)
(* Every step keeps the turns, and who is in pre-wait.                     *)
(***************************************************************************)

\* A step after which the same threads are announced, to the same word.
QuietStep == /\ word' = word
             /\ Announced' = Announced
             /\ \A v \in Announced : ticket'[v] = ticket[v]

LEMMA QuietTurns ==
  ASSUME TypeOK, TurnInv, Timely, QuietStep
  PROVE  Prewait' = Prewait /\ TurnInv'
  <1>1. word' \in Word /\ Prewait \subseteq Announced'
    BY DEF QuietStep, TypeOK, Prewait
  <1>2. QED
    BY <1>1, Stay DEF QuietStep

\* A thread that sees nothing new.
LEMMA SeenKept ==
  ASSUME SeenInv, Timely, NEW v \in Waiter, seen'[v] = seen[v], ticket'[v] = ticket[v],
         pc'[v] = pc[v] \/ pc'[v] \notin {"commit", "commit cas", "cancel"}
  PROVE  SeenAt(v)'
  <1>1. CASE pc'[v] \notin {"commit", "commit cas", "cancel"}
    BY <1>1 DEF SeenAt
  <1>2. CASE pc'[v] = pc[v] /\ pc[v] \in {"commit", "commit cas", "cancel"}
    <2>1. v \in Announced \cap Announced'
      BY <1>2 DEF Announced
    <2>2. Ahead(seen[v], v)' <=> Ahead(seen[v], v)
      BY DEF Ahead, Turn
    <2>3. Ahead(word, v) => Ahead(word, v)'
      BY <2>1 DEF Timely
    <2>4. Turn(v)' = Turn(v)
      BY DEF Turn
    <2>5. QED
      BY <1>2, <2>2, <2>3, <2>4 DEF SeenInv, SeenAt
  <1>3. QED
    BY <1>1, <1>2

\* A thread that sees the word.
LEMMA SeenNow ==
  ASSUME NEW v \in Waiter, seen'[v] = word, word' = word, pc'[v] # "commit cas"
  PROVE  SeenAt(v)'
  BY DEF SeenAt, Ahead

\* The steps of a waiter that leave the word alone.
LEMMA WaiterQuiet ==
  ASSUME TypeOK, TurnInv, SeenInv, Timely, NEW w \in Waiter,
         \/ Check(w) \/ Recheck(w) \/ CommitLoad(w) \/ CommitLink(w) \/ Park(w)
         \/ CancelLoad(w) \/ SpuriousWakeup(w)
         \/ CommitCas(w) /\ word # seen[w]
         \/ CancelCas(w) /\ word # seen[w]
         \/ \E at \in {"commit", "cancel"} : Await(w, at)
  PROVE  QuietStep /\ SeenInv'
  <1> DEFINE S == {"commit", "commit cas", "cancel"}
  <1>1. CASE Check(w)
    <2>1. QuietStep
      BY <1>1 DEF Check, Goes, QuietStep, Announced, TypeOK
    <2>2. \A v \in Waiter : /\ seen'[v] = seen[v] /\ ticket'[v] = ticket[v]
                            /\ pc'[v] = pc[v] \/ pc'[v] \notin S
      BY <1>1 DEF Check, Goes, TypeOK
    <2>3. QED
      BY <2>1, <2>2, SeenKept DEF SeenInv
  <1>2. CASE Recheck(w)
    <2>1. QuietStep
      BY <1>2 DEF Recheck, Goes, QuietStep, Announced, TypeOK
    <2>2. \A v \in Waiter : /\ seen'[v] = seen[v] /\ ticket'[v] = ticket[v]
                            /\ pc'[v] = pc[v] \/ pc'[v] \notin S
      BY <1>2 DEF Recheck, Goes, TypeOK
    <2>3. QED
      BY <2>1, <2>2, SeenKept DEF SeenInv
  <1>3. CASE Park(w)
    <2>1. QuietStep
      BY <1>3 DEF Park, Goes, Back, Leaves, QuietStep, Announced, TypeOK
    <2>2. \A v \in Waiter : v # w => /\ seen'[v] = seen[v] /\ ticket'[v] = ticket[v]
                                     /\ pc'[v] = pc[v]
      BY <1>3 DEF Park, Goes, Back, Leaves, TypeOK
    <2>3. pc'[w] \notin S
      BY <1>3 DEF Park, Goes, Back, Leaves, TypeOK
    <2>4. SeenAt(w)'
      BY <2>3 DEF SeenAt
    <2>5. QED
      BY <2>1, <2>2, <2>4, SeenKept DEF SeenInv
  <1>4. CASE SpuriousWakeup(w)
    <2>1. QuietStep
      BY <1>4 DEF SpuriousWakeup, Goes, QuietStep, Announced, TypeOK
    <2>2. \A v \in Waiter : /\ seen'[v] = seen[v] /\ ticket'[v] = ticket[v]
                            /\ pc'[v] = pc[v] \/ pc'[v] \notin S
      BY <1>4 DEF SpuriousWakeup, Goes, TypeOK
    <2>3. QED
      BY <2>1, <2>2, SeenKept DEF SeenInv
  <1>5. CASE CommitLink(w)
    <2>1. QuietStep
      BY <1>5 DEF CommitLink, MyTurn, Goes, QuietStep, Announced, TypeOK
    <2>2. \A v \in Waiter : /\ seen'[v] = seen[v] /\ ticket'[v] = ticket[v]
                            /\ v # w => pc'[v] = pc[v]
      BY <1>5 DEF CommitLink, MyTurn, Goes, TypeOK
    <2>3. SeenAt(w) /\ pc[w] = "commit" /\ seen[w].epoch = Turn(w) /\ word' = word
      BY <1>5 DEF CommitLink, MyTurn, SeenInv
    <2>4. SeenAt(w)'
      <3>1. Turn(w)' = Turn(w)
        BY <2>2 DEF Turn
      <3>2. Ahead(seen[w], w)' <=> Ahead(seen[w], w)
        BY <2>2, <3>1 DEF Ahead
      <3>3. Ahead(word, w)' <=> Ahead(word, w)
        BY <2>3, <3>1 DEF Ahead
      <3>4. QED
        BY <2>2, <2>3, <3>1, <3>2, <3>3 DEF SeenAt
    <2>5. QED
      BY <2>1, <2>2, <2>4, SeenKept DEF SeenInv
  <1>6. CASE \/ CommitLoad(w) \/ CancelLoad(w)
             \/ CommitCas(w) /\ word # seen[w]
             \/ CancelCas(w) /\ word # seen[w]
             \/ \E at \in {"commit", "cancel"} : Await(w, at)
    <2>1. /\ word' = word /\ ticket' = ticket
          /\ seen' = [seen EXCEPT ![w] = word]
          /\ pc'[w] # "commit cas" /\ w \in Announced
          /\ \/ pc' = pc
             \/ pc' = [pc EXCEPT ![w] = "commit"]
             \/ pc' = [pc EXCEPT ![w] = "cancel"]
      BY <1>6 DEF CommitLoad, CancelLoad, CommitCas, CancelCas, MyTurn, Await, Sees, Goes, TypeOK,
                  Announced
    <2>2. QuietStep
      BY <2>1 DEF QuietStep, Announced, TypeOK
    <2>3. \A v \in Waiter : v # w => /\ seen'[v] = seen[v] /\ ticket'[v] = ticket[v]
                                     /\ pc'[v] = pc[v]
      BY <2>1 DEF TypeOK
    <2>4. SeenAt(w)'
      BY <2>1, SeenNow DEF TypeOK
    <2>5. QED
      BY <2>2, <2>3, <2>4, SeenKept DEF SeenInv
  <1>7. QED
    BY <1>1, <1>2, <1>3, <1>4, <1>5, <1>6

LEMMA PrepareTurn ==
  ASSUME TypeOK, TurnInv, SeenInv, Timely, NEW w \in Waiter, Prepare(w)
  PROVE  /\ Announced' = Announced \cup {w}
         /\ Prewait' = Prewait \cup {w}
         /\ TurnInv' /\ SeenInv'
  <1>1. w \notin Announced /\ Announced' = Announced \cup {w}
    BY DEF Prepare, Goes, Announced, TypeOK
  <1>2. ticket' = [ticket EXCEPT ![w] = word] /\ pc' = [pc EXCEPT ![w] = "recheck"] /\ seen' = seen
    BY DEF Prepare, Goes
  <1>3. Prewait' = Prewait \cup {w} /\ TurnInv'
    BY <1>1, <1>2, PrepareWord, Joins
  <1>4. SeenAt(w)'
    BY <1>2 DEF SeenAt, TypeOK
  <1>5. \A v \in Waiter : v # w => /\ seen'[v] = seen[v] /\ ticket'[v] = ticket[v]
                                   /\ pc'[v] = pc[v]
    BY <1>2 DEF TypeOK
  <1>6. QED
    BY <1>1, <1>3, <1>4, <1>5, SeenKept DEF SeenInv

\* w has decided, to sleep or not to.
LEMMA DecideTurn ==
  ASSUME TypeOK, TurnInv, SeenInv, Timely, NEW w \in Waiter,
         CommitCas(w) \/ CancelCas(w), word = seen[w]
  PROVE  /\ w \in Prewait
         /\ Announced' = Announced \ {w}
         /\ Prewait' = Prewait \ {w}
         /\ TurnInv' /\ SeenInv'
  <1>1. /\ w \in Announced /\ Turn(w) = word.epoch
        /\ word' \in Word
        /\ word'.waiters = word.waiters - 1
        /\ word'.epoch = Plus(word.epoch, 1)
    BY CommitWord, CancelWord
  <1>2. /\ w \in Prewait /\ Left(w) = 0
        /\ 1 \in 0..word.waiters
        /\ \A v \in Prewait : v # w => Left(v) >= 1
    BY <1>1, OnTurn
  <1>3. /\ \A v \in Waiter : v # w => /\ seen'[v] = seen[v] /\ ticket'[v] = ticket[v]
                                      /\ pc'[v] = pc[v]
        /\ pc'[w] \in {"park", "check"}
    BY DEF CommitCas, CancelCas, Back, Leaves, Goes, TypeOK
  <1>4. Announced' = Announced \ {w}
    BY <1>3 DEF Announced
  <1>5. \A v \in Announced' : Turn(v)' = Turn(v)
    BY <1>3, <1>4 DEF Turn, Announced
  <1>6. \A v \in Prewait : Left(v) >= 1 => v \in Announced'
    BY <1>2, <1>4 DEF Prewait
  <1>7. Prewait' = {v \in Prewait : Left(v) >= 1} /\ TurnInv'
    BY <1>1, <1>2, <1>4, <1>5, <1>6, Advance
  <1>8. Prewait' = Prewait \ {w}
    BY <1>2, <1>7
  <1>9. SeenAt(w)'
    BY <1>3 DEF SeenAt
  <1>10. QED
    BY <1>2, <1>3, <1>4, <1>7, <1>8, <1>9, SeenKept DEF SeenInv

\* w finds that it has been released.
LEMMA NotifiedTurn ==
  ASSUME TypeOK, TurnInv, SeenInv, Timely, NEW w \in Waiter,
         NEW at \in {"commit", "cancel"}, WasNotified(w, at)
  PROVE  /\ w \in Announced \ Prewait
         /\ Announced' = Announced \ {w}
         /\ Prewait' = Prewait
         /\ TurnInv' /\ SeenInv'
  <1>1. w \in Announced /\ Ahead(word, w)
    BY DEF WasNotified, SeenInv, SeenAt, Announced
  <1>2. /\ \A v \in Waiter : v # w => /\ seen'[v] = seen[v] /\ ticket'[v] = ticket[v]
                                      /\ pc'[v] = pc[v]
        /\ pc'[w] = "check" /\ word' = word
    BY DEF WasNotified, Back, Leaves, Goes, TypeOK
  <1>3. Announced' = Announced \ {w} /\ w \notin Prewait
    BY <1>1, <1>2 DEF Announced, Prewait
  <1>4. Prewait \subseteq Announced' /\ \A v \in Announced' : ticket'[v] = ticket[v]
    BY <1>2, <1>3 DEF Announced, Prewait
  <1>5. word' \in Word /\ Prewait' = Prewait /\ TurnInv'
    BY <1>2, <1>3, <1>4, Stay DEF TypeOK
  <1>6. SeenAt(w)'
    BY <1>2 DEF SeenAt
  <1>7. QED
    BY <1>1, <1>2, <1>3, <1>5, <1>6, SeenKept DEF SeenInv

\* The steps of a caller but for the compare-exchange that succeeds.
LEMMA CallerQuiet ==
  ASSUME TypeOK, TurnInv, SeenInv, Timely, NEW c \in Caller, CallerStep(c),
         ~(NotifyCas(c) /\ word = nseen[c])
  PROVE  QuietStep /\ SeenInv'
  <1>1. /\ word' = word /\ ticket' = ticket /\ seen' = seen
        /\ \/ pc' = pc
           \/ pc[target[c]] = "blocked" /\ pc' = [pc EXCEPT ![target[c]] = "park"]
    BY DEF CallerStep, AddWork, EndWork, NotifyLoad, NotifyDecide, NotifyCas, NotifyClear,
           UnparkNext, UnparkSignal, UnparkWake, Goes, waiterVars
  <1>2. \A v \in Waiter : pc'[v] = pc[v] \/ (pc[v] = "blocked" /\ pc'[v] = "park")
    BY <1>1 DEF TypeOK
  <1>3. QuietStep
    BY <1>1, <1>2 DEF QuietStep, Announced
  <1>4. QED
    BY <1>1, <1>2, <1>3, SeenKept DEF SeenInv

\* c releases some of the threads in pre-wait, those whose turns come first.
LEMMA NotifyTurn ==
  ASSUME TypeOK, TurnInv, SeenInv, Timely, NEW c \in Caller, NotifyCas(c), word = nseen[c]
  PROVE  /\ Announced' = Announced
         /\ Prewait' = {v \in Prewait : Left(v) >= Releases(c)}
         /\ TurnInv' /\ SeenInv'
  <1>1. /\ word' = Notified(c) /\ pc' = pc /\ ticket' = ticket /\ seen' = seen
    BY DEF NotifyCas, waiterVars
  <1>2. Announced' = Announced /\ \A v \in Announced' : Turn(v)' = Turn(v)
    BY <1>1 DEF Announced, Turn
  <1>3. \A v \in Prewait : v \in Announced'
    BY <1>2 DEF Prewait
  <1>4. Prewait' = {v \in Prewait : Left(v) >= Releases(c)} /\ TurnInv'
    BY <1>1, <1>2, <1>3, NotifiedWord, Advance
  <1>5. QED
    BY <1>1, <1>2, <1>4, SeenKept DEF SeenInv

-----------------------------------------------------------------------------
(***************************************************************************)
(* Every step keeps the lists of sleepers.                                 *)
(***************************************************************************)

LinkInv == SleepersHeld /\ LoopFree /\ CommitInv /\ CallInv

\* What a caller holds depends on the links of nobody else.
LEMMA HeldSame ==
  ASSUME NEW nx \in Links, NEW ny \in Links, NEW n, NEW t, NEW l \in Waiter \cup {none},
         n \in {"clear", "unpark", "signal", "wake"} => t \in Waiter,
         \A v \in HeldIn(nx, n, t, l) : ny[v] = nx[v]
  PROVE  HeldIn(ny, n, t, l) = HeldIn(nx, n, t, l)
  <1>1. CASE n = "unpark"
    <2>1. t \in Waiter /\ HeldIn(nx, n, t, l) = {t} \cup Reach(nx, nx[t])
      BY <1>1 DEF HeldIn
    <2>2. ny[t] = nx[t] /\ nx[t] \in Waiter \cup {none}
      BY <2>1 DEF Links
    <2>3. Reach(ny, nx[t]) = Reach(nx, nx[t])
      BY <2>1, <2>2, ReachSame
    <2>4. HeldIn(ny, n, t, l) = {t} \cup Reach(ny, ny[t])
      BY <1>1 DEF HeldIn
    <2>5. QED
      BY <2>1, <2>2, <2>3, <2>4
  <1>2. CASE n = "signal" \/ n = "wake"
    <2>1. \A v \in Reach(nx, l) : ny[v] = nx[v]
      BY <1>2 DEF HeldIn
    <2>2. Reach(ny, l) = Reach(nx, l)
      BY <2>1, ReachSame
    <2>3. QED
      BY <1>2, <2>2 DEF HeldIn
  <1>3. CASE n \notin {"unpark", "signal", "wake"}
    BY <1>3 DEF HeldIn
  <1>4. QED
    BY <1>1, <1>2, <1>3

LEMMA LinksTyped == TypeOK => next \in Links
  BY DEF TypeOK, Links

\* Nobody is in a list but sleepers.
LEMMA InLists ==
  ASSUME TypeOK, SleepersHeld
  PROVE  /\ Sleeping \subseteq Waiter
         /\ Reach(next, word.stack) \subseteq Sleeping
         /\ \A c \in Caller : Held(c) \subseteq Sleeping
         /\ word.stack \in Waiter \cup {none}
  <1>1. Sleeping \subseteq Waiter
    BY DEF Sleeping
  <1>2. Reach(next, word.stack) \subseteq Sleeping
    BY ListIs DEF SleepersHeld
  <1>3. \A c \in Caller : Held(c) \subseteq Sleeping
    BY DEF SleepersHeld
  <1>4. word.stack \in Waiter \cup {none}
    BY WordIs DEF TypeOK
  <1>5. QED
    BY <1>1, <1>2, <1>3, <1>4

\* What comes after a sleeper is in the list that it is in.
LEMMA HeldChained ==
  ASSUME TypeOK, CallInv, NEW c \in Caller, NEW v \in Held(c), npc[c] # "clear"
  PROVE  v \in Waiter /\ Reach(next, next[v]) \subseteq Held(c)
  <1>1. next \in Links /\ link[c] \in Waiter \cup {none} /\ CallAt(c)
    BY LinksTyped DEF TypeOK, CallInv
  <1>2. npc[c] \in {"unpark", "signal", "wake"}
    BY HeldIs DEF HeldIn
  <1>3. CASE npc[c] \in {"unpark", "signal"}
    <2>1. target[c] \in Waiter /\ Held(c) = {target[c]} \cup Reach(next, next[target[c]])
      BY <1>1, <1>3, HeldIs DEF HeldIn, CallAt
    <2>2. Held(c) = Reach(next, target[c])
      BY <1>1, <2>1, ReachStep
    <2>3. QED
      BY <1>1, <2>1, <2>2, ReachWithin, ReachClosed
  <1>4. CASE npc[c] = "wake"
    <2>1. Held(c) = Reach(next, link[c])
      BY <1>4, HeldIs DEF HeldIn
    <2>2. QED
      BY <1>1, <2>1, ReachWithin, ReachClosed
  <1>5. QED
    BY <1>2, <1>3, <1>4

LEMMA Chained ==
  ASSUME TypeOK, SleepersHeld, CallInv, NEW v \in Sleeping \ Popped
  PROVE  Reach(next, next[v]) \subseteq Sleeping
  <1>1. CASE v \in Reach(next, word.stack)
    BY <1>1, ReachWithin, LinksTyped, InLists
  <1>2. CASE v \notin Reach(next, word.stack)
    <2>1. PICK c \in Caller : v \in Held(c)
      BY <1>2, ListIs DEF SleepersHeld
    <2>2. npc[c] # "clear"
      BY <2>1, HeldIs DEF HeldIn, Popped
    <2>3. QED
      BY <2>1, <2>2, HeldChained, InLists
  <1>3. QED
    BY <1>1, <1>2

\* A caller that does nothing, while the others change the word and the links.
LEMMA CallKept ==
  ASSUME CallInv, Timely, NEW c \in Caller,
         npc'[c] = npc[c], nseen'[c] = nseen[c], all'[c] = all[c],
         link'[c] = link[c], target'[c] = target[c],
         npc[c] = "signal" => next'[target[c]] = next[target[c]],
         word'.epoch = word.epoch =>
           \A v \in Reach(next', word'.stack) : v \in Reach(next, word.stack) /\ next'[v] = next[v]
  PROVE  CallAt(c)'
  <1>1. CallAt(c)
    BY DEF CallInv
  <1>2. npc[c] = "cas" /\ nseen[c].epoch = word'.epoch => word'.epoch = word.epoch
    BY DEF Timely
  <1>3. Empty(nseen[c])' <=> Empty(nseen[c])
    BY DEF Empty
  <1>4. Pops(c)' <=> Pops(c)
    BY DEF Pops
  <1>5. ASSUME npc'[c] = "cas", Pops(c)', nseen'[c].epoch = word'.epoch,
               nseen'[c].stack \in ListOf(word.stack)'
        PROVE  link'[c] = next'[nseen'[c].stack]
    <2>1. word'.epoch = word.epoch
      BY <1>2, <1>5
    <2>2. nseen[c].stack \in Reach(next', word'.stack)
      BY <1>5, ListIs
    <2>3. nseen[c].stack \in Reach(next, word.stack) /\ next'[nseen[c].stack] = next[nseen[c].stack]
      BY <2>1, <2>2
    <2>4. link[c] = next[nseen[c].stack]
      BY <1>1, <1>4, <1>5, <2>1, <2>3, ListIs DEF CallAt
    <2>5. QED
      BY <2>3, <2>4
  <1>6. npc'[c] = "signal" => link'[c] = next'[target'[c]]
    BY <1>1 DEF CallAt
  <1>7. npc'[c] \in {"clear", "unpark", "signal", "wake"} => target'[c] \in Waiter
    BY <1>1 DEF CallAt
  <1>8. npc'[c] = "cas" => ~Empty(nseen[c])'
    BY <1>1, <1>3 DEF CallAt
  <1>9. QED
    BY <1>5, <1>6, <1>7, <1>8 DEF CallAt

\* The steps that leave the lists alone.
LEMMA ListsKept ==
  ASSUME SleepersHeld, LoopFree, next' = next, word'.stack = word.stack, Sleeping' = Sleeping,
         \A c \in Caller : Held(c)' = Held(c), Popped \subseteq Popped'
  PROVE  SleepersHeld' /\ LoopFree'
  <1>1. ListOf(word.stack)' = ListOf(word.stack)
    BY ListIs
  <1>2. \A w \in Waiter : ListOf(next[w])' = ListOf(next[w])
    BY DEF ListOf
  <1>3. LoopFree'
    BY <1>2 DEF LoopFree, Sleeping
  <1>4. SleepersHeld'
    BY <1>1 DEF SleepersHeld
  <1>5. QED
    BY <1>3, <1>4

LEMMA WaiterLists ==
  ASSUME TypeOK, LinkInv, Timely, next' = next, word'.stack = word.stack,
         Sleeping' = Sleeping, UNCHANGED callerVars
  PROVE  SleepersHeld' /\ LoopFree' /\ CallInv'
  <1>1. UNCHANGED <<npc, nseen, all, link, target>>
    BY DEF callerVars
  <1>2. \A c \in Caller : Held(c)' = Held(c)
    BY <1>1, HeldIs
  <1>3. \A c \in Caller : CallAt(c)'
    BY <1>1, CallKept DEF LinkInv
  <1>4. Popped' = Popped
    BY <1>1 DEF Popped
  <1>5. QED
    BY <1>2, <1>3, <1>4, ListsKept DEF LinkInv, CallInv

\* A waiter that links itself to the stack it saw is in no list yet.
LEMMA LinkLists ==
  ASSUME TypeOK, LinkInv, Timely, NEW w \in Waiter, CommitLink(w)
  PROVE  LinkInv'
  <1> DEFINE y == seen[w].stack
  <1>1. /\ next' = [next EXCEPT ![w] = y] /\ word' = word /\ signal' = signal /\ seen' = seen
        /\ pc[w] = "commit" /\ pc' = [pc EXCEPT ![w] = "commit cas"]
        /\ UNCHANGED <<npc, nseen, all, link, target>>
    BY DEF CommitLink, MyTurn, Goes, callerVars
  <1>2. y \in Waiter \cup {none} /\ next \in Links /\ word.stack \in Waiter \cup {none}
    BY LinksTyped, InLists, WordIs DEF TypeOK, LinkInv
  <1>3. Sleeping' = Sleeping /\ w \notin Sleeping
    BY <1>1 DEF Sleeping, TypeOK
  <1> HIDE DEF y
  <1>4. next' \in Links /\ \A v \in Waiter : v # w => next'[v] = next[v]
    BY <1>1, <1>2 DEF Links
  <1>5. w \notin Reach(next, word.stack) /\ \A c \in Caller : w \notin Held(c)
    BY <1>3, InLists DEF LinkInv
  <1>6. \A v \in Reach(next, word.stack) : next'[v] = next[v]
    BY <1>3, <1>4, <1>5, InLists DEF LinkInv
  <1>7. Reach(next', word.stack) = Reach(next, word.stack)
    BY <1>2, <1>4, <1>6, ReachSame
  <1>8. ASSUME NEW c \in Caller
        PROVE  Held(c)' = Held(c)
    <2>1. \A v \in Held(c) : next'[v] = next[v]
      BY <1>3, <1>4, <1>5, InLists DEF LinkInv
    <2>2. link[c] \in Waiter \cup {none} /\
          (npc[c] \in {"clear", "unpark", "signal", "wake"} => target[c] \in Waiter)
      BY DEF TypeOK, LinkInv, CallInv, CallAt
    <2>3. HeldIn(next', npc[c], target[c], link[c]) = HeldIn(next, npc[c], target[c], link[c])
      BY <1>2, <1>4, <2>1, <2>2, HeldIs, HeldSame
    <2>4. QED
      BY <1>1, <2>3, HeldIs
  <1>9. SleepersHeld'
    BY <1>1, <1>3, <1>7, <1>8, ListIs DEF SleepersHeld, LinkInv
  <1>10. LoopFree'
    <2>1. ASSUME NEW v \in Sleeping \ Popped
          PROVE  v \notin Reach(next', next'[v])
      <3>1. v \in Waiter /\ v # w /\ next'[v] = next[v] /\ next[v] \in Waiter \cup {none}
        BY <1>2, <1>3, <1>4, InLists DEF LinkInv, Links
      <3>2. v \notin Reach(next, next[v])
        BY ListIs DEF LinkInv, LoopFree
      <3>3. Reach(next, next[v]) \subseteq Sleeping
        BY Chained DEF LinkInv
      <3>4. \A u \in Reach(next, next[v]) : next'[u] = next[u]
        BY <1>3, <1>4, <3>3, InLists DEF LinkInv
      <3>5. Reach(next', next[v]) = Reach(next, next[v])
        BY <1>2, <1>4, <3>1, <3>4, ReachSame
      <3>6. QED
        BY <3>1, <3>2, <3>5
    <2>2. Popped' = Popped
      BY <1>1 DEF Popped
    <2>3. QED
      BY <1>3, <2>1, <2>2 DEF LoopFree, ListOf, Reach, Closed
  <1>11. CommitInv'
    BY <1>1 DEF CommitInv, CommitAt, LinkInv, TypeOK, y
  <1>12. CallInv'
    <2>1. ASSUME NEW c \in Caller
          PROVE  CallAt(c)'
      <3>1. npc[c] = "signal" => target[c] \in Held(c)
        BY HeldIs DEF HeldIn
      <3>2. npc[c] = "signal" => next'[target[c]] = next[target[c]]
        BY <1>3, <1>4, <1>5, <3>1, InLists DEF LinkInv
      <3>3. QED
        BY <1>1, <1>6, <1>7, <3>2, CallKept DEF LinkInv
    <2>2. QED
      BY <2>1 DEF CallInv
  <1>13. QED
    BY <1>9, <1>10, <1>11, <1>12 DEF LinkInv

\* A waiter that decides to sleep is the new top.
LEMMA PushLists ==
  ASSUME TypeOK, TurnInv, SeenInv, LinkInv, Timely, NEW w \in Waiter, CommitCas(w),
         word = seen[w]
  PROVE  LinkInv' /\ ListOf(word.stack)' = {w} \cup ListOf(word.stack) /\ w \notin Sleeping
  <1>1. /\ pc[w] = "commit cas" /\ pc' = [pc EXCEPT ![w] = "park"]
        /\ next' = next /\ signal' = signal
        /\ \A v \in Waiter : v # w => seen'[v] = seen[v]
        /\ UNCHANGED <<npc, nseen, all, link, target>>
    BY DEF CommitCas, Leaves, Goes, callerVars, TypeOK
  <1>2. signal[w] # "signaled" /\ next[w] = word.stack
    BY <1>1 DEF LinkInv, CommitInv, CommitAt
  <1>3. word'.stack = w /\ word'.epoch = Plus(word.epoch, 1)
    BY CommitWord
  <1>4. word'.epoch # word.epoch
    <2>1. word.epoch \in Epoch /\ word.waiters \in Nat /\ 1 \in 0..word.waiters /\ word.waiters < Half
      BY CommitWord, OnTurn, WordIs DEF TypeOK
    <2>2. QED
      BY <1>3, <2>1, Circle
  <1>5. Sleeping' = Sleeping \cup {w} /\ w \notin Sleeping
    BY <1>1, <1>2 DEF Sleeping, TypeOK
  <1>6. next \in Links /\ Reach(next, w) = {w} \cup Reach(next, word.stack)
    BY <1>2, LinksTyped, ReachStep
  <1>7. \A c \in Caller : Held(c)' = Held(c)
    BY <1>1, HeldIs
  <1>8. SleepersHeld'
    <2>1. \A c \in Caller : w \notin Held(c)
      BY <1>5, InLists DEF LinkInv
    <2>2. ListOf(word.stack)' = {w} \cup ListOf(word.stack)
      BY <1>1, <1>3, <1>6, ListIs
    <2>3. QED
      BY <1>5, <1>7, <2>1, <2>2 DEF SleepersHeld, LinkInv
  <1>9. LoopFree'
    <2>1. Popped' = Popped
      BY <1>1 DEF Popped
    <2>2. ASSUME NEW v \in Sleeping' \ Popped'
          PROVE  v \notin Reach(next, next[v])
      <3>1. CASE v = w
        BY <1>2, <1>5, <3>1, InLists DEF LinkInv
      <3>2. CASE v # w
        BY <1>5, <2>1, <2>2, <3>2, ListIs DEF LinkInv, LoopFree
      <3>3. QED
        BY <3>1, <3>2
    <2>3. QED
      BY <1>1, <2>2 DEF LoopFree, ListOf, Reach, Closed
  <1>10. CommitInv'
    BY <1>1 DEF CommitInv, CommitAt, LinkInv, TypeOK
  <1>11. CallInv'
    BY <1>1, <1>4, CallKept DEF LinkInv, CallInv
  <1>12. QED
    BY <1>1, <1>3, <1>5, <1>6, <1>8, <1>9, <1>10, <1>11, ListIs DEF LinkInv

\* The other steps of a waiter.
LEMMA WaiterLinks ==
  ASSUME TypeOK, TurnInv, SeenInv, LinkInv, Timely, NEW w \in Waiter,
         WaiterStep(w) \/ SpuriousWakeup(w),
         ~CommitLink(w), ~(CommitCas(w) /\ word = seen[w])
  PROVE  LinkInv' /\ ListOf(word.stack)' = ListOf(word.stack) /\ UNCHANGED callerVars
  <1>1. next' = next /\ UNCHANGED callerVars
    BY DEF WaiterStep, SpuriousWakeup, Check, Prepare, Recheck, CommitLoad, CommitCas, Park,
           CancelLoad, CancelCas, Await, WasNotified, CommitLink
  <1>2. word'.stack = word.stack
    <2>1. CASE Prepare(w)
      BY <2>1, PrepareWord
    <2>2. CASE CancelCas(w) /\ word = seen[w]
      BY <2>2, CancelWord
    <2>3. CASE ~Prepare(w) /\ ~(CancelCas(w) /\ word = seen[w])
      BY <2>3 DEF WaiterStep, SpuriousWakeup, Check, Recheck, CommitLoad, CommitCas, Park,
           CancelLoad, CancelCas, Await, WasNotified, CommitLink
    <2>4. QED
      BY <2>1, <2>2, <2>3
  <1>3. \A v \in Waiter : v # w => /\ pc'[v] = pc[v] /\ signal'[v] = signal[v]
                                   /\ seen'[v] = seen[v]
    BY DEF WaiterStep, SpuriousWakeup, Check, Prepare, Recheck, CommitLoad, CommitCas, Park,
           CancelLoad, CancelCas, Await, WasNotified, CommitLink, Goes, Back, Leaves, Sees, TypeOK
  <1>4. /\ w \in Sleeping' <=> w \in Sleeping
        /\ pc'[w] = "commit" => signal'[w] # "signaled"
        /\ pc'[w] # "commit cas"
    <2>1. CASE Check(w) \/ Prepare(w) \/ Recheck(w) \/ CancelLoad(w) \/ SpuriousWakeup(w)
      BY <2>1 DEF SpuriousWakeup, Check, Prepare, Recheck, CancelLoad, Goes, TypeOK, Sleeping
    <2>2. CASE CommitLoad(w) \/ Park(w)
      BY <2>2 DEF CommitLoad, Park, Goes, Back, Leaves, TypeOK, Sleeping
    <2>3. CASE CommitCas(w) \/ CancelCas(w)
      BY <2>3 DEF CommitCas, CancelCas, MyTurn, Goes, Back, Leaves, TypeOK, Sleeping, LinkInv,
                  CommitInv, CommitAt
    <2>4. CASE \E at \in {"commit", "cancel"} : Await(w, at) \/ WasNotified(w, at)
      BY <2>4 DEF Await, WasNotified, Goes, Back, Leaves, TypeOK, Sleeping, LinkInv, CommitInv,
                  CommitAt
    <2>5. QED
      BY <2>1, <2>2, <2>3, <2>4 DEF WaiterStep
  <1>5. Sleeping' = Sleeping
    BY <1>3, <1>4 DEF Sleeping
  <1>6. SleepersHeld' /\ LoopFree' /\ CallInv'
    BY <1>1, <1>2, <1>5, WaiterLists
  <1>7. CommitInv'
    BY <1>1, <1>3, <1>4 DEF CommitInv, CommitAt, LinkInv
  <1>8. ListOf(word.stack)' = ListOf(word.stack)
    BY <1>1, <1>2, ListIs
  <1>9. QED
    BY <1>1, <1>6, <1>7, <1>8 DEF LinkInv

-----------------------------------------------------------------------------
\* What the callers other than c hold and know, in a step of c.
Others(c) == \A d \in Caller : d # c => /\ npc'[d] = npc[d] /\ nseen'[d] = nseen[d]
                                        /\ all'[d] = all[d] /\ link'[d] = link[d]
                                        /\ target'[d] = target[d]

LEMMA CallerAlone ==
  ASSUME TypeOK, NEW c \in Caller, CallerStep(c)
  PROVE  Others(c)
  BY DEF CallerStep, AddWork, EndWork, NotifyLoad, NotifyDecide, NotifyCas, NotifyClear,
         UnparkNext, UnparkSignal, UnparkWake, Follow, Done, Calls, TypeOK, Others

\* Held and CallAt of the others, in a step that leaves the links alone.
LEMMA OthersKept ==
  ASSUME TypeOK, LinkInv, Timely, NEW c \in Caller, Others(c), next' = next,
         word'.epoch = word.epoch =>
           Reach(next, word'.stack) \subseteq Reach(next, word.stack)
  PROVE  \A d \in Caller : d # c => Held(d)' = Held(d) /\ CallAt(d)'
  <1>1. ASSUME NEW d \in Caller, d # c
        PROVE  Held(d)' = Held(d) /\ CallAt(d)'
    <2>1. /\ npc'[d] = npc[d] /\ nseen'[d] = nseen[d]
          /\ all'[d] = all[d] /\ link'[d] = link[d]
          /\ target'[d] = target[d]
      BY <1>1 DEF Others
    <2>2. Held(d)' = Held(d)
      BY <2>1, HeldIs
    <2>3. CallAt(d)'
      BY <2>1, CallKept DEF LinkInv
    <2>4. QED
      BY <2>2, <2>3
  <1>2. QED
    BY <1>1

LEMMA FollowKeeps ==
  ASSUME TypeOK, NEW c \in Caller, Follow(c), next' = next
  PROVE  /\ Held(c)' = Reach(next, link[c])
         /\ npc'[c] # "clear" /\ npc'[c] # "cas" /\ CallAt(c)'
  <1>1. link[c] \in Waiter \cup {none} /\ next \in Links
    BY LinksTyped DEF TypeOK
  <1>2. CASE link[c] = none
    <2>1. npc'[c] = "idle"
      BY <1>2 DEF Follow, Done, Calls, TypeOK
    <2>2. Held(c)' = {}
      BY <2>1, HeldIs DEF HeldIn
    <2>3. QED
      BY <1>2, <2>1, <2>2, ReachNone DEF CallAt
  <1>3. CASE link[c] # none
    <2>1. npc'[c] = "unpark" /\ target'[c] = link[c] /\ link[c] \in Waiter
      BY <1>1, <1>3 DEF Follow, Calls, TypeOK
    <2>2. Held(c)' = {link[c]} \cup Reach(next, next[link[c]])
      BY <2>1, HeldIs DEF HeldIn
    <2>3. QED
      BY <1>1, <2>1, <2>2, ReachStep DEF CallAt
  <1>4. QED
    BY <1>2, <1>3

\* A caller takes sleepers off the stack, or lets go of those in G.
LEMMA Handed ==
  ASSUME SleepersHeld, NEW c \in Caller, \A d \in Caller : d # c => Held(d)' = Held(d),
         NEW G, G \subseteq Held(c), Sleeping' = Sleeping \ G,
         ListOf(word.stack)' \cup Held(c)' = (ListOf(word.stack) \cup Held(c)) \ G,
         ListOf(word.stack)' \cap Held(c)' = {},
         ListOf(word.stack)' \subseteq ListOf(word.stack)
  PROVE  SleepersHeld'
  <1> DEFINE L == ListOf(word.stack)
             L1 == ListOf(word.stack)'
  <1>1. /\ Sleeping = L \cup UNION {Held(d) : d \in Caller}
        /\ \A d \in Caller : L \cap Held(d) = {}
        /\ \A d, e \in Caller : d # e => Held(d) \cap Held(e) = {}
    BY DEF SleepersHeld
  <1> HIDE DEF L, L1
  <1>2. L1 \cup Held(c)' = (L \cup Held(c)) \ G /\ L1 \cap Held(c)' = {} /\ L1 \subseteq L
    BY DEF L, L1
  <1>3. \A d \in Caller : d # c => Held(d)' = Held(d) /\ Held(d) \cap Held(c) = {}
                                   /\ Held(d) \cap L = {}
    BY <1>1
  <1>4. Sleeping' = L1 \cup UNION {Held(d)' : d \in Caller}
    <2>1. ASSUME NEW v \in Sleeping'
          PROVE  v \in L1 \cup UNION {Held(d)' : d \in Caller}
      <3>1. v \in Sleeping /\ v \notin G
        OBVIOUS
      <3>2. CASE v \in L \cup Held(c)
        BY <1>2, <3>1, <3>2
      <3>3. CASE v \notin L \cup Held(c)
        <4>1. PICK d \in Caller : v \in Held(d)
          BY <1>1, <3>1, <3>3
        <4>2. v \in Held(d)'
          BY <1>3, <3>3, <4>1
        <4>3. QED
          BY <4>2
      <3>4. QED
        BY <3>2, <3>3
    <2>2. ASSUME NEW v \in L1
          PROVE  v \in Sleeping'
      BY <1>1, <1>2
    <2>3. ASSUME NEW d \in Caller, NEW v \in Held(d)'
          PROVE  v \in Sleeping'
      <3>1. CASE d = c
        BY <1>1, <1>2, <3>1
      <3>2. CASE d # c
        <4>1. v \in Held(d) /\ v \notin Held(c)
          BY <1>3, <3>2
        <4>2. QED
          BY <1>1, <4>1
      <3>3. QED
        BY <3>1, <3>2
    <2>4. QED
      BY <2>1, <2>2, <2>3
  <1>5. \A d \in Caller : L1 \cap Held(d)' = {}
    BY <1>2, <1>3
  <1>6. ASSUME NEW d \in Caller, NEW e \in Caller, d # e
        PROVE  Held(d)' \cap Held(e)' = {}
    <2>1. CASE d # c /\ e # c
      BY <1>1, <1>3, <1>6, <2>1
    <2>2. CASE d = c
      BY <1>2, <1>3, <1>6, <2>2
    <2>3. CASE e = c
      BY <1>2, <1>3, <1>6, <2>3
    <2>4. QED
      BY <2>1, <2>2, <2>3
  <1>7. QED
    BY <1>4, <1>5, <1>6 DEF SleepersHeld, L1

LEMMA LoopsKept ==
  ASSUME LoopFree, next' = next, Sleeping' \subseteq Sleeping, NEW c \in Caller, Others(c),
         npc[c] # "clear"
  PROVE  LoopFree'
  <1>1. Popped \subseteq Popped'
    BY DEF Popped, Others
  <1>2. \A w \in Sleeping' \ Popped' : w \notin Reach(next, next[w])
    BY <1>1, ListIs DEF LoopFree
  <1>3. QED
    BY <1>2 DEF LoopFree, ListOf, Reach, Closed

LEMMA CommitsKept ==
  ASSUME CommitInv, next' = next, seen' = seen, signal' = signal, pc' = pc
  PROVE  CommitInv' /\ Sleeping' = Sleeping
  BY DEF CommitInv, CommitAt, Sleeping

\* A caller that has not got to change the word.
LEMMA CallLists ==
  ASSUME TypeOK, LinkInv, Timely, NEW c \in Caller,
         \/ AddWork(c) \/ EndWork(c) \/ NotifyLoad(c) \/ NotifyDecide(c)
         \/ NotifyCas(c) /\ word # nseen[c]
  PROVE  LinkInv' /\ ListOf(word.stack)' = ListOf(word.stack)
  <1>1. /\ word' = word /\ next' = next /\ pc' = pc /\ signal' = signal /\ seen' = seen
        /\ npc[c] \in {"idle", "load", "decide", "cas"}
        /\ npc'[c] \in {"idle", "load", "decide", "cas"}
    BY DEF AddWork, EndWork, NotifyLoad, NotifyDecide, NotifyCas, Done, Calls, waiterVars, TypeOK
  <1>2. Others(c)
    BY CallerAlone DEF CallerStep
  <1>3. \A d \in Caller : d # c => Held(d)' = Held(d) /\ CallAt(d)'
    BY <1>1, <1>2, OthersKept
  <1>4. Held(c) = {} /\ Held(c)' = {}
    BY <1>1, HeldIs DEF HeldIn
  <1>5. CommitInv' /\ Sleeping' = Sleeping
    BY <1>1, CommitsKept DEF LinkInv
  <1>6. ListOf(word.stack)' = ListOf(word.stack)
    BY <1>1, ListIs
  <1>7. SleepersHeld'
    BY <1>3, <1>4, <1>5, <1>6 DEF SleepersHeld, LinkInv
  <1>8. LoopFree'
    BY <1>1, <1>2, <1>5, LoopsKept DEF LinkInv
  <1>9. CallAt(c)'
    <2>1. CASE npc'[c] = "cas"
      <3>1. NotifyDecide(c) /\ ~Empty(nseen[c])
        BY <1>1, <2>1 DEF AddWork, EndWork, NotifyLoad, NotifyDecide, NotifyCas, Done, Calls, TypeOK
      <3>2. /\ nseen' = nseen /\ all' = all
            /\ link'[c] = IF Pops(c) THEN next[nseen[c].stack] ELSE none
        BY <3>1 DEF NotifyDecide, TypeOK
      <3>3. ~Empty(nseen[c])' /\ (Pops(c)' <=> Pops(c))
        BY <3>1, <3>2 DEF Empty, Pops
      <3>4. QED
        BY <1>1, <2>1, <3>2, <3>3 DEF CallAt
    <2>2. CASE npc'[c] # "cas"
      BY <1>1, <2>2 DEF CallAt
    <2>3. QED
      BY <2>1, <2>2
  <1>10. QED
    BY <1>3, <1>5, <1>6, <1>7, <1>8, <1>9 DEF LinkInv, CallInv

\* notify releases threads in pre-wait and takes nobody off the stack.
LEMMA ReleaseLists ==
  ASSUME TypeOK, LinkInv, Timely, NEW c \in Caller, NotifyCas(c), word = nseen[c],
         word.stack = none \/ (~all[c] /\ word.waiters > 0)
  PROVE  LinkInv' /\ word'.stack = word.stack /\ ListOf(word.stack)' = ListOf(word.stack)
  <1>1. /\ next' = next /\ pc' = pc /\ signal' = signal /\ seen' = seen
        /\ npc[c] = "cas" /\ npc'[c] = "idle" /\ word' = Notified(c)
    BY DEF NotifyCas, Done, Calls, waiterVars, TypeOK
  <1>2. Others(c)
    BY CallerAlone DEF CallerStep
  <1>3. word'.stack = word.stack
    <2>1. ~Empty(word) /\ word.waiters \in Nat
      BY <1>1, WordIs DEF LinkInv, CallInv, CallAt, TypeOK
    <2>2. QED
      BY <1>1, <2>1, NotifiedWord DEF Empty
  <1>4. \A d \in Caller : d # c => Held(d)' = Held(d) /\ CallAt(d)'
    BY <1>1, <1>2, <1>3, OthersKept
  <1>5. Held(c) = {} /\ Held(c)' = {}
    BY <1>1, HeldIs DEF HeldIn
  <1>6. CommitInv' /\ Sleeping' = Sleeping
    BY <1>1, CommitsKept DEF LinkInv
  <1>7. ListOf(word.stack)' = ListOf(word.stack)
    BY <1>1, <1>3, ListIs
  <1>8. SleepersHeld'
    BY <1>4, <1>5, <1>6, <1>7 DEF SleepersHeld, LinkInv
  <1>9. LoopFree'
    BY <1>1, <1>2, <1>6, LoopsKept DEF LinkInv
  <1>10. CallAt(c)'
    BY <1>1 DEF CallAt
  <1>11. QED
    BY <1>3, <1>4, <1>6, <1>7, <1>8, <1>9, <1>10 DEF LinkInv, CallInv

\* The word's stack becomes the part of it after the top, or nothing.
LEMMA TakeLists ==
  ASSUME TypeOK, LinkInv, Timely, NEW c \in Caller, NotifyCas(c), word = nseen[c],
         ~(word.stack = none \/ (~all[c] /\ word.waiters > 0))
  PROVE  /\ LinkInv'
         /\ word.stack \in ListOf(word.stack)
         /\ ListOf(word.stack)' = IF all[c] THEN {} ELSE ListOf(word.stack) \ {word.stack}
  <1> DEFINE t == word.stack
             L == ListOf(word.stack)
  <1>1. /\ next' = next /\ pc' = pc /\ signal' = signal /\ seen' = seen
        /\ npc[c] = "cas" /\ npc'[c] = (IF all[c] THEN "unpark" ELSE "clear")
        /\ target'[c] = t /\ word' = Notified(c)
    BY DEF NotifyCas, Calls, waiterVars, TypeOK
  <1>2. Others(c)
    BY CallerAlone DEF CallerStep
  <1>3. t \in Waiter /\ next \in Links /\ word.waiters \in Nat
    BY LinksTyped, WordIs DEF TypeOK
  <1>4. L = {t} \cup Reach(next, next[t]) /\ next[t] \in Waiter \cup {none}
    BY <1>3, ReachStep, ListIs DEF Links
  <1>5. t \in Sleeping \ Popped
    <2>1. t \in Sleeping
      BY <1>4 DEF LinkInv, SleepersHeld
    <2>2. ASSUME NEW d \in Caller, npc[d] = "clear"
          PROVE  target[d] # t
      <3>1. target[d] \in Held(d)
        BY <2>2, HeldIs DEF HeldIn
      <3>2. QED
        BY <1>4, <3>1 DEF LinkInv, SleepersHeld
    <2>3. QED
      BY <2>1, <2>2 DEF Popped
  <1>6. t \notin Reach(next, next[t])
    BY <1>5, ListIs DEF LinkInv, LoopFree
  <1>7. ~all[c] => word'.stack = next[t]
    <2>1. ASSUME ~all[c]
          PROVE  word'.stack = next[t]
      <3>1. word.waiters = 0
        BY <1>3, <2>1
      <3>2. word'.stack = link[c]
        BY <1>1, <2>1, <3>1, NotifiedWord
      <3>3. Pops(c) /\ nseen[c].stack \in L
        BY <1>4, <2>1, <3>1 DEF Pops
      <3>4. link[c] = next[t]
        BY <1>1, <3>3 DEF LinkInv, CallInv, CallAt
      <3>5. QED
        BY <3>2, <3>4
    <2>2. QED
      BY <2>1
  <1>8. all[c] => word'.stack = none
    BY <1>1, NotifiedWord
  <1>9. ListOf(word.stack)' = IF all[c] THEN {} ELSE L \ {t}
    <2>1. CASE all[c]
      BY <1>1, <1>8, <2>1, ListIs, ReachNone
    <2>2. CASE ~all[c]
      <3>1. ListOf(word.stack)' = Reach(next, next[t])
        BY <1>1, <1>7, <2>2, ListIs
      <3>2. QED
        BY <1>4, <1>6, <2>2, <3>1
    <2>3. QED
      BY <2>1, <2>2
  <1>10. Held(c) = {} /\ Held(c)' = IF all[c] THEN L ELSE {t}
    <2>1. Held(c) = {}
      BY <1>1, HeldIs DEF HeldIn
    <2>2. CASE all[c]
      <3>1. Held(c)' = {t} \cup Reach(next, next[t])
        BY <1>1, <2>2, HeldIs DEF HeldIn
      <3>2. QED
        BY <1>4, <2>1, <2>2, <3>1
    <2>3. CASE ~all[c]
      BY <1>1, <2>1, <2>3, HeldIs DEF HeldIn
    <2>4. QED
      BY <2>2, <2>3
  <1>11. Reach(next, word'.stack) \subseteq Reach(next, word.stack)
    BY <1>1, <1>9, ListIs
  <1>12. \A d \in Caller : d # c => Held(d)' = Held(d) /\ CallAt(d)'
    BY <1>1, <1>2, <1>11, OthersKept
  <1>13. CommitInv' /\ Sleeping' = Sleeping
    BY <1>1, CommitsKept DEF LinkInv
  <1>14. t \in L
    BY <1>4
  <1> HIDE DEF t, L
  <1>15. SleepersHeld'
    <2>1. ListOf(word.stack)' \subseteq ListOf(word.stack)
      BY <1>9 DEF L
    <2>2. ListOf(word.stack)' \cap Held(c)' = {}
      BY <1>9, <1>10
    <2>3. ListOf(word.stack)' \cup Held(c)' = (ListOf(word.stack) \cup Held(c)) \ {}
      BY <1>9, <1>10, <1>14 DEF L
    <2>4. Sleeping' = Sleeping \ {} /\ {} \subseteq Held(c)
      BY <1>13
    <2>5. QED
      BY <1>12, <2>1, <2>2, <2>3, <2>4, Handed DEF LinkInv
  <1>16. LoopFree'
    BY <1>1, <1>2, <1>13, LoopsKept DEF LinkInv
  <1>17. CallAt(c)'
    BY <1>1, <1>3 DEF CallAt
  <1>18. QED
    BY <1>9, <1>12, <1>13, <1>14, <1>15, <1>16, <1>17 DEF LinkInv, CallInv, t, L

\* A waiter that has been popped is in no list, so its link can be cleared.
LEMMA ClearLists ==
  ASSUME TypeOK, LinkInv, Timely, NEW c \in Caller, NotifyClear(c)
  PROVE  LinkInv' /\ ListOf(word.stack)' = ListOf(word.stack)
  <1> DEFINE t == target[c]
  <1>1. /\ next' = [next EXCEPT ![t] = none] /\ word' = word
        /\ pc' = pc /\ signal' = signal /\ seen' = seen
        /\ npc[c] = "clear" /\ npc'[c] = "unpark" /\ target' = target /\ link' = link
    BY DEF NotifyClear, Calls, waiterVars, TypeOK
  <1>2. Others(c)
    BY CallerAlone DEF CallerStep
  <1>3. /\ t \in Waiter /\ next \in Links /\ word.stack \in Waiter \cup {none}
        /\ none \in Waiter \cup {none} /\ CallAt(c)
    BY <1>1, LinksTyped, InLists DEF LinkInv, CallInv, CallAt
  <1>4. Held(c) = {t}
    BY <1>1, HeldIs DEF HeldIn
  <1> HIDE DEF t
  <1>5. next' \in Links /\ next'[t] = none /\ \A v \in Waiter : v # t => next'[v] = next[v]
    BY <1>1, <1>3 DEF Links
  <1>6. t \notin Reach(next, word.stack) /\ \A d \in Caller : d # c => t \notin Held(d)
    BY <1>4, ListIs DEF LinkInv, SleepersHeld
  <1>7. \A v \in Reach(next, word.stack) : next'[v] = next[v]
    BY <1>3, <1>5, <1>6, ReachClosed
  <1>8. Reach(next', word.stack) = Reach(next, word.stack)
    BY <1>3, <1>5, <1>7, ReachSame
  <1>9. ASSUME NEW d \in Caller, d # c
        PROVE  Held(d)' = Held(d) /\ CallAt(d)'
    <2>1. \A v \in Held(d) : next'[v] = next[v]
      BY <1>5, <1>6, <1>9, InLists DEF LinkInv
    <2>2. /\ npc'[d] = npc[d] /\ nseen'[d] = nseen[d]
          /\ all'[d] = all[d] /\ link'[d] = link[d] /\ target'[d] = target[d]
      BY <1>2, <1>9 DEF Others
    <2>3. link[d] \in Waiter \cup {none} /\
          (npc[d] \in {"clear", "unpark", "signal", "wake"} => target[d] \in Waiter)
      BY DEF TypeOK, LinkInv, CallInv, CallAt
    <2>4. HeldIn(next', npc[d], target[d], link[d]) = HeldIn(next, npc[d], target[d], link[d])
      BY <1>3, <1>5, <2>1, <2>3, HeldIs, HeldSame
    <2>5. Held(d)' = Held(d)
      BY <2>2, <2>4, HeldIs
    <2>6. npc[d] = "signal" => target[d] \in Held(d)
      BY HeldIs DEF HeldIn
    <2>7. CallAt(d)'
      BY <1>1, <1>7, <1>8, <2>1, <2>2, <2>6, CallKept DEF LinkInv
    <2>8. QED
      BY <2>5, <2>7
  <1>10. Held(c)' = {t}
    <2>1. Held(c)' = {t} \cup Reach(next', none)
      BY <1>1, <1>5, HeldIs DEF HeldIn, t
    <2>2. QED
      BY <2>1, ReachNone
  <1>11. ListOf(word.stack)' = ListOf(word.stack)
    BY <1>1, <1>8, ListIs
  <1>12. Sleeping' = Sleeping
    BY <1>1 DEF Sleeping
  <1>13. SleepersHeld'
    <2>1. \A d \in Caller : Held(d)' = Held(d)
      BY <1>4, <1>9, <1>10
    <2>2. QED
      BY <1>11, <1>12, <2>1 DEF SleepersHeld, LinkInv
  <1>14. LoopFree'
    <2>1. ASSUME NEW v \in Sleeping, v \notin Popped \/ v = t
          PROVE  v \notin Reach(next', next'[v])
      <3>1. CASE v = t
        BY <1>5, <3>1, ReachNone
      <3>2. CASE v # t
        <4>1. v \in Sleeping \ Popped /\ v \in Waiter
          BY <2>1, <3>2, InLists DEF LinkInv
        <4>2. v \notin Reach(next, next[v]) /\ next[v] \in Waiter \cup {none}
          BY <1>3, <4>1, ListIs DEF LinkInv, LoopFree, Links
        <4>3. t \notin Reach(next, next[v])
          <5>1. CASE v \in Reach(next, word.stack)
            BY <1>3, <1>6, <5>1, ReachWithin
          <5>2. CASE v \notin Reach(next, word.stack)
            <6>1. PICK d \in Caller : v \in Held(d)
              BY <4>1, <5>2, ListIs DEF LinkInv, SleepersHeld
            <6>2. d # c
              BY <1>4, <3>2, <6>1
            <6>3. npc[d] # "clear"
              BY <4>1, <6>1, HeldIs DEF HeldIn, Popped
            <6>4. QED
              BY <1>6, <6>1, <6>2, <6>3, HeldChained DEF LinkInv
          <5>3. QED
            BY <5>1, <5>2
        <4>4. \A u \in Reach(next, next[v]) : next'[u] = next[u]
          BY <1>3, <1>5, <4>2, <4>3, ReachClosed
        <4>5. Reach(next', next[v]) = Reach(next, next[v])
          BY <1>3, <1>5, <4>2, <4>4, ReachSame
        <4>6. QED
          BY <1>5, <3>2, <4>1, <4>2, <4>5
      <3>3. QED
        BY <3>1, <3>2
    <2>2. ASSUME NEW v \in Popped, v # t
          PROVE  v \in Popped'
      <3>1. PICK d \in Caller : npc[d] = "clear" /\ v = target[d]
        BY <2>2 DEF Popped
      <3>2. d # c
        BY <2>2, <3>1 DEF t
      <3>3. npc'[d] = "clear" /\ v = target'[d]
        BY <1>2, <3>1, <3>2 DEF Others
      <3>4. QED
        BY <3>3 DEF Popped
    <2>3. \A v \in Sleeping' \ Popped' : v \notin Reach(next', next'[v])
      BY <1>12, <2>1, <2>2
    <2>4. QED
      BY <2>3 DEF LoopFree, ListOf, Reach, Closed
  <1>15. CommitInv'
    <2>1. t \in Sleeping
      BY <1>4, InLists DEF LinkInv
    <2>2. pc[t] # "commit cas"
      BY <2>1 DEF Sleeping
    <2>3. QED
      BY <1>1, <1>5, <2>2 DEF CommitInv, CommitAt, LinkInv
  <1>16. CallAt(c)'
    BY <1>1, <1>3 DEF CallAt, t
  <1>17. QED
    BY <1>9, <1>11, <1>13, <1>14, <1>15, <1>16 DEF LinkInv, CallInv

\* _unpark goes from a waiter to the next: it lets go of each that it signals.
LEMMA UnparkLists ==
  ASSUME TypeOK, LinkInv, Timely, NEW c \in Caller,
         UnparkNext(c) \/ UnparkSignal(c) \/ UnparkWake(c)
  PROVE  /\ LinkInv'
         /\ ListOf(word.stack)' = ListOf(word.stack)
         /\ Sleeping' = IF UnparkSignal(c) THEN Sleeping \ {target[c]} ELSE Sleeping
         /\ npc[c] = "signal" => target[c] \in Held(c)
  <1> DEFINE t == target[c]
             G == IF npc[c] = "signal" THEN {t} ELSE {}
  <1>1. /\ next' = next /\ word' = word /\ seen' = seen
        /\ npc[c] \in {"unpark", "signal", "wake"}
        /\ UnparkNext(c) <=> npc[c] = "unpark"
        /\ UnparkSignal(c) <=> npc[c] = "signal"
        /\ UnparkWake(c) <=> npc[c] = "wake"
    BY DEF UnparkNext, UnparkSignal, UnparkWake, waiterVars
  <1>2. Others(c)
    BY CallerAlone DEF CallerStep
  <1>3. t \in Waiter /\ next \in Links /\ CallAt(c) /\ link[c] \in Waiter \cup {none}
    BY <1>1, LinksTyped DEF LinkInv, CallInv, CallAt, TypeOK
  <1>4. \A d \in Caller : d # c => Held(d)' = Held(d) /\ CallAt(d)'
    BY <1>1, <1>2, OthersKept
  <1>5. ListOf(word.stack)' = ListOf(word.stack)
    BY <1>1, ListIs
  <1>6. npc[c] = "signal" => t \in Held(c) /\ t \in Sleeping
    <2>1. npc[c] = "signal" => t \in Held(c)
      BY HeldIs DEF HeldIn
    <2>2. QED
      BY <2>1, InLists DEF LinkInv
  <1> HIDE DEF t
  <1>7. Sleeping' = Sleeping \ G
    <2>1. CASE UnparkNext(c)
      BY <1>1, <2>1 DEF UnparkNext, waiterVars, Sleeping
    <2>2. CASE UnparkSignal(c)
      <3>1. pc' = pc /\ signal' = [signal EXCEPT ![t] = "signaled"]
        BY <2>2 DEF UnparkSignal, waiterVars, t
      <3>2. \A v \in Waiter : signal'[v] = IF v = t THEN "signaled" ELSE signal[v]
        BY <3>1 DEF TypeOK
      <3>3. QED
        BY <1>1, <2>2, <3>1, <3>2 DEF Sleeping
    <2>3. CASE UnparkWake(c)
      <3>1. /\ signal' = signal
            /\ pc' = pc \/ (pc[t] = "blocked" /\ pc' = [pc EXCEPT ![t] = "park"])
        BY <2>3 DEF UnparkWake, Goes, t
      <3>2. \A v \in Waiter : pc'[v] = pc[v] \/ (pc[v] = "blocked" /\ pc'[v] = "park")
        BY <1>3, <3>1 DEF TypeOK
      <3>3. QED
        BY <1>1, <2>3, <3>1, <3>2 DEF Sleeping
    <2>4. QED
      BY <2>1, <2>2, <2>3
  <1>8. CommitInv'
    <2>1. \A v \in Waiter : /\ pc'[v] = pc[v] \/ (pc[v] = "blocked" /\ pc'[v] = "park")
                            /\ signal'[v] = signal[v] \/ (npc[c] = "signal" /\ v = t)
      <3>1. CASE UnparkNext(c)
        BY <3>1 DEF UnparkNext, waiterVars
      <3>2. CASE UnparkSignal(c)
        BY <1>1, <3>2 DEF UnparkSignal, waiterVars, TypeOK, t
      <3>3. CASE UnparkWake(c)
        BY <1>3, <3>3 DEF UnparkWake, Goes, TypeOK, t
      <3>4. QED
        BY <3>1, <3>2, <3>3
    <2>2. npc[c] = "signal" => pc[t] \in {"park", "blocked"}
      BY <1>6 DEF Sleeping
    <2>3. QED
      BY <1>1, <2>1, <2>2 DEF LinkInv, CommitInv, CommitAt
  <1>9. /\ Held(c)' = Held(c) \ G
        /\ CallAt(c)'
    <2>1. CASE UnparkNext(c)
      <3>1. npc'[c] = "signal" /\ target'[c] = t /\ link'[c] = next[t]
        BY <2>1 DEF UnparkNext, Calls, TypeOK, t
      <3>2. Held(c)' = {t} \cup Reach(next, next[t])
        BY <1>1, <3>1, HeldIs DEF HeldIn
      <3>3. Held(c) = {t} \cup Reach(next, next[t]) /\ G = {}
        BY <1>1, <2>1, HeldIs DEF HeldIn, t
      <3>4. CallAt(c)'
        BY <1>1, <1>3, <3>1 DEF CallAt
      <3>5. QED
        BY <3>2, <3>3, <3>4
    <2>2. CASE UnparkSignal(c)
      <3>1. Held(c) = {t} \cup Reach(next, link[c]) /\ link[c] = next[t] /\ G = {t}
        BY <1>1, <1>3, <2>2, HeldIs DEF HeldIn, CallAt, t
      <3>2. t \notin Reach(next, link[c])
        <4>1. t \notin Popped
          <5>1. ASSUME NEW d \in Caller, npc[d] = "clear"
                PROVE  target[d] # t
            <6>1. d # c /\ target[d] \in Held(d)
              BY <1>1, <2>2, <5>1, HeldIs DEF HeldIn
            <6>2. QED
              BY <1>1, <1>6, <2>2, <6>1 DEF LinkInv, SleepersHeld
          <5>2. QED
            BY <5>1 DEF Popped
        <4>2. QED
          BY <1>1, <1>6, <2>2, <3>1, <4>1, ListIs DEF LinkInv, LoopFree
      <3>3. Held(c)' = Reach(next, link[c]) /\ CallAt(c)'
        <4>1. CASE Follow(c)
          BY <1>1, <4>1, FollowKeeps
        <4>2. CASE ~Follow(c)
          <5>1. npc'[c] = "wake" /\ target'[c] = t /\ link'[c] = link[c]
            BY <2>2, <4>2 DEF UnparkSignal, Calls, TypeOK, t
          <5>2. QED
            BY <1>1, <1>3, <5>1, HeldIs DEF HeldIn, CallAt
        <4>3. QED
          BY <4>1, <4>2
      <3>4. QED
        BY <3>1, <3>2, <3>3
    <2>3. CASE UnparkWake(c)
      <3>1. Held(c)' = Reach(next, link[c]) /\ CallAt(c)'
        BY <1>1, <2>3, FollowKeeps DEF UnparkWake
      <3>2. Held(c) = Reach(next, link[c]) /\ G = {}
        BY <1>1, <2>3, HeldIs DEF HeldIn
      <3>3. QED
        BY <3>1, <3>2
    <2>4. QED
      BY <2>1, <2>2, <2>3
  <1>10. G \subseteq Held(c) /\ G \cap ListOf(word.stack) = {}
    BY <1>6 DEF LinkInv, SleepersHeld
  <1>11. SleepersHeld'
    <2>1. SleepersHeld /\ ListOf(word.stack) \cap Held(c) = {}
      BY DEF LinkInv, SleepersHeld
    <2> HIDE DEF G
    <2>2. /\ ListOf(word.stack)' \cup Held(c)' = (ListOf(word.stack) \cup Held(c)) \ G
          /\ ListOf(word.stack)' \cap Held(c)' = {}
          /\ ListOf(word.stack)' \subseteq ListOf(word.stack)
      BY <1>5, <1>9, <1>10, <2>1
    <2>3. QED
      BY <1>4, <1>7, <1>10, <2>1, <2>2, Handed
  <1>12. LoopFree'
    <2>1. Sleeping' \subseteq Sleeping /\ npc[c] # "clear"
      BY <1>1, <1>7
    <2>2. QED
      BY <1>1, <1>2, <2>1, LoopsKept DEF LinkInv
  <1>13. QED
    BY <1>1, <1>4, <1>5, <1>6, <1>7, <1>8, <1>9, <1>11, <1>12 DEF LinkInv, CallInv, t

LEMMA CallerLinks ==
  ASSUME TypeOK, LinkInv, Timely, NEW c \in Caller, CallerStep(c)
  PROVE  LinkInv'
  BY CallLists, ReleaseLists, TakeLists, ClearLists, UnparkLists DEF CallerStep

-----------------------------------------------------------------------------
(***************************************************************************)
(* What a step changes of who is in pre-wait, on the stack or parked.      *)
(***************************************************************************)
Stacked == ListOf(word.stack)
Parked == {w \in Waiter : pc[w] \in {"park", "blocked"}}
Engaged == Announced \cup Parked

Moved(pre, stk, eng) == Prewait' = pre /\ Stacked' = stk /\ Engaged' = eng

\* A step of waiter w: none of it, or w announces itself, sleeps, cancels, or
\* returns after a notify.
WaiterMove(w) ==
  \/ Moved(Prewait, Stacked, Engaged)
  \/ /\ Prepare(w) /\ w \notin Engaged
     /\ Moved(Prewait \cup {w}, Stacked, Engaged \cup {w})
  \/ /\ CommitCas(w) /\ w \in Prewait
     /\ Moved(Prewait \ {w}, Stacked \cup {w}, Engaged)
  \/ /\ CancelCas(w) /\ w \in Prewait
     /\ Moved(Prewait \ {w}, Stacked, Engaged \ {w})
  \/ /\ w \in Engaged \ (Prewait \cup Stacked)
     /\ Moved(Prewait, Stacked, Engaged \ {w})

\* A step of caller c: none of it, or all those that wait are released, or one.
CallerMove(c) ==
  \/ /\ Moved(Prewait, Stacked, Engaged)
     /\ ~(NotifyCas(c) /\ word = nseen[c])
  \/ /\ NotifyCas(c) /\ word = nseen[c]
     /\ \/ Moved({}, {}, Engaged)
        \/ \E v \in Prewait \cup Stacked : Moved(Prewait \ {v}, Stacked \ {v}, Engaged)

\* The three sets, and what they say of the phase of a waiter.
LEMMA Places ==
  ASSUME SleepersHeld
  PROVE  /\ Prewait \subseteq Announced /\ Stacked \subseteq Parked
         /\ Announced \cap Parked = {} /\ Engaged \subseteq Waiter
         /\ Prewait \cap Stacked = {}
  <1>1. Stacked \subseteq Parked
    BY DEF SleepersHeld, Stacked, Parked, Sleeping
  <1>2. Prewait \subseteq Announced /\ Announced \cap Parked = {} /\ Engaged \subseteq Waiter
    BY DEF Prewait, Announced, Parked, Engaged
  <1>3. QED
    BY <1>1, <1>2

LEMMA WaiterMoves ==
  ASSUME TypeOK, TurnInv, SeenInv, LinkInv, Timely, NEW w \in Waiter,
         WaiterStep(w) \/ SpuriousWakeup(w)
  PROVE  TurnInv' /\ SeenInv' /\ LinkInv' /\ WaiterMove(w)
  <1>0. /\ Prewait \subseteq Announced /\ Stacked \subseteq Parked
        /\ Announced \cap Parked = {} /\ Prewait \cap Stacked = {}
    BY Places DEF LinkInv
  <1>1. CASE Prepare(w)
    <2>1. /\ Announced' = Announced \cup {w} /\ Prewait' = Prewait \cup {w}
          /\ TurnInv' /\ SeenInv'
      BY <1>1, PrepareTurn
    <2>2. LinkInv' /\ Stacked' = Stacked
      BY <1>1, WaiterLinks DEF Prepare, CommitLink, CommitCas, MyTurn, Stacked, WaiterStep
    <2>3. Parked' = Parked /\ w \notin Engaged
      BY <1>1 DEF Prepare, Goes, Parked, Announced, Engaged, TypeOK
    <2>4. QED
      BY <1>1, <2>1, <2>2, <2>3 DEF WaiterMove, Moved, Engaged
  <1>2. CASE CommitCas(w) /\ word = seen[w]
    <2>1. /\ w \in Prewait /\ Announced' = Announced \ {w} /\ Prewait' = Prewait \ {w}
          /\ TurnInv' /\ SeenInv'
      BY <1>2, DecideTurn
    <2>2. LinkInv' /\ Stacked' = Stacked \cup {w}
      BY <1>2, PushLists DEF Stacked
    <2>3. Parked' = Parked \cup {w}
      BY <1>2 DEF CommitCas, Leaves, Goes, Parked, TypeOK
    <2>4. Engaged' = Engaged
      BY <1>0, <2>1, <2>3 DEF Engaged
    <2>5. QED
      BY <1>2, <2>1, <2>2, <2>4 DEF WaiterMove, Moved
  <1>3. CASE CancelCas(w) /\ word = seen[w]
    <2>1. /\ w \in Prewait /\ Announced' = Announced \ {w} /\ Prewait' = Prewait \ {w}
          /\ TurnInv' /\ SeenInv'
      BY <1>3, DecideTurn
    <2>2. LinkInv' /\ Stacked' = Stacked
      BY <1>3, WaiterLinks DEF CancelCas, CommitLink, CommitCas, MyTurn, Stacked, WaiterStep
    <2>3. Parked' = Parked
      BY <1>3 DEF CancelCas, MyTurn, Back, Leaves, Goes, Parked, TypeOK
    <2>4. Engaged' = Engaged \ {w}
      BY <1>0, <2>1, <2>3 DEF Engaged
    <2>5. QED
      BY <1>3, <2>1, <2>2, <2>4 DEF WaiterMove, Moved
  <1>4. CASE \E at \in {"commit", "cancel"} : WasNotified(w, at)
    <2>1. PICK at \in {"commit", "cancel"} : WasNotified(w, at)
      BY <1>4
    <2>2. /\ w \in Announced \ Prewait /\ Announced' = Announced \ {w} /\ Prewait' = Prewait
          /\ TurnInv' /\ SeenInv'
      BY <2>1, NotifiedTurn
    <2>3. ~CommitLink(w) /\ ~CommitCas(w)
      <3>1. Ahead(seen[w], w) /\ pc[w] \in {"commit", "cancel"}
        BY <2>1 DEF WasNotified
      <3>2. seen[w].epoch # Turn(w)
        <4>1. seen[w] \in Word
          BY DEF TypeOK
        <4>2. seen[w].epoch \in Epoch /\ Turn(w) \in Epoch
          BY <4>1, WordIs, TurnIs
        <4>3. QED
          BY <3>1, <4>1, <4>2, Compare, Numbers DEF Gap, Epoch
      <3>3. QED
        BY <3>1, <3>2 DEF CommitLink, MyTurn, CommitCas
    <2>4. LinkInv' /\ Stacked' = Stacked
      BY <2>1, <2>3, WaiterLinks DEF Stacked, WaiterStep
    <2>5. Parked' = Parked
      BY <2>1 DEF WasNotified, Back, Leaves, Goes, Parked, TypeOK
    <2>6. Engaged' = Engaged \ {w} /\ w \in Engaged \ (Prewait \cup Stacked)
      BY <1>0, <2>2, <2>5 DEF Engaged
    <2>7. QED
      BY <2>2, <2>4, <2>6 DEF WaiterMove, Moved
  <1>5. CASE Park(w)
    <2>1. Announced' = Announced /\ Prewait' = Prewait /\ TurnInv' /\ SeenInv'
      BY <1>5, WaiterQuiet, QuietTurns DEF QuietStep
    <2>2. LinkInv' /\ Stacked' = Stacked
      BY <1>5, WaiterLinks DEF Park, CommitLink, CommitCas, MyTurn, Stacked, WaiterStep
    <2>3. CASE signal[w] = "signaled"
      <3>1. Parked' = Parked \ {w} /\ w \in Parked
        BY <1>5, <2>3 DEF Park, Back, Leaves, Goes, Parked, TypeOK
      <3>2. w \notin Stacked
        BY <2>3 DEF Stacked, LinkInv, SleepersHeld, Sleeping
      <3>3. Engaged' = Engaged \ {w} /\ w \in Engaged \ (Prewait \cup Stacked)
        BY <1>0, <2>1, <3>1, <3>2 DEF Engaged
      <3>4. QED
        BY <2>1, <2>2, <3>3 DEF WaiterMove, Moved
    <2>4. CASE signal[w] # "signaled"
      <3>1. Parked' = Parked
        BY <1>5, <2>4 DEF Park, Goes, Parked, TypeOK
      <3>2. QED
        BY <2>1, <2>2, <3>1 DEF WaiterMove, Moved, Engaged
    <2>5. QED
      BY <2>3, <2>4
  <1>6. CASE \/ Check(w) \/ Recheck(w) \/ CommitLoad(w) \/ CommitLink(w)
             \/ CancelLoad(w) \/ SpuriousWakeup(w)
             \/ CommitCas(w) /\ word # seen[w]
             \/ CancelCas(w) /\ word # seen[w]
             \/ \E at \in {"commit", "cancel"} : Await(w, at)
    <2>1. Announced' = Announced /\ Prewait' = Prewait /\ TurnInv' /\ SeenInv'
      BY <1>6, WaiterQuiet, QuietTurns DEF QuietStep
    <2>2. LinkInv' /\ Stacked' = Stacked
      <3>1. CASE CommitLink(w)
        <4>1. LinkInv'
          BY <3>1, LinkLists
        <4>2. word' = word /\ w \notin Stacked /\ w \in Waiter
          BY <1>0, <3>1 DEF CommitLink, MyTurn, Parked
        <4>3. next \in Links /\ next' \in Links /\ word.stack \in Waiter \cup {none}
          BY <3>1, LinksTyped, InLists, WordIs DEF LinkInv, CommitLink, TypeOK, Links
        <4>4. \A v \in Reach(next, word.stack) : next'[v] = next[v]
          BY <3>1, <4>2, <4>3, ListIs, ReachClosed DEF CommitLink, Stacked, Links
        <4>5. Stacked' = Stacked
          BY <4>2, <4>3, <4>4, ListIs, ReachSame DEF Stacked
        <4>6. QED
          BY <4>1, <4>5
      <3>2. CASE ~CommitLink(w)
        <4>1. ~(CommitCas(w) /\ word = seen[w])
          BY <1>6, <3>2 DEF Check, Recheck, CommitLoad, CancelLoad, SpuriousWakeup, CommitCas,
                            CancelCas, MyTurn, Await
        <4>2. WaiterStep(w) \/ SpuriousWakeup(w)
          OBVIOUS
        <4>3. QED
          BY <3>2, <4>1, <4>2, WaiterLinks DEF Stacked
      <3>3. QED
        BY <3>1, <3>2
    <2>3. Parked' = Parked
      BY <1>6 DEF Check, Recheck, CommitLoad, CommitLink, CancelLoad, SpuriousWakeup, CommitCas,
                  CancelCas, Await, MyTurn, Goes, Parked, TypeOK
    <2>4. QED
      BY <2>1, <2>2, <2>3 DEF WaiterMove, Moved, Engaged
  <1>7. QED
    BY <1>1, <1>2, <1>3, <1>4, <1>5, <1>6 DEF WaiterStep

LEMMA CallerMoves ==
  ASSUME TypeOK, TurnInv, SeenInv, LinkInv, Timely, NEW c \in Caller, CallerStep(c)
  PROVE  TurnInv' /\ SeenInv' /\ LinkInv' /\ CallerMove(c)
  <1>0. /\ Prewait \subseteq Announced /\ Stacked \subseteq Parked
        /\ Announced \cap Parked = {} /\ Prewait \cap Stacked = {}
    BY Places DEF LinkInv
  <1>1. LinkInv'
    BY CallerLinks
  <1>2. CASE ~(NotifyCas(c) /\ word = nseen[c])
    <2>1. Announced' = Announced /\ Prewait' = Prewait /\ TurnInv' /\ SeenInv'
      BY <1>2, CallerQuiet, QuietTurns DEF QuietStep
    <2>2. Stacked' = Stacked
      BY <1>2, CallLists, ClearLists, UnparkLists DEF CallerStep, Stacked, NotifyCas
    <2>3. Parked' = Parked
      <3>1. \/ pc' = pc
            \/ pc[target[c]] = "blocked" /\ pc' = [pc EXCEPT ![target[c]] = "park"]
        BY DEF CallerStep, AddWork, EndWork, NotifyLoad, NotifyDecide, NotifyCas, NotifyClear,
               UnparkNext, UnparkSignal, UnparkWake, Goes, waiterVars
      <3>2. QED
        BY <3>1 DEF Parked, TypeOK
    <2>4. QED
      BY <1>1, <1>2, <2>1, <2>2, <2>3 DEF CallerMove, Moved, Engaged
  <1>3. CASE NotifyCas(c) /\ word = nseen[c]
    <2>1. /\ Announced' = Announced /\ Prewait' = {v \in Prewait : Left(v) >= Releases(c)}
          /\ TurnInv' /\ SeenInv'
      BY <1>3, NotifyTurn
    <2>2. Engaged' = Engaged
      BY <1>3, <2>1 DEF NotifyCas, waiterVars, Engaged, Parked
    <2>3. /\ word.waiters \in Nat
          /\ \A v \in Prewait : Left(v) \in Nat /\ Left(v) < word.waiters
      BY WordIs, PrewaitIs DEF TypeOK, TurnInv, Prewait
    <2>4. CASE all[c]
      <3>1. Prewait' = {}
        BY <2>1, <2>3, <2>4 DEF Releases
      <3>2. Stacked' = {}
        <4>1. CASE word.stack = none
          BY <1>3, <4>1, ReleaseLists, ListIs, ReachNone DEF Stacked
        <4>2. CASE word.stack # none
          BY <1>3, <2>4, <4>2, TakeLists DEF Stacked
        <4>3. QED
          BY <4>1, <4>2
      <3>3. QED
        BY <1>1, <1>3, <2>1, <2>2, <3>1, <3>2 DEF CallerMove, Moved
    <2>5. CASE ~all[c] /\ word.waiters > 0
      <3>1. PICK v \in Prewait : Left(v) = 0
        <4>1. 0 \in 0..(word.waiters - 1)
          BY <2>3, <2>5
        <4>2. QED
          BY <4>1 DEF TurnInv
      <3>2. Releases(c) = 1
        BY <2>5 DEF Releases
      <3>3. \A u \in Prewait : Left(u) >= 1 <=> u # v
        BY <2>3, <3>1 DEF TurnInv
      <3>4. Prewait' = Prewait \ {v}
        BY <2>1, <3>2, <3>3
      <3>5. Stacked' = Stacked \ {v}
        BY <1>0, <1>3, <2>5, ReleaseLists DEF Stacked
      <3>6. QED
        BY <1>1, <1>3, <2>1, <2>2, <3>4, <3>5 DEF CallerMove, Moved
    <2>6. CASE ~all[c] /\ ~(word.waiters > 0)
      <3>1. word.stack # none
        BY <1>3, <2>3, <2>6 DEF NotifyCas, LinkInv, CallInv, CallAt, Empty
      <3>2. Prewait = {} /\ Prewait' = {}
        BY <2>1, <2>3, <2>6
      <3>3. word.stack \in Stacked /\ Stacked' = Stacked \ {word.stack}
        BY <1>3, <2>6, <3>1, TakeLists DEF Stacked
      <3>4. QED
        BY <1>1, <1>3, <2>1, <2>2, <3>2, <3>3 DEF CallerMove, Moved
    <2>7. QED
      BY <2>4, <2>5, <2>6
  <1>4. QED
    BY <1>2, <1>3

-----------------------------------------------------------------------------
(***************************************************************************)
(* Every step leaves threads enough to take the work.                      *)
(***************************************************************************)
Committing == {"commit load", "commit", "commit cas"}

LEMMA Phases ==
  ASSUME SleepersHeld
  PROVE  /\ \A w \in Waiter : PhaseOf(w) = IF w \in Prewait THEN "prewait"
                                           ELSE IF w \in Stacked THEN "asleep"
                                           ELSE IF w \in Engaged THEN "released" ELSE "away"
         /\ Committed = Stacked \cup {w \in Prewait : pc[w] \in Committing}
         /\ Free = {w \in Waiter : w \notin Prewait \cup Stacked /\ pc[w] # "prepare"}
  <1>1. /\ Prewait \subseteq Announced /\ Stacked \subseteq Parked
        /\ Announced \cap Parked = {} /\ Engaged \subseteq Waiter
        /\ Prewait \cap Stacked = {}
    BY Places
  <1>2. \A w \in Waiter : PhaseOf(w) = IF w \in Prewait THEN "prewait"
                                       ELSE IF w \in Stacked THEN "asleep"
                                       ELSE IF w \in Engaged THEN "released" ELSE "away"
    BY <1>1 DEF PhaseOf, Parked, Engaged, Stacked
  <1>3. Committed = Stacked \cup {w \in Prewait : pc[w] \in Committing}
    BY <1>1, <1>2 DEF Committed, Committing, Engaged
  <1>4. Free = {w \in Waiter : w \notin Prewait \cup Stacked /\ pc[w] # "prepare"}
    BY <1>1, <1>2 DEF Free, Engaged
  <1>5. QED
    BY <1>2, <1>3, <1>4

\* The same after a step.
LEMMA PhasesNext ==
  ASSUME SleepersHeld'
  PROVE  /\ \A w \in Waiter : PhaseOf(w)' = IF w \in Prewait' THEN "prewait"
                                            ELSE IF w \in Stacked' THEN "asleep"
                                            ELSE IF w \in Engaged' THEN "released" ELSE "away"
         /\ Committed' = Stacked' \cup {w \in Prewait' : pc'[w] \in Committing}
         /\ Free' = {w \in Waiter : w \notin Prewait' \cup Stacked' /\ pc'[w] # "prepare"}
  <1>1. Stacked' \subseteq Parked'
    BY DEF SleepersHeld, Stacked, Parked, Sleeping
  <1>2. Prewait' \subseteq Announced' /\ Announced' \cap Parked' = {} /\ Engaged' \subseteq Waiter
    BY DEF Prewait, Announced, Parked, Engaged
  <1>3. \A w \in Waiter : PhaseOf(w)' = IF w \in Prewait' THEN "prewait"
                                        ELSE IF w \in Stacked' THEN "asleep"
                                        ELSE IF w \in Engaged' THEN "released" ELSE "away"
    BY <1>1, <1>2 DEF PhaseOf, Parked, Engaged, Stacked
  <1>4. Committed' = Stacked' \cup {w \in Prewait' : pc'[w] \in Committing}
    BY <1>1, <1>2, <1>3 DEF Committed, Committing, Engaged
  <1>5. Free' = {w \in Waiter : w \notin Prewait' \cup Stacked' /\ pc'[w] # "prepare"}
    BY <1>1, <1>2, <1>3 DEF Free, Engaged
  <1>6. QED
    BY <1>3, <1>4, <1>5

LEMMA Larger ==
  ASSUME NEW T, IsFiniteSet(T), NEW A \in SUBSET T, NEW B \in SUBSET T, A \subseteq B
  PROVE  /\ Cardinality(A) \in Nat /\ Cardinality(B) \in Nat
         /\ Cardinality(A) <= Cardinality(B)
         /\ A # B => Cardinality(A) < Cardinality(B)
  <1>1. IsFiniteSet(A) /\ IsFiniteSet(B)
    BY FS_Subset
  <1>2. Cardinality(A) \in Nat /\ Cardinality(B) \in Nat /\ Cardinality(A) <= Cardinality(B)
    BY <1>1, FS_CardinalityType, FS_Subset
  <1>3. ASSUME A # B
        PROVE  Cardinality(A) < Cardinality(B)
    <2>1. PICK x \in B : x \notin A
      BY <1>3
    <2>2. IsFiniteSet(B \ {x}) /\ Cardinality(B \ {x}) = Cardinality(B) - 1
      BY <1>1, <2>1, FS_RemoveElement
    <2>3. A \subseteq B \ {x}
      BY <2>1
    <2>4. Cardinality(A) <= Cardinality(B \ {x})
      BY <2>2, <2>3, FS_Subset
    <2>5. QED
      BY <1>2, <2>2, <2>4
  <1>4. QED
    BY <1>2, <1>3

\* No fewer are free or pending, and no more committed, unless there is no work.
LEMMA WaiterWork ==
  ASSUME TypeOK, TurnInv, SeenInv, LinkInv, WorkInv, Timely, NEW w \in Waiter,
         WaiterStep(w) \/ SpuriousWakeup(w)
  PROVE  WorkInv'
  <1>1. /\ \A v \in Waiter : v # w => pc'[v] = pc[v]
        /\ pc'[w] = "prepare" => work' = 0 \/ pc'[w] = pc[w]
        /\ pc'[w] \in Committing => work' = 0 \/ pc[w] \in Committing
        /\ pc'[w] = "out" => over /\ work' = 0
        /\ work' = work \/ (work > 0 /\ work' = work - 1)
        /\ added' = added /\ over' = over /\ UNCHANGED callerVars
    <2>1. CASE Check(w)
      <3>1. pc[w] = "check" /\ work \in Nat
        BY <2>1, NotifierAssumption DEF Check, TypeOK, NotifierAssumption
      <3>2. QED
        BY <2>1, <3>1 DEF Check, Goes, TypeOK, Committing
    <2>2. CASE Prepare(w) \/ CommitLoad(w) \/ CancelLoad(w) \/ SpuriousWakeup(w)
      BY <2>2 DEF Prepare, CommitLoad, CancelLoad, SpuriousWakeup, Goes, TypeOK, Committing, workVars
    <2>3. CASE Recheck(w)
      <3>1. work \in Nat
        BY NotifierAssumption DEF TypeOK, NotifierAssumption
      <3>2. pc' = [pc EXCEPT ![w] = IF work > 0 \/ over THEN "cancel load" ELSE "commit load"]
            /\ UNCHANGED <<workVars, callerVars>>
        BY <2>3 DEF Recheck, Goes
      <3>3. \A v \in Waiter : v # w => pc'[v] = pc[v]
        BY <3>2 DEF TypeOK
      <3>4. CASE work > 0 \/ over
        BY <3>2, <3>3, <3>4 DEF TypeOK, Committing, workVars
      <3>5. CASE ~(work > 0 \/ over)
        <4>1. work = 0
          BY <3>1, <3>5
        <4>2. pc'[w] = "commit load"
          BY <3>2, <3>5 DEF TypeOK
        <4>3. work' = 0 /\ added' = added /\ over' = over /\ UNCHANGED callerVars
          BY <3>2, <4>1 DEF workVars
        <4>4. QED
          BY <3>3, <4>1, <4>2, <4>3
      <3>6. QED
        BY <3>4, <3>5
    <2>4. CASE CommitLink(w) \/ CommitCas(w) \/ CancelCas(w)
      BY <2>4 DEF CommitLink, CommitCas, CancelCas, MyTurn, Back, Leaves, Goes, TypeOK,
                  Committing, workVars
    <2>5. CASE Park(w) \/ \E at \in {"commit", "cancel"} : Await(w, at) \/ WasNotified(w, at)
      BY <2>5 DEF Park, Await, WasNotified, Back, Leaves, Goes, TypeOK, Committing, workVars
    <2>6. QED
      BY <2>1, <2>2, <2>3, <2>4, <2>5 DEF WaiterStep
  <1>2. Pending' = Pending
    BY <1>1 DEF Pending, Empty, callerVars
  <1>3. work \in Nat /\ work' \in Nat /\ work' <= work /\ added \in Nat
    BY <1>1, NotifierAssumption DEF TypeOK, NotifierAssumption
  <1>4. WaiterMove(w) /\ LinkInv'
    BY WaiterMoves
  <1>5. /\ Committed = Stacked \cup {v \in Prewait : pc[v] \in Committing}
        /\ Free = {v \in Waiter : v \notin Prewait \cup Stacked /\ pc[v] # "prepare"}
        /\ Committed' = Stacked' \cup {v \in Prewait' : pc'[v] \in Committing}
        /\ Free' = {v \in Waiter : v \notin Prewait' \cup Stacked' /\ pc'[v] # "prepare"}
    BY <1>4, Phases, PhasesNext DEF LinkInv
  <1>6. ASSUME work' # 0
        PROVE  Free \subseteq Free' /\ Committed' \subseteq Committed
    <2>1. /\ \A v \in Waiter : pc'[v] = "prepare" => pc[v] = "prepare"
          /\ \A v \in Waiter : pc'[v] \in Committing => pc[v] \in Committing
      BY <1>1, <1>6
    <2>2. Prewait \subseteq Waiter
      BY DEF Prewait, Announced
    <2>3. CASE Moved(Prewait, Stacked, Engaged) \/ Moved(Prewait, Stacked, Engaged \ {w})
      BY <1>5, <2>1, <2>2, <2>3 DEF Moved
    <2>4. CASE Prepare(w) /\ Moved(Prewait \cup {w}, Stacked, Engaged \cup {w})
      <3>1. pc[w] = "prepare" /\ pc'[w] = "recheck"
        BY <2>4 DEF Prepare, Goes, TypeOK
      <3>2. pc'[w] \notin Committing
        BY <3>1 DEF Committing
      <3>3. QED
        BY <1>5, <2>1, <2>2, <2>4, <3>1, <3>2 DEF Moved
    <2>5. CASE CommitCas(w) /\ w \in Prewait /\ Moved(Prewait \ {w}, Stacked \cup {w}, Engaged)
      <3>1. pc[w] \in Committing
        BY <2>5 DEF CommitCas, Committing
      <3>2. QED
        BY <1>5, <2>1, <2>2, <2>5, <3>1 DEF Moved
    <2>6. CASE CancelCas(w) /\ w \in Prewait /\ Moved(Prewait \ {w}, Stacked, Engaged \ {w})
      BY <1>5, <2>1, <2>2, <2>6 DEF Moved
    <2>7. QED
      BY <1>4, <2>3, <2>4, <2>5, <2>6 DEF WaiterMove
  <1>7. Free \in SUBSET Waiter /\ Free' \in SUBSET Waiter /\ Pending \in SUBSET Caller
    BY DEF Free, Pending
  <1>8. Cardinality(Free) \in Nat /\ Cardinality(Free') \in Nat /\ Cardinality(Pending) \in Nat
    BY <1>7, Larger, NotifierAssumption DEF NotifierAssumption
  <1>9. ASSUME Committed' # {}
        PROVE  work' <= Cardinality(Free') + Cardinality(Pending')
    <2>1. CASE work' = 0
      BY <1>2, <1>8, <2>1
    <2>2. CASE work' # 0
      <3>1. Cardinality(Free) <= Cardinality(Free') /\ Committed # {}
        BY <1>6, <1>7, <1>9, <2>2, Larger, NotifierAssumption DEF NotifierAssumption
      <3>2. work <= Cardinality(Free) + Cardinality(Pending)
        BY <3>1 DEF WorkInv
      <3>3. QED
        BY <1>2, <1>3, <1>8, <3>1, <3>2
    <2>3. QED
      BY <2>1, <2>2
  <1>10. work' <= added' /\ (over' => added' = MaxWork)
    BY <1>1, <1>3 DEF WorkInv
  <1>11. \A v \in Waiter : pc'[v] = "out" => over' /\ work' = 0
    BY <1>1, <1>3 DEF WorkInv
  <1>12. QED
    BY <1>9, <1>10, <1>11 DEF WorkInv

\* A call that leaves the others' places as they are.
LEMMA CallerWork ==
  ASSUME TypeOK, TurnInv, SeenInv, LinkInv, WorkInv, Timely, NEW c \in Caller, CallerStep(c)
  PROVE  WorkInv'
  <1>1. CallerMove(c) /\ LinkInv'
    BY CallerMoves
  <1>2. /\ Committed = Stacked \cup {v \in Prewait : pc[v] \in Committing}
        /\ Free = {v \in Waiter : v \notin Prewait \cup Stacked /\ pc[v] # "prepare"}
        /\ Committed' = Stacked' \cup {v \in Prewait' : pc'[v] \in Committing}
        /\ Free' = {v \in Waiter : v \notin Prewait' \cup Stacked' /\ pc'[v] # "prepare"}
    BY <1>1, Phases, PhasesNext DEF LinkInv
  <1>3. \A v \in Waiter : pc'[v] = pc[v] \/ (pc[v] = "blocked" /\ pc'[v] = "park")
    <2>1. \/ pc' = pc
          \/ pc[target[c]] = "blocked" /\ pc' = [pc EXCEPT ![target[c]] = "park"]
      BY DEF CallerStep, AddWork, EndWork, NotifyLoad, NotifyDecide, NotifyCas, NotifyClear,
             UnparkNext, UnparkSignal, UnparkWake, Goes, waiterVars
    <2>2. QED
      BY <2>1 DEF TypeOK
  <1>4. Others(c)
    BY CallerAlone
  <1>5. \A d \in Caller : d # c => (d \in Pending' <=> d \in Pending)
    BY <1>4 DEF Others, Pending, Empty
  <1>6. Free \in SUBSET Waiter /\ Free' \in SUBSET Waiter /\ Pending \in SUBSET Caller
        /\ Pending' \in SUBSET Caller
    BY DEF Free, Pending
  <1>7. Cardinality(Free) \in Nat /\ Cardinality(Free') \in Nat
        /\ Cardinality(Pending) \in Nat /\ Cardinality(Pending') \in Nat
    BY <1>6, Larger, NotifierAssumption DEF NotifierAssumption
  <1>8. Free \subseteq Free' /\ Committed' \subseteq Committed
    <2>1. /\ \A v \in Waiter : pc'[v] = "prepare" <=> pc[v] = "prepare"
          /\ \A v \in Waiter : pc'[v] \in Committing <=> pc[v] \in Committing
      BY <1>3 DEF Committing
    <2>2. Prewait \subseteq Waiter /\ Prewait' \subseteq Prewait /\ Stacked' \subseteq Stacked
      BY <1>1 DEF CallerMove, Moved, Prewait, Announced
    <2>3. QED
      BY <1>2, <2>1, <2>2
  <1>9. work \in Nat /\ added \in Nat /\ MaxWork \in Nat
    BY NotifierAssumption DEF TypeOK, NotifierAssumption
  <1>10. Committed # {} => work <= Cardinality(Free) + Cardinality(Pending)
    BY DEF WorkInv
  <1>11. Cardinality(Free) <= Cardinality(Free')
    BY <1>6, <1>8, Larger, NotifierAssumption DEF NotifierAssumption
  <1>12. CASE AddWork(c)
    <2>1. npc[c] = "idle" /\ npc'[c] = "load" /\ work' = work + 1 /\ added' = added + 1
          /\ added < MaxWork /\ over' = over /\ pc' = pc
      BY <1>12 DEF AddWork, Calls, TypeOK, waiterVars
    <2>2. Pending \subseteq Pending' /\ c \in Pending' /\ c \notin Pending
      <3>1. c \in Pending' /\ c \notin Pending
        BY <2>1 DEF Pending
      <3>2. QED
        BY <1>5, <3>1 DEF Pending
    <2>3. Cardinality(Pending) < Cardinality(Pending')
      BY <1>6, <2>2, Larger, NotifierAssumption DEF NotifierAssumption
    <2>4. ~over
      BY <1>9, <2>1 DEF WorkInv
    <2>5. work' <= added' /\ \A v \in Waiter : pc'[v] = "out" => over'
      BY <1>9, <2>1 DEF WorkInv
    <2>6. \A v \in Waiter : pc'[v] # "out"
      BY <2>1, <2>4, <2>5
    <2>7. Committed' # {} => work' <= Cardinality(Free') + Cardinality(Pending')
      BY <1>7, <1>8, <1>9, <1>10, <1>11, <2>1, <2>3
    <2>8. QED
      BY <2>1, <2>4, <2>5, <2>6, <2>7 DEF WorkInv
  <1>13. CASE ~AddWork(c)
    <2>1. work' = work /\ added' = added
      BY <1>13 DEF CallerStep, EndWork, NotifyLoad, NotifyDecide, NotifyCas, NotifyClear,
                   UnparkNext, UnparkSignal, UnparkWake, workVars
    <2>2. (over => over') /\ (over' => added' = MaxWork)
      <3>1. over' = over \/ (over' = TRUE /\ added' = MaxWork)
        BY <1>13 DEF CallerStep, EndWork, NotifyLoad, NotifyDecide, NotifyCas, NotifyClear,
                     UnparkNext, UnparkSignal, UnparkWake, workVars
      <3>2. QED
        BY <2>1, <3>1 DEF WorkInv
    <2>3. \A v \in Waiter : pc'[v] = "out" => over' /\ work' = 0
      BY <1>3, <2>1, <2>2 DEF WorkInv
    <2>4. ASSUME Committed' # {}
          PROVE  work <= Cardinality(Free') + Cardinality(Pending')
      <3>1. Committed # {}
        BY <1>8, <2>4
      <3>2. CASE Pending \subseteq Pending'
        <4>1. Cardinality(Pending) <= Cardinality(Pending')
          BY <1>6, <3>2, Larger, NotifierAssumption DEF NotifierAssumption
        <4>2. QED
          BY <1>7, <1>9, <1>10, <1>11, <3>1, <4>1
      <3>3. CASE ~(Pending \subseteq Pending')
        <4>1. c \in Pending /\ c \notin Pending'
          BY <1>5, <3>3 DEF Pending
        <4>2. CASE NotifyCas(c) /\ word = nseen[c]
          <5>1. PICK v \in Prewait \cup Stacked : Moved(Prewait \ {v}, Stacked \ {v}, Engaged)
            BY <1>1, <1>2, <2>4, <4>2 DEF CallerMove, Moved
          <5>2. v \in Waiter /\ pc'[v] # "prepare"
            BY <1>3, <5>1, Places DEF LinkInv, Announced, Parked
          <5>3. v \in Free' /\ v \notin Free
            BY <1>2, <5>1, <5>2 DEF Moved
          <5>4. Cardinality(Free) < Cardinality(Free')
            BY <1>6, <1>8, <5>3, Larger, NotifierAssumption DEF NotifierAssumption
          <5>5. Cardinality(Pending) = Cardinality(Pending') + 1
            <6>1. Pending' = Pending \ {c}
              BY <1>5, <4>1, <1>6
            <6>2. IsFiniteSet(Pending)
              BY <1>6, FS_Subset, NotifierAssumption DEF NotifierAssumption
            <6>3. QED
              BY <1>7, <4>1, <6>1, <6>2, FS_RemoveElement
          <5>6. QED
            BY <1>7, <1>9, <1>10, <3>1, <5>4, <5>5
        <4>3. CASE ~(NotifyCas(c) /\ word = nseen[c])
          <5>1. Empty(word)
            <6>1. npc[c] \in {"load", "decide", "cas"} /\ npc'[c] # "load" /\ npc'[c] # "cas"
                  /\ (npc[c] = "decide" => ~Empty(nseen[c]))
                  /\ (npc'[c] = "decide" => Empty(nseen[c])')
              BY <4>1 DEF Pending
            <6>2. NotifyLoad(c) \/ NotifyCas(c)
              BY <6>1 DEF CallerStep, AddWork, EndWork, NotifyLoad, NotifyDecide, NotifyCas,
                          NotifyClear, UnparkNext, UnparkSignal, UnparkWake, Calls, TypeOK
            <6>3. npc'[c] = "decide" /\ nseen'[c] = word
              BY <4>3, <6>2 DEF NotifyLoad, NotifyCas, Calls, TypeOK
            <6>4. QED
              BY <6>1, <6>3 DEF Empty
          <5>2. Stacked = {}
            BY <5>1, ListIs, ReachNone DEF Stacked, Empty
          <5>3. Prewait = {}
            BY <5>1, PrewaitIs DEF Empty, TurnInv, Prewait
          <5>4. QED
            BY <1>2, <3>1, <5>2, <5>3
        <4>4. QED
          BY <4>2, <4>3
      <3>4. QED
        BY <3>2, <3>3
    <2>5. work' <= added'
      BY <2>1 DEF WorkInv
    <2>6. QED
      BY <2>1, <2>2, <2>3, <2>4, <2>5 DEF WorkInv
  <1>14. QED
    BY <1>12, <1>13

-----------------------------------------------------------------------------
(***************************************************************************)
(* The invariant.                                                          *)
(***************************************************************************)
LEMMA InitLinks == Init => LinkInv
  <1> SUFFICES ASSUME Init PROVE LinkInv
    OBVIOUS
  <1>1. /\ \A w \in Waiter : pc[w] = "check"
        /\ \A c \in Caller : npc[c] = "idle"
        /\ word.stack = none
    BY DEF Init, Fresh
  <1>2. Sleeping = {} /\ \A c \in Caller : Held(c) = {}
    BY <1>1 DEF Sleeping, Held
  <1>3. ListOf(word.stack) = {}
    BY <1>1, ListIs, ReachNone
  <1>4. SleepersHeld /\ LoopFree
    BY <1>2, <1>3 DEF SleepersHeld, LoopFree
  <1>5. CommitInv /\ CallInv
    BY <1>1 DEF CommitInv, CommitAt, CallInv, CallAt
  <1>6. QED
    BY <1>4, <1>5 DEF LinkInv

LEMMA InitInv == Init => IInv
  <1> SUFFICES ASSUME Init PROVE IInv
    OBVIOUS
  <1>1. TypeOK /\ LinkInv
    BY TypeInit, InitLinks
  <1>2. /\ \A w \in Waiter : pc[w] = "check"
        /\ word.stack = none /\ word.waiters = 0
        /\ work = 0 /\ added = 0 /\ over = FALSE
    BY DEF Init, Fresh
  <1>3. Announced = {} /\ Prewait = {}
    BY <1>2 DEF Announced, Prewait
  <1>4. TurnInv
    BY <1>2, <1>3 DEF TurnInv
  <1>5. SeenInv
    BY <1>2 DEF SeenInv, SeenAt
  <1>6. WorkInv
    <2>1. Stacked = {}
      BY <1>2, ListIs, ReachNone DEF Stacked
    <2>2. Committed = {}
      BY <1>1, <1>3, <2>1, Phases DEF LinkInv
    <2>3. QED
      BY <1>2, <2>2 DEF WorkInv
  <1>7. QED
    BY <1>1, <1>4, <1>5, <1>6 DEF IInv, LinkInv

LEMMA StutterInv == IInv /\ UNCHANGED vars => IInv'
  <1> SUFFICES ASSUME IInv, UNCHANGED vars PROVE IInv'
    OBVIOUS
  <1>1. /\ UNCHANGED <<word, next, signal, ticket, pc, seen, npc, nseen, all, link, target>>
        /\ UNCHANGED <<work, added, over>>
    BY DEF vars, waiterVars, callerVars, workVars
  <1>2. TypeOK'
    BY <1>1 DEF IInv, TypeOK
  <1>3. Announced' = Announced /\ Prewait' = Prewait
    BY <1>1 DEF Announced, Prewait, Ahead, Turn
  <1>4. TurnInv'
    BY <1>1, <1>3 DEF IInv, TurnInv, Left, Turn
  <1>5. SeenInv'
    BY <1>1 DEF IInv, SeenInv, SeenAt, Ahead, Turn
  <1>6. /\ Sleeping' = Sleeping /\ Popped' = Popped
        /\ ListOf(word.stack)' = ListOf(word.stack)
        /\ \A c \in Caller : Held(c)' = Held(c)
    BY <1>1, ListIs, HeldIs DEF Sleeping, Popped
  <1>7. SleepersHeld' /\ LoopFree'
    BY <1>1, <1>6, ListsKept DEF IInv
  <1>8. CommitInv'
    BY <1>1 DEF IInv, CommitInv, CommitAt
  <1>9. CallInv'
    BY <1>1, <1>6, ListIs DEF IInv, CallInv, CallAt, Empty, Pops
  <1>10. WorkInv'
    <2>1. Stacked' = Stacked /\ Pending' = Pending
      BY <1>1, <1>6 DEF Stacked, Pending, Empty
    <2>2. Committed' = Committed /\ Free' = Free
      BY <1>1, <1>3, <1>7, <2>1, Phases, PhasesNext DEF IInv
    <2>3. QED
      BY <1>1, <2>1, <2>2 DEF IInv, WorkInv
  <1>11. QED
    BY <1>2, <1>4, <1>5, <1>7, <1>8, <1>9, <1>10 DEF IInv

LEMMA NextInv == IInv /\ [Next]_vars /\ [Timely]_vars => IInv'
  <1> SUFFICES ASSUME IInv, [Next]_vars, [Timely]_vars PROVE IInv'
    OBVIOUS
  <1>1. CASE UNCHANGED vars
    BY <1>1, StutterInv
  <1>2. CASE Next /\ Timely
    <2>1. TypeOK /\ TurnInv /\ SeenInv /\ LinkInv /\ WorkInv /\ CallInv
      BY DEF IInv, LinkInv
    <2>2. ASSUME NEW w \in Waiter, WaiterStep(w) \/ SpuriousWakeup(w)
          PROVE  IInv'
      <3>1. TypeOK'
        BY <2>1, <2>2, WaiterType
      <3>2. TurnInv' /\ SeenInv' /\ LinkInv'
        BY <1>2, <2>1, <2>2, WaiterMoves
      <3>3. WorkInv'
        BY <1>2, <2>1, <2>2, WaiterWork
      <3>4. QED
        BY <3>1, <3>2, <3>3 DEF IInv, LinkInv
    <2>3. ASSUME NEW c \in Caller, CallerStep(c)
          PROVE  IInv'
      <3>1. TypeOK'
        BY <2>1, <2>3, CallerType
      <3>2. TurnInv' /\ SeenInv' /\ LinkInv'
        BY <1>2, <2>1, <2>3, CallerMoves
      <3>3. WorkInv'
        BY <1>2, <2>1, <2>3, CallerWork
      <3>4. QED
        BY <3>1, <3>2, <3>3 DEF IInv, LinkInv
    <2>4. CASE Finished
      BY <2>4, StutterInv DEF Finished
    <2>5. QED
      BY <1>2, <2>2, <2>3, <2>4 DEF Next
  <1>3. QED
    BY <1>1, <1>2

\* The inductive invariant holds as long as no thread is overtaken by the
\* epoch's going full circle.
THEOREM Invariance == Spec /\ NoFullCircle => []IInv
  <1>1. Spec /\ NoFullCircle => Init /\ [][Next]_vars /\ [][Timely]_vars
    BY DEF Spec, NoFullCircle
  <1>2. QED
    BY <1>1, InitInv, NextInv, PTL

\* The fields of the word stay in their ranges: neither the number of waiters
\* in pre-wait nor a link goes astray, in steps of notifier.hpp:94-260.
THEOREM TypeCorrect == Spec /\ NoFullCircle => []TypeOK
  <1>1. IInv => TypeOK
    BY DEF IInv
  <1>2. QED
    BY <1>1, Invariance, PTL

LEMMA Turns == IInv => TurnsInOrder
  <1> SUFFICES ASSUME IInv PROVE TurnsInOrder
    OBVIOUS
  <1>1. TypeOK /\ TurnInv
    BY DEF IInv
  <1>2. word.waiters = Cardinality(Prewait) /\ {Left(w) : w \in Prewait} = 0..(word.waiters - 1)
    BY <1>1, CountPrewait
  <1>3. \A w \in Prewait : (Turn(w) - word.epoch) % Epochs = Left(w)
    BY <1>1, PrewaitIs, Mods DEF Left, Prewait
  <1>4. {(Turn(w) - word.epoch) % Epochs : w \in Prewait} = {Left(w) : w \in Prewait}
    BY <1>3
  <1>5. QED
    BY <1>2, <1>4 DEF TurnsInOrder

\* The word counts the threads in pre-wait, and each of them has a turn of its
\* own, from the current epoch on: the assertions of commit_wait and
\* cancel_wait (121, 152) cannot fail, and no thread waits for one that left.
THEOREM TurnsKept == Spec /\ NoFullCircle => []TurnsInOrder
  BY Turns, Invariance, PTL

\* Every sleeping thread is on the stack or in the hands of one caller, which
\* is going to signal it: no link of commit_wait, notify or _unpark is lost or
\* taken up twice.
THEOREM SleepersKept == Spec /\ NoFullCircle => []SleepersHeld
  <1>1. IInv => SleepersHeld
    BY DEF IInv
  <1>2. QED
    BY <1>1, Invariance, PTL

LEMMA WorkMet == IInv => NoMissedWork
  <1> SUFFICES ASSUME IInv, Watching # Waiter
               PROVE  work <= Cardinality(Watching) + Cardinality(Notifying)
    BY DEF NoMissedWork
  <1>1. TypeOK /\ SleepersHeld /\ WorkInv
    BY DEF IInv
  <1>2. /\ Committed = Stacked \cup {v \in Prewait : pc[v] \in Committing}
        /\ Free = {v \in Waiter : v \notin Prewait \cup Stacked /\ pc[v] # "prepare"}
    BY <1>1, Phases
  <1>3. Watching \in SUBSET Waiter /\ Notifying \in SUBSET Caller /\ Free \in SUBSET Waiter
        /\ Pending \in SUBSET Notifying
    BY DEF Watching, Notifying, Free, Pending, Announced, Sleeping
  <1>4. /\ Cardinality(Watching) \in Nat /\ Cardinality(Notifying) \in Nat
        /\ Cardinality(Pending) \in Nat /\ Cardinality(Pending) <= Cardinality(Notifying)
    BY <1>3, Larger, NotifierAssumption DEF NotifierAssumption
  <1>5. CASE work = 0
    BY <1>4, <1>5
  <1>6. CASE work # 0
    <2>1. \A v \in Waiter : pc[v] # "out"
      BY <1>1, <1>6 DEF WorkInv
    <2>2. \A v \in Waiter : \/ v \in Watching
                            \/ v \in Stacked
                            \/ v \in Prewait /\ pc[v] \in Committing
      <3>1. ASSUME NEW v \in Waiter, v \notin Watching, v \notin Stacked
            PROVE  v \in Prewait /\ pc[v] \in Committing
        <4>1. pc[v] \in {"commit load", "commit", "commit cas", "park", "blocked"}
          BY <1>1, <2>1, <3>1 DEF Watching, TypeOK, WaiterPC
        <4>2. pc[v] \notin {"park", "blocked"}
          BY <3>1 DEF Watching, Sleeping, Stacked
        <4>3. v \in Announced /\ ~Ahead(word, v)
          BY <3>1, <4>1, <4>2 DEF Watching, Announced
        <4>4. QED
          BY <4>1, <4>2, <4>3 DEF Prewait, Committing
      <3>2. QED
        BY <3>1
    <2>3. Committed # {}
      BY <1>2, <1>3, <2>2
    <2>4. Free \subseteq Watching
      BY <1>2, <2>2
    <2>5. Cardinality(Free) \in Nat /\ Cardinality(Free) <= Cardinality(Watching)
      BY <1>3, <2>4, Larger, NotifierAssumption DEF NotifierAssumption
    <2>6. work <= Cardinality(Free) + Cardinality(Pending)
      BY <1>1, <2>3 DEF WorkInv
    <2>7. work \in Nat
      BY <1>1, NotifierAssumption DEF TypeOK, NotifierAssumption
    <2>8. QED
      BY <1>4, <2>5, <2>6, <2>7
  <1>7. QED
    BY <1>5, <1>6

\* "It can't happen that both threads don't see each other changes" (63-65):
\* whoever sleeps leaves threads enough to take the work there is.
THEOREM NoWorkMissed == Spec /\ NoFullCircle => []NoMissedWork
  BY WorkMet, Invariance, PTL

-----------------------------------------------------------------------------
(***************************************************************************)
(* Notifier implements EventCount.                                         *)
(***************************************************************************)
phases == [w \in Waiter |-> PhaseOf(w)]

\* What the moves of the sets are for one waiter x, the only one that moves.
LEMMA OnePhase ==
  ASSUME SleepersHeld, SleepersHeld', NEW x \in Waiter, NEW to,
         \A v \in Waiter : v # x => /\ v \in Prewait' <=> v \in Prewait
                                    /\ v \in Stacked' <=> v \in Stacked
                                    /\ v \in Engaged' <=> v \in Engaged,
         to = IF x \in Prewait' THEN "prewait"
              ELSE IF x \in Stacked' THEN "asleep"
              ELSE IF x \in Engaged' THEN "released" ELSE "away"
  PROVE  phases' = [phases EXCEPT ![x] = to]
  <1>1. \A v \in Waiter : PhaseOf(v)' = IF v = x THEN to ELSE PhaseOf(v)
    BY Phases, PhasesNext
  <1>2. phases' = [v \in Waiter |-> PhaseOf(v)']
    BY DEF phases
  <1>3. [phases EXCEPT ![x] = to] = [v \in Waiter |-> IF v = x THEN to ELSE PhaseOf(v)]
    BY DEF phases
  <1>4. QED
    BY <1>1, <1>2, <1>3

LEMMA SamePhases ==
  ASSUME SleepersHeld, SleepersHeld', Moved(Prewait, Stacked, Engaged)
  PROVE  phases' = phases
  <1>1. \A v \in Waiter : PhaseOf(v)' = PhaseOf(v)
    BY Phases, PhasesNext DEF Moved
  <1>2. phases' = [v \in Waiter |-> PhaseOf(v)']
    BY DEF phases
  <1>3. QED
    BY <1>1, <1>2 DEF phases

LEMMA WaiterImplements ==
  ASSUME SleepersHeld, SleepersHeld', NEW w \in Waiter, WaiterMove(w)
  PROVE  EC!Next \/ phases' = phases
  <1>0. /\ Prewait \subseteq Announced /\ Stacked \subseteq Parked
        /\ Announced \cap Parked = {} /\ Prewait \cap Stacked = {}
        /\ Engaged = Announced \cup Parked
    BY Places DEF Engaged
  <1>1. phases[w] = IF w \in Prewait THEN "prewait" ELSE IF w \in Stacked THEN "asleep"
                    ELSE IF w \in Engaged THEN "released" ELSE "away"
    BY Phases DEF phases
  <1>2. CASE Moved(Prewait, Stacked, Engaged)
    BY <1>2, SamePhases
  <1>3. CASE w \notin Engaged /\ Moved(Prewait \cup {w}, Stacked, Engaged \cup {w})
    <2>1. phases' = [phases EXCEPT ![w] = "prewait"]
      BY <1>3, OnePhase DEF Moved
    <2>2. phases[w] = "away"
      BY <1>0, <1>1, <1>3
    <2>3. EC!Prepare(w)
      BY <2>1, <2>2 DEF EC!Prepare, EC!Moves, phases
    <2>4. QED
      BY <2>3 DEF EC!Next
  <1>4. CASE w \in Prewait /\ Moved(Prewait \ {w}, Stacked \cup {w}, Engaged)
    <2>1. phases' = [phases EXCEPT ![w] = "asleep"]
      BY <1>4, OnePhase DEF Moved
    <2>2. phases[w] = "prewait"
      BY <1>1, <1>4
    <2>3. EC!Commit(w)
      BY <2>1, <2>2 DEF EC!Commit, EC!Moves, phases
    <2>4. QED
      BY <2>3 DEF EC!Next
  <1>5. CASE w \in Prewait /\ Moved(Prewait \ {w}, Stacked, Engaged \ {w})
    <2>1. phases' = [phases EXCEPT ![w] = "away"]
      BY <1>0, <1>5, OnePhase DEF Moved
    <2>2. phases[w] = "prewait"
      BY <1>1, <1>5
    <2>3. EC!Cancel(w)
      BY <2>1, <2>2 DEF EC!Cancel, EC!Moves, phases
    <2>4. QED
      BY <2>3 DEF EC!Next
  <1>6. CASE w \in Engaged \ (Prewait \cup Stacked) /\ Moved(Prewait, Stacked, Engaged \ {w})
    <2>1. phases' = [phases EXCEPT ![w] = "away"]
      BY <1>6, OnePhase DEF Moved
    <2>2. phases[w] = "released"
      BY <1>1, <1>6
    <2>3. EC!Return(w)
      BY <2>1, <2>2 DEF EC!Return, EC!Moves, phases
    <2>4. QED
      BY <2>3 DEF EC!Next
  <1>7. QED
    BY <1>2, <1>3, <1>4, <1>5, <1>6 DEF WaiterMove

LEMMA CallerImplements ==
  ASSUME SleepersHeld, SleepersHeld', NEW c \in Caller, CallerMove(c)
  PROVE  EC!Next \/ phases' = phases
  <1>0. /\ Prewait \subseteq Announced /\ Stacked \subseteq Parked
        /\ Prewait \cap Stacked = {} /\ Engaged = Announced \cup Parked
        /\ Prewait \subseteq Waiter /\ Stacked \subseteq Waiter
    BY Places DEF Engaged
  <1>1. EC!Waiting = Prewait \cup Stacked
    <2>1. \A v \in Waiter : phases[v] \in {"prewait", "asleep"} <=> v \in Prewait \cup Stacked
      BY Phases DEF phases
    <2>2. EC!Waiting = {v \in Waiter : phases[v] \in {"prewait", "asleep"}}
      BY DEF EC!Waiting, phases
    <2>3. QED
      BY <1>0, <2>1, <2>2
  <1>2. CASE Moved(Prewait, Stacked, Engaged)
    BY <1>2, SamePhases
  <1>3. CASE Moved({}, {}, Engaged)
    <2>1. \A v \in Waiter : PhaseOf(v)' = IF v \in EC!Waiting THEN "released" ELSE PhaseOf(v)
      BY <1>0, <1>1, <1>3, Phases, PhasesNext DEF Moved
    <2>2. phases' = [v \in Waiter |-> IF v \in EC!Waiting THEN "released" ELSE phases[v]]
      BY <2>1 DEF phases
    <2>3. EC!NotifyAll
      BY <2>2 DEF EC!NotifyAll, phases
    <2>4. QED
      BY <2>3 DEF EC!Next
  <1>4. ASSUME NEW v \in Prewait \cup Stacked, Moved(Prewait \ {v}, Stacked \ {v}, Engaged)
        PROVE  EC!NotifyOne
    <2>1. v \in Waiter /\ v \in EC!Waiting /\ v \in Engaged
      BY <1>0, <1>1
    <2>2. phases' = [phases EXCEPT ![v] = "released"]
      BY <1>4, <2>1, OnePhase DEF Moved
    <2>3. QED
      BY <2>1, <2>2 DEF EC!NotifyOne, phases
  <1>5. QED
    BY <1>2, <1>3, <1>4 DEF CallerMove, EC!Next

LEMMA InitImplements == Init => EC!Init
  <1> SUFFICES ASSUME Init PROVE EC!Init
    OBVIOUS
  <1>1. \A w \in Waiter : pc[w] = "check"
    BY DEF Init
  <1>2. \A w \in Waiter : PhaseOf(w) = "away"
    BY <1>1 DEF PhaseOf, Announced
  <1>3. QED
    BY <1>2 DEF EC!Init

LEMMA NextImplements ==
  IInv /\ IInv' /\ [Next]_vars /\ [Timely]_vars => [EC!Next]_phases
  <1> SUFFICES ASSUME IInv, IInv', [Next]_vars, [Timely]_vars
               PROVE  EC!Next \/ phases' = phases
    OBVIOUS
  <1>1. TypeOK /\ TurnInv /\ SeenInv /\ LinkInv /\ SleepersHeld /\ SleepersHeld'
    BY DEF IInv, LinkInv
  <1>2. CASE UNCHANGED vars
    <2>1. Prewait' = Prewait /\ Stacked' = Stacked /\ Engaged' = Engaged
      BY <1>2, ListIs DEF vars, waiterVars, Prewait, Announced, Ahead, Turn, Stacked, Engaged,
                          Parked
    <2>2. QED
      BY <1>1, <2>1, SamePhases DEF Moved
  <1>3. CASE Next /\ Timely
    <2>1. ASSUME NEW w \in Waiter, WaiterStep(w) \/ SpuriousWakeup(w)
          PROVE  EC!Next \/ phases' = phases
      BY <1>1, <1>3, <2>1, WaiterMoves, WaiterImplements
    <2>2. ASSUME NEW c \in Caller, CallerStep(c)
          PROVE  EC!Next \/ phases' = phases
      BY <1>1, <1>3, <2>2, CallerMoves, CallerImplements
    <2>3. QED
      BY <1>2, <1>3, <2>1, <2>2 DEF Next, Finished
  <1>4. QED
    BY <1>2, <1>3

\* Every step of the Notifier is one of the event count, or none: a notify
\* releases one announced waiter, or all, with the compare-exchange that
\* changes the word, and nobody returns or sleeps that should not.
THEOREM NotifierImplementsSafely == Spec /\ NoFullCircle => ImplementsEventCountSafely
  <1>1. Spec /\ NoFullCircle => Init /\ [][Next]_vars /\ [][Timely]_vars
    BY DEF Spec, NoFullCircle
  <1>2. Init /\ []IInv /\ [][Next]_vars /\ [][Timely]_vars => EC!Init /\ [][EC!Next]_phases
    BY InitImplements, NextImplements, PTL
  <1>3. QED
    BY <1>1, <1>2, Invariance, PTL DEF ImplementsEventCountSafely, EC!Safe, phases
=============================================================================
