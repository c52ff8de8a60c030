--------------------------- MODULE TaskPoolProofs ---------------------------
(***************************************************************************)
(* Proofs about TaskPool, for every number of workers, closures and joins. *)
(***************************************************************************)
EXTENDS TaskPool, FiniteSetTheorems, SequenceTheorems, TLAPS

USE TaskPoolAssumption DEF TaskPoolAssumption

\* The deque operations keep the deque well typed; they are the only ones
\* that touch it (sync_deque.h:49-64).
LEMMA PushType ==
  ASSUME TypeOK, NEW x \in Job, NEW fifo \in BOOLEAN, Q!Push(User, x, fifo)
  PROVE  /\ queue' \in Seq(Job)
         /\ Len(queue') = Len(queue) + 1
         /\ waiting' \subseteq waiting
         /\ woken' \subseteq Worker \ waiting'
<1>1. queue' = Append(queue, x) \/ queue' = <<x>> \o queue
  BY DEF Q!Push, Q!Insert
<1>2. queue' \in Seq(Job) /\ Len(queue') = Len(queue) + 1
  <2>1. CASE queue' = Append(queue, x)
    BY <2>1 DEF TypeOK
  <2>2. CASE queue' = <<x>> \o queue
    <3>1. <<x>> \in Seq(Job) /\ Len(<<x>>) = 1 /\ queue \in Seq(Job)
      BY DEF TypeOK
    <3> QED BY <2>2, <3>1, ConcatProperties, LenProperties
  <2> QED BY <1>1, <2>1, <2>2
<1>3. \/ waiting' = waiting /\ woken' = woken \ {User}
      \/ \E w \in waiting : /\ waiting' = waiting \ {w}
                            /\ woken' = (woken \ {User}) \cup {w}
  BY DEF Q!Push, Q!NotifyOne
<1>4. waiting' \subseteq waiting /\ woken' \subseteq Worker \ waiting'
  BY <1>3 DEF TypeOK
<1> QED BY <1>2, <1>4

LEMMA PopType ==
  ASSUME TypeOK, NEW w \in Worker, Q!Pop(w)
  PROVE  /\ queue # <<>>
         /\ Head(queue) \in Job
         /\ queue' \in Seq(Job)
         /\ Len(queue') = Len(queue) - 1
         /\ waiting' = waiting
         /\ woken' = woken \ {w}
<1>1. queue # <<>> /\ queue' = Tail(queue) /\ waiting' = waiting /\ woken' = woken \ {w}
  BY DEF Q!Pop
<1>2. queue \in Seq(Job)
  BY DEF TypeOK
<1> QED BY <1>1, <1>2, HeadTailProperties

LEMMA CountType == Count \in Nat
BY FS_CardinalityType DEF Count

-----------------------------------------------------------------------------
LEMMA TypeInit == Init => TypeOK
<1>1. ASSUME Init PROVE TypeOK
  <2>1. queue \in Seq(Job) /\ order \in Seq(Task) /\ started \in Seq(Task)
    BY <1>1 DEF Init
  <2>2. waiting \subseteq Worker /\ woken \subseteq Worker \ waiting /\ submitted \subseteq Task
    BY <1>1 DEF Init
  <2>3. pc \in [Worker -> WorkerPC] /\ job \in [Worker -> Job]
    BY <1>1 DEF Init, WorkerPC, Job
  <2>4. toPush \in 0..Count /\ joins \in 0..MaxJoins /\ finishCount \in Nat
    BY <1>1, CountType DEF Init
  <2> QED BY <1>1, <2>1, <2>2, <2>3, <2>4 DEF Init, TypeOK
<1> QED BY <1>1

LEMMA TypeNext == TypeOK /\ [Next]_vars => TypeOK'
<1> SUFFICES ASSUME TypeOK, [Next]_vars PROVE TypeOK'
  OBVIOUS
<1>1. ASSUME NEW t \in Task, NEW fifo \in BOOLEAN, Submit(t, fifo) PROVE TypeOK'
  <2>1. t \in Job /\ Q!Push(User, t, fifo)
    BY <1>1 DEF Submit, Job
  <2>2. order' \in Seq(Task)
    BY <1>1 DEF Submit, TypeOK
  <2> QED BY <1>1, <2>1, <2>2, PushType DEF Submit, TypeOK
<1>2. ASSUME NEW w \in Worker, Pop(w) PROVE TypeOK'
  <2>1. Q!Pop(w)
    BY <1>2 DEF Pop
  <2>2. started' \in Seq(Task)
    <3>1. CASE InOrder(Head(queue))
      <4>1. Head(queue) \in Task
        BY <3>1 DEF InOrder, TypeOK
      <4> QED BY <1>2, <3>1, <4>1 DEF Pop, TypeOK
    <3>2. CASE ~InOrder(Head(queue))
      BY <1>2, <3>2 DEF Pop, TypeOK
    <3> QED BY <3>1, <3>2
  <2> QED BY <1>2, <2>1, <2>2, PopType DEF Pop, TypeOK, WorkerPC
<1>3. ASSUME NEW w \in Worker, BlockPop(w) PROVE TypeOK'
  BY <1>3 DEF BlockPop, Q!BlockPop, Q!Wait, TypeOK
<1>4. ASSUME NEW w \in Worker, Run(w) PROVE TypeOK'
  BY <1>4 DEF Run, TypeOK, WorkerPC
<1>5. ASSUME NEW w \in Worker, Check(w) PROVE TypeOK'
  BY <1>5 DEF Check, TypeOK, WorkerPC
<1>6. ASSUME NEW w \in Worker, Wakeup(w) PROVE TypeOK'
  BY <1>6 DEF Wakeup, Q!SpuriousWakeup, TypeOK
<1>7. CASE JoinBegin
  BY <1>7, CountType DEF JoinBegin, TypeOK
<1>8. CASE JoinPush
  <2>1. Exit \in Job /\ Q!Push(User, Exit, FALSE)
    BY <1>8 DEF JoinPush, Job
  <2>2. toPush' \in 0..Count
    BY <1>8, CountType DEF JoinPush, TypeOK
  <2> QED BY <1>8, <2>1, <2>2, PushType DEF JoinPush, TypeOK
<1>9. CASE JoinThreads
  BY <1>9 DEF JoinThreads, TypeOK
<1>10. CASE JoinReturn
  BY <1>10 DEF JoinReturn, TypeOK
<1>11. CASE UNCHANGED vars
  BY <1>11 DEF vars, TypeOK
<1> QED BY <1>1, <1>2, <1>3, <1>4, <1>5, <1>6, <1>7, <1>8, <1>9, <1>10, <1>11
        DEF Next, WorkerStep, JoinStep

\* Every reachable state of the pool is well typed.
THEOREM TypeCorrect == Spec => []TypeOK
BY TypeInit, TypeNext, PTL DEF Spec, Safe
-----------------------------------------------------------------------------
\* What the deque operations do to the bookkeeping of sleepers: a push wakes
\* one of them, if there is one, and a pop uses up at most one wakeup.
LEMMA PushCovers ==
  ASSUME TypeOK, WakeupsCover, NEW x \in Job, NEW fifo \in BOOLEAN,
         Q!Push(User, x, fifo)
  PROVE  WakeupsCover'
<1>1. IsFiniteSet(woken) /\ woken \ {User} = woken
  BY FS_Subset DEF TypeOK
<1>2. Len(queue') = Len(queue) + 1 /\ Len(queue) \in Nat
  BY PushType, LenProperties DEF TypeOK
<1>3. CASE waiting = {}
  BY <1>3 DEF Q!Push, Q!NotifyOne, WakeupsCover
<1>4. CASE waiting # {}
  <2>1. PICK w \in waiting : waiting' = waiting \ {w} /\ woken' = woken \cup {w}
    BY <1>1, <1>4 DEF Q!Push, Q!NotifyOne
  <2>2. w \notin woken
    BY DEF TypeOK
  <2>3. Cardinality(woken') = Cardinality(woken) + 1 /\ Cardinality(woken) \in Nat
    BY <1>1, <2>1, <2>2, FS_AddElement, FS_CardinalityType
  <2> QED BY <1>2, <1>4, <2>3 DEF WakeupsCover
<1> QED BY <1>3, <1>4

LEMMA PopCovers ==
  ASSUME TypeOK, WakeupsCover, NEW w \in Worker, Q!Pop(w)
  PROVE  WakeupsCover'
<1>1. IsFiniteSet(woken) /\ Cardinality(woken) \in Nat /\ Len(queue) \in Nat
  BY FS_Subset, FS_CardinalityType, LenProperties DEF TypeOK
<1>2. Cardinality(woken \ {w}) =
        IF w \in woken THEN Cardinality(woken) - 1 ELSE Cardinality(woken)
  BY <1>1, FS_RemoveElement
<1>3. Len(queue') = Len(queue) - 1 /\ waiting' = waiting /\ woken' = woken \ {w}
  BY PopType
<1>4. Cardinality(woken') >= Cardinality(woken) - 1
  BY <1>1, <1>2, <1>3
<1>5. Cardinality(woken') \in Int
  BY <1>1, <1>2, <1>3
<1> QED BY <1>1, <1>3, <1>4, <1>5 DEF WakeupsCover

LEMMA WakeupsCoverNext ==
  TypeOK /\ WakeupsCover /\ [Next]_vars => WakeupsCover'
<1> SUFFICES ASSUME TypeOK, WakeupsCover, [Next]_vars PROVE WakeupsCover'
  OBVIOUS
<1> USE DEF WakeupsCover
<1>1. ASSUME NEW t \in Task, NEW fifo \in BOOLEAN, Submit(t, fifo)
      PROVE  WakeupsCover'
  BY <1>1, PushCovers DEF Submit, Job
<1>2. ASSUME NEW w \in Worker, Pop(w) PROVE WakeupsCover'
  BY <1>2, PopCovers DEF Pop
<1>3. ASSUME NEW w \in Worker, BlockPop(w) PROVE WakeupsCover'
  <2>1. queue' = <<>> /\ Len(queue') = 0
    BY <1>3 DEF BlockPop, Q!BlockPop, Q!Wait
  <2>2. IsFiniteSet(woken')
    BY <1>3, FS_Subset DEF BlockPop, Q!BlockPop, Q!Wait, TypeOK
  <2>3. Cardinality(woken') \in Nat
    BY <2>2, FS_CardinalityType
  <2> QED BY <2>1, <2>3
<1>4. ASSUME NEW w \in Worker, Wakeup(w) PROVE WakeupsCover'
  <2>1. /\ queue' = queue /\ waiting' \subseteq waiting
        /\ woken' = woken \cup {w} /\ w \notin woken
    BY <1>4 DEF Wakeup, Q!SpuriousWakeup, TypeOK
  <2>2. IsFiniteSet(woken)
    BY FS_Subset DEF TypeOK
  <2>3. Cardinality(woken') = Cardinality(woken) + 1 /\ Cardinality(woken) \in Nat
    BY <2>1, <2>2, FS_AddElement, FS_CardinalityType
  <2>4. Len(queue) \in Nat
    BY LenProperties DEF TypeOK
  <2> QED BY <2>1, <2>3, <2>4
<1>5. CASE JoinPush
  BY <1>5, PushCovers DEF JoinPush, Job
<1>6. CASE UNCHANGED deque
  BY <1>6 DEF deque
<1> QED BY <1>1, <1>2, <1>3, <1>4, <1>5, <1>6
        DEF Next, WorkerStep, JoinStep, Run, Check, JoinBegin, JoinThreads,
            JoinReturn, vars, deque

\* No worker sleeps over a closure that no notified worker is coming for.
THEOREM NoSleepingOverWork == Spec => []WakeupsCover
<1>1. Init => WakeupsCover
  BY DEF Init, WakeupsCover
<1> QED BY <1>1, WakeupsCoverNext, TypeInit, TypeNext, PTL DEF Spec, Safe
-----------------------------------------------------------------------------
LEMMA PoppingFinite == IsFiniteSet(Popping) /\ Cardinality(Popping) <= Count
BY FS_Subset, FS_CardinalityType DEF Popping, Count

LEMMA ExitClosuresNext == TypeOK /\ ExitClosures /\ [Next]_vars => ExitClosures'
<1> SUFFICES ASSUME TypeOK, ExitClosures, [Next]_vars PROVE ExitClosures'
  OBVIOUS
<1>1. Cardinality(Popping) \in Nat /\ Len(queue) \in Nat /\ toPush \in Nat
  BY PoppingFinite, FS_CardinalityType, CountType, LenProperties DEF TypeOK
<1>2. ASSUME NEW t \in Task, NEW fifo \in BOOLEAN, Submit(t, fifo)
      PROVE  ExitClosures'
  <2>1. Len(queue') = Len(queue) + 1
    BY <1>2, PushType DEF Submit, Job
  <2>2. Popping' = Popping /\ toPush' = toPush /\ done' = done
    BY <1>2 DEF Submit, Popping
  <2> QED BY <1>1, <2>1, <2>2 DEF ExitClosures
<1>3. ASSUME NEW w \in Worker, Pop(w) PROVE ExitClosures'
  <2>1. Len(queue') = Len(queue) - 1
    BY <1>3, PopType DEF Pop
  <2>2. w \in Popping /\ Popping' = Popping \ {w}
    BY <1>3 DEF Pop, Popping, TypeOK
  <2>3. Cardinality(Popping') = Cardinality(Popping) - 1
    BY <2>2, PoppingFinite, FS_RemoveElement
  <2>4. toPush' = toPush /\ done' = done
    BY <1>3 DEF Pop
  <2> QED BY <1>1, <2>1, <2>3, <2>4 DEF ExitClosures
<1>4. ASSUME NEW w \in Worker, Run(w) PROVE ExitClosures'
  <2>1. Popping' = Popping
    BY <1>4 DEF Run, Popping, TypeOK
  <2> QED BY <1>4, <2>1 DEF Run, ExitClosures
<1>5. ASSUME NEW w \in Worker, Check(w) PROVE ExitClosures'
  <2>1. done => Popping' = Popping
    BY <1>5 DEF Check, Popping, TypeOK
  <2> QED BY <1>5, <2>1 DEF Check, ExitClosures
<1>6. CASE JoinBegin
  <2>1. Popping' = Popping /\ toPush' = Count /\ queue' = queue
    BY <1>6 DEF JoinBegin, Popping
  <2> QED BY <1>1, <2>1, PoppingFinite, CountType DEF ExitClosures
<1>7. CASE JoinPush
  <2>1. Len(queue') = Len(queue) + 1
    BY <1>7, PushType DEF JoinPush, Job
  <2>2. Popping' = Popping /\ toPush' = toPush - 1 /\ done' = done
    BY <1>7 DEF JoinPush, Popping
  <2> QED BY <1>1, <2>1, <2>2 DEF ExitClosures
<1>8. CASE UNCHANGED <<queue, pc, done, toPush>>
  BY <1>8 DEF ExitClosures, Popping
<1> QED BY <1>2, <1>3, <1>4, <1>5, <1>6, <1>7, <1>8
        DEF Next, WorkerStep, JoinStep, BlockPop, Wakeup, JoinThreads, JoinReturn,
            Q!BlockPop, Q!Wait, Q!SpuriousWakeup, vars

\* A pool that shuts down has a closure for every worker that has yet to pop
\* one, so no worker can block for ever while join waits for it.
THEOREM ShutdownReachesWorkers == Spec => []ExitClosures
<1>1. Init => ExitClosures
  BY DEF Init, ExitClosures
<1> QED BY <1>1, ExitClosuresNext, TypeInit, TypeNext, PTL DEF Spec, Safe
-----------------------------------------------------------------------------
\* What the deque operations do to the set of queued closures.
LEMMA PushQueued ==
  ASSUME TypeOK, JobsOnce, NEW x \in Job, NEW fifo \in BOOLEAN,
         Q!Push(User, x, fifo), x \in Task => ~Queued(x)
  PROVE  /\ \A u : Queued(u)' <=> Queued(u) \/ u = x
         /\ \A i, j \in DOMAIN queue' :
              queue'[i] \in Task /\ queue'[i] = queue'[j] => i = j
<1> DEFINE n == Len(queue)
<1>1. n \in Nat /\ DOMAIN queue = 1..n /\ queue \in Seq(Job)
  BY LenProperties DEF TypeOK
<1>2. CASE queue' = Append(queue, x)
  <2>1. /\ DOMAIN queue' = 1..(n + 1)
        /\ queue'[n + 1] = x
        /\ \A i \in 1..n : queue'[i] = queue[i]
    BY <1>1, <1>2
  <2>2. \A u : Queued(u)' <=> Queued(u) \/ u = x
    BY <1>1, <2>1 DEF Queued
  <2>3. ASSUME NEW i \in 1..(n + 1), NEW j \in 1..(n + 1),
               queue'[i] \in Task, queue'[i] = queue'[j]
        PROVE  i = j
    <3>1. CASE i \in 1..n /\ j \in 1..n
      BY <1>1, <2>1, <2>3, <3>1 DEF JobsOnce
    <3>2. CASE i = n + 1 \/ j = n + 1
      BY <1>1, <2>1, <2>3, <3>2 DEF Queued
    <3> QED BY <1>1, <3>1, <3>2
  <2> QED BY <2>1, <2>2, <2>3
<1>3. CASE queue' = <<x>> \o queue
  <2>1. <<x>> \in Seq(Job) /\ Len(<<x>>) = 1 /\ <<x>>[1] = x
    OBVIOUS
  <2>2. /\ DOMAIN queue' = 1..(n + 1)
        /\ queue'[1] = x
        /\ \A i \in 2..(n + 1) : queue'[i] = queue[i - 1]
    BY <1>1, <1>3, <2>1, ConcatProperties, LenProperties
  <2>3. \A i \in 1..n : queue'[i + 1] = queue[i] /\ i + 1 \in 1..(n + 1)
    BY <1>1, <2>2
  <2>4. \A u : Queued(u)' <=> Queued(u) \/ u = x
    BY <1>1, <2>2, <2>3 DEF Queued
  <2>5. ASSUME NEW i \in 1..(n + 1), NEW j \in 1..(n + 1),
               queue'[i] \in Task, queue'[i] = queue'[j]
        PROVE  i = j
    <3>1. CASE i = 1 \/ j = 1
      BY <1>1, <2>2, <2>5, <3>1 DEF Queued
    <3>2. CASE i # 1 /\ j # 1
      <4>1. i - 1 \in 1..n /\ j - 1 \in 1..n
        BY <1>1, <3>2
      <4>2. i - 1 = j - 1
        BY <1>1, <2>2, <2>5, <3>2, <4>1 DEF JobsOnce
      <4> QED BY <4>2
    <3> QED BY <3>1, <3>2
  <2> QED BY <2>2, <2>4, <2>5
<1> QED BY <1>2, <1>3 DEF Q!Push, Q!Insert

LEMMA PopQueued ==
  ASSUME TypeOK, JobsOnce, NEW w \in Worker, Q!Pop(w)
  PROVE  /\ \A u : Queued(u) <=> Queued(u)' \/ u = Head(queue)
         /\ \A u \in Task : u = Head(queue) => ~Queued(u)'
         /\ \A i, j \in DOMAIN queue' :
              queue'[i] \in Task /\ queue'[i] = queue'[j] => i = j
<1> DEFINE n == Len(queue)
<1>1. queue \in Seq(Job) /\ queue # <<>> /\ queue' = Tail(queue)
  BY DEF TypeOK, Q!Pop
<1>2. n \in Nat /\ n > 0 /\ DOMAIN queue = 1..n /\ Head(queue) = queue[1]
  BY <1>1, LenProperties, EmptySeq
<1>3. DOMAIN queue' = 1..(n - 1) /\ \A i \in 1..(n - 1) : queue'[i] = queue[i + 1]
  BY <1>1, <1>2, HeadTailProperties, LenProperties
<1>4. \A i \in 1..(n - 1) : i + 1 \in 1..n /\ i + 1 # 1
  BY <1>2
<1>5. \A i \in 1..n : i = 1 \/ (i - 1 \in 1..(n - 1) /\ queue'[i - 1] = queue[i])
  BY <1>2, <1>3
<1>6. \A u : Queued(u) <=> Queued(u)' \/ u = Head(queue)
  BY <1>2, <1>3, <1>4, <1>5 DEF Queued
<1>7. \A u \in Task : u = Head(queue) => ~Queued(u)'
  BY <1>2, <1>3, <1>4 DEF Queued, JobsOnce
<1>8. ASSUME NEW i \in 1..(n - 1), NEW j \in 1..(n - 1),
             queue'[i] \in Task, queue'[i] = queue'[j]
      PROVE  i = j
  <2>1. queue[i + 1] \in Task /\ queue[i + 1] = queue[j + 1]
    BY <1>3, <1>8
  <2>2. i + 1 = j + 1
    BY <1>2, <1>4, <1>8, <2>1 DEF JobsOnce
  <2> QED BY <1>2, <2>2
<1> QED BY <1>3, <1>6, <1>7, <1>8

LEMMA JobsOnceNext == TypeOK /\ JobsOnce /\ [Next]_vars => JobsOnce'
<1> SUFFICES ASSUME TypeOK, JobsOnce, [Next]_vars PROVE JobsOnce'
  OBVIOUS
<1>1. ASSUME NEW t \in Task, NEW fifo \in BOOLEAN, Submit(t, fifo)
      PROVE  JobsOnce'
  <2>1. ~Queued(t) /\ t \in Job /\ Q!Push(User, t, fifo)
    BY <1>1 DEF Submit, JobsOnce, Job
  <2>2. /\ \A u : Queued(u)' <=> Queued(u) \/ u = t
        /\ \A i, j \in DOMAIN queue' :
             queue'[i] \in Task /\ queue'[i] = queue'[j] => i = j
    BY <2>1, PushQueued
  <2>3. \A u : \A v \in Worker : Runs(v, u)' <=> Runs(v, u)
    BY <1>1 DEF Submit, Runs
  <2>4. submitted' = submitted \cup {t} /\ t \notin submitted
    BY <1>1 DEF Submit
  <2> QED BY <2>2, <2>3, <2>4 DEF JobsOnce
<1>2. ASSUME NEW w \in Worker, Pop(w) PROVE JobsOnce'
  <2> DEFINE x == Head(queue)
  <2>1. /\ \A u : Queued(u) <=> Queued(u)' \/ u = x
        /\ \A u \in Task : u = x => ~Queued(u)'
        /\ \A i, j \in DOMAIN queue' :
             queue'[i] \in Task /\ queue'[i] = queue'[j] => i = j
    BY <1>2, PopQueued DEF Pop
  <2>2. \A u : \A v \in Worker : Runs(v, u)' <=> IF v = w THEN u = x ELSE Runs(v, u)
    BY <1>2 DEF Pop, Runs, TypeOK
  <2>3. submitted' = submitted
    BY <1>2 DEF Pop
  <2> HIDE DEF x
  <2> QED BY <2>1, <2>2, <2>3 DEF JobsOnce
<1>3. ASSUME NEW w \in Worker, Run(w) PROVE JobsOnce'
  <2>1. \A u : \A v \in Worker : Runs(v, u)' => Runs(v, u)
    BY <1>3 DEF Run, Runs, TypeOK
  <2>2. queue' = queue /\ submitted' = submitted /\ \A u : Queued(u)' <=> Queued(u)
    BY <1>3 DEF Run, Queued
  <2> QED BY <2>1, <2>2 DEF JobsOnce
<1>4. ASSUME NEW w \in Worker, Check(w) PROVE JobsOnce'
  <2>1. \A u : \A v \in Worker : Runs(v, u)' => Runs(v, u)
    BY <1>4 DEF Check, Runs, TypeOK
  <2>2. queue' = queue /\ submitted' = submitted /\ \A u : Queued(u)' <=> Queued(u)
    BY <1>4 DEF Check, Queued
  <2> QED BY <2>1, <2>2 DEF JobsOnce
<1>5. CASE JoinPush
  <2>1. Exit \in Job /\ Exit \notin Task /\ Q!Push(User, Exit, FALSE)
    BY <1>5 DEF JoinPush, Job
  <2>2. /\ \A u : Queued(u)' <=> Queued(u) \/ u = Exit
        /\ \A i, j \in DOMAIN queue' :
             queue'[i] \in Task /\ queue'[i] = queue'[j] => i = j
    BY <2>1, PushQueued
  <2>3. submitted' = submitted /\ \A u : \A v \in Worker : Runs(v, u)' <=> Runs(v, u)
    BY <1>5 DEF JoinPush, Runs
  <2> QED BY <2>1, <2>2, <2>3 DEF JobsOnce
<1>6. CASE UNCHANGED <<queue, pc, job, submitted>>
  BY <1>6 DEF JobsOnce, Queued, Runs
<1> QED BY <1>1, <1>2, <1>3, <1>4, <1>5, <1>6
        DEF Next, WorkerStep, JoinStep, BlockPop, Wakeup, JoinBegin, JoinThreads,
            JoinReturn, Q!BlockPop, Q!Wait, Q!SpuriousWakeup, vars

LEMMA JobsOnceInit == Init => JobsOnce
BY DEF Init, JobsOnce, Queued, Runs

\* A closure is never in two places, so it is never executed twice.
THEOREM NoJobTwice == Spec => []JobsOnce
BY JobsOnceInit, JobsOnceNext, TypeInit, TypeNext, PTL DEF Spec, Safe
-----------------------------------------------------------------------------
(***************************************************************************)
(* Closures submitted with fifo start in that order (task_pool.h:146-158). *)
(* OrderInv is what FifoOrder needs: order lists each closure once, and    *)
(* only closures that were submitted.                                      *)
(***************************************************************************)

OrderInv ==
  /\ \A k \in DOMAIN order : order[k] \in submitted
  /\ \A k, l \in DOMAIN order : order[k] = order[l] => k = l

\* Steps that leave the deque and the histories alone.
LEMMA FifoUnchanged ==
  OrderInv /\ FifoOrder /\ UNCHANGED <<queue, submitted, order, started>>
    => OrderInv' /\ FifoOrder'
BY DEF OrderInv, FifoOrder, Queued

\* A push to the front, or of a closure that is not in order, moves the other
\* closures of the deque but not past each other.
LEMMA PushFifo ==
  ASSUME TypeOK, JobsOnce, OrderInv, FifoOrder, NEW x \in Job,
         Q!Push(User, x, FALSE), x \in Task => ~Queued(x),
         \A k \in DOMAIN order : order[k] # x,
         order' = order, started' = started
  PROVE  FifoOrder'
<1> DEFINE n == Len(queue)
<1>1. n \in Nat /\ DOMAIN queue = 1..n /\ queue \in Seq(Job)
  BY LenProperties DEF TypeOK
<1>2. <<x>> \in Seq(Job) /\ Len(<<x>>) = 1 /\ <<x>>[1] = x
  OBVIOUS
<1>3. queue' = <<x>> \o queue
  BY DEF Q!Push, Q!Insert
<1>4. /\ DOMAIN queue' = 1..(n + 1)
      /\ queue'[1] = x
      /\ \A i \in 2..(n + 1) : queue'[i] = queue[i - 1]
  BY <1>1, <1>2, <1>3, ConcatProperties, LenProperties
<1>5. \A u : Queued(u)' <=> Queued(u) \/ u = x
  BY PushQueued
<1>6. ASSUME NEW i \in DOMAIN queue', NEW j \in DOMAIN queue',
             NEW k \in DOMAIN order, NEW l \in DOMAIN order,
             queue'[i] = order[k], queue'[j] = order[l], i < j
      PROVE  k < l
  <2>1. i # 1 /\ j # 1
    BY <1>4, <1>6
  <2>2. i \in 2..(n + 1) /\ j \in 2..(n + 1)
    BY <1>1, <1>4, <2>1
  <2>3. i - 1 \in 1..n /\ j - 1 \in 1..n /\ i - 1 < j - 1
    BY <1>1, <1>6, <2>2
  <2>4. queue[i - 1] = order[k] /\ queue[j - 1] = order[l]
    BY <1>4, <1>6, <2>2
  <2> QED BY <1>1, <2>3, <2>4 DEF FifoOrder
<1> HIDE DEF n
<1> QED BY <1>5, <1>6 DEF FifoOrder

\* A push to the back of a closure that joins the end of order.
LEMMA SubmitFifo ==
  ASSUME TypeOK, JobsOnce, OrderInv, FifoOrder, NEW t \in Task, Submit(t, TRUE)
  PROVE  OrderInv' /\ FifoOrder'
<1> DEFINE n == Len(queue)
           m == Len(order)
<1>1. /\ n \in Nat /\ DOMAIN queue = 1..n /\ queue \in Seq(Job)
      /\ m \in Nat /\ DOMAIN order = 1..m /\ order \in Seq(Task)
      /\ Len(started) \in Nat /\ started \in Seq(Task)
  BY LenProperties DEF TypeOK
<1>2. /\ ~Queued(t) /\ t \in Job /\ t \notin submitted
      /\ Q!Push(User, t, TRUE) /\ started' = started
      /\ submitted' = submitted \cup {t} /\ order' = Append(order, t)
  BY DEF Submit, JobsOnce, Job
<1>3. queue' = Append(queue, t)
  BY <1>2 DEF Q!Push, Q!Insert
<1>4. /\ DOMAIN queue' = 1..(n + 1) /\ queue'[n + 1] = t
      /\ \A i \in 1..n : queue'[i] = queue[i]
  BY <1>1, <1>3
<1>5. /\ DOMAIN order' = 1..(m + 1) /\ Len(order') = m + 1 /\ order'[m + 1] = t
      /\ \A k \in 1..m : order'[k] = order[k]
  BY <1>1, <1>2
<1>6. \A k \in 1..m : order[k] # t
  BY <1>1, <1>2 DEF OrderInv
<1>7. \A u : Queued(u)' <=> Queued(u) \/ u = t
  BY <1>2, PushQueued
<1>8. OrderInv'
  <2>1. \A k \in 1..(m + 1) : k \in 1..m \/ k = m + 1
    BY <1>1
  <2> HIDE DEF m
  <2> QED BY <1>1, <1>2, <1>5, <1>6, <2>1 DEF OrderInv
<1>9. Len(started) <= m + 1 /\ Len(started) <= m
  BY <1>1 DEF FifoOrder
<1>10. \A k \in DOMAIN started : started[k] = order'[k]
  <2>1. DOMAIN started \subseteq 1..m
    BY <1>1, <1>9, LenProperties
  <2> QED BY <1>5, <2>1 DEF FifoOrder
<1>11. \A k \in DOMAIN order' : (\E j \in DOMAIN queue' : queue'[j] = order'[k])
                                  <=> k > Len(started)
  <2>1. \A u : (\E j \in DOMAIN queue' : queue'[j] = u) <=> Queued(u) \/ u = t
    BY <1>7 DEF Queued
  <2>2. ASSUME NEW k \in 1..m
        PROVE  (\E j \in DOMAIN queue' : queue'[j] = order'[k]) <=> k > Len(started)
    <3>1. Queued(order[k]) <=> k > Len(started)
      BY <1>1 DEF FifoOrder
    <3> HIDE DEF m
    <3> QED BY <1>5, <1>6, <2>1, <3>1
  <2>3. (\E j \in DOMAIN queue' : queue'[j] = order'[m + 1]) /\ m + 1 > Len(started)
    <3> HIDE DEF m
    <3> QED BY <1>1, <1>5, <1>9, <2>1
  <2>4. \A k \in 1..(m + 1) : k \in 1..m \/ k = m + 1
    BY <1>1
  <2> HIDE DEF m
  <2> QED BY <1>5, <2>2, <2>3, <2>4
<1>12. ASSUME NEW i \in DOMAIN queue', NEW j \in DOMAIN queue',
              NEW k \in DOMAIN order', NEW l \in DOMAIN order',
              queue'[i] = order'[k], queue'[j] = order'[l], i < j
       PROVE  k < l
  <2>1. i \in 1..n
    BY <1>1, <1>4, <1>12
  <2>2. queue'[i] = queue[i] /\ queue[i] # t
    BY <1>1, <1>2, <1>4, <2>1 DEF Queued
  <2>3. k \in 1..m /\ queue[i] = order[k]
    <3>1. k \in 1..(m + 1) /\ order'[k] # t
      BY <1>5, <1>12, <2>2
    <3>2. k \in 1..m
      <4> HIDE DEF m
      <4> QED BY <1>1, <1>5, <3>1
    <3> QED BY <1>5, <1>12, <2>2, <3>2
  <2>4. CASE l = m + 1
    BY <1>1, <2>3, <2>4
  <2>5. CASE l # m + 1
    <3>1. l \in 1..m /\ order'[l] = order[l]
      BY <1>1, <1>5, <2>5
    <3>2. j \in 1..n /\ queue'[j] = queue[j]
      <4>1. j # n + 1
        BY <1>4, <1>6, <1>12, <3>1
      <4> QED BY <1>1, <1>4, <4>1
    <3> QED BY <1>1, <1>12, <2>1, <2>3, <3>1, <3>2 DEF FifoOrder
  <2> QED BY <2>4, <2>5
<1> HIDE DEF n, m
<1>13. FifoOrder'
  BY <1>2, <1>5, <1>9, <1>10, <1>11, <1>12 DEF FifoOrder, Queued
<1> QED BY <1>8, <1>13

\* A pop takes the first of the closures that are in the deque: the next in
\* order, or one that was pushed to the front.
LEMMA PopFifo ==
  ASSUME TypeOK, JobsOnce, OrderInv, FifoOrder, NEW w \in Worker, Pop(w)
  PROVE  FifoOrder'
<1> DEFINE n == Len(queue)
           x == Head(queue)
           s == Len(started)
<1>1. /\ n \in Nat /\ n > 0 /\ DOMAIN queue = 1..n /\ queue \in Seq(Job)
      /\ x = queue[1] /\ queue' = Tail(queue)
  BY LenProperties, EmptySeq DEF TypeOK, Pop, Q!Pop
<1>2. DOMAIN queue' = 1..(n - 1) /\ \A i \in 1..(n - 1) : queue'[i] = queue[i + 1]
  BY <1>1, HeadTailProperties, LenProperties
<1>3. /\ \A u : Queued(u) <=> Queued(u)' \/ u = x
      /\ \A u \in Task : u = x => ~Queued(u)'
  BY PopQueued DEF Pop
<1>4. /\ order' = order /\ order \in Seq(Task) /\ DOMAIN order = 1..Len(order)
      /\ Len(order) \in Nat /\ s \in Nat /\ started \in Seq(Task)
      /\ DOMAIN started = 1..s
  BY LenProperties DEF Pop, TypeOK
<1>5. ASSUME NEW i \in DOMAIN queue', NEW j \in DOMAIN queue',
             NEW k \in DOMAIN order, NEW l \in DOMAIN order,
             queue'[i] = order[k], queue'[j] = order[l], i < j
      PROVE  k < l
  <2>1. i + 1 \in 1..n /\ j + 1 \in 1..n /\ i + 1 < j + 1
    BY <1>1, <1>2, <1>5
  <2>2. queue[i + 1] = order[k] /\ queue[j + 1] = order[l]
    BY <1>2, <1>5
  <2> QED BY <1>1, <2>1, <2>2 DEF FifoOrder
<1>6. CASE ~InOrder(x)
  <2>1. started' = started /\ \A k \in DOMAIN order : order[k] # x
    BY <1>6 DEF Pop, InOrder
  <2> HIDE DEF n, x, s
  <2> QED BY <1>3, <1>4, <1>5, <2>1 DEF FifoOrder
<1>7. CASE InOrder(x)
  <2>1. PICK k \in DOMAIN order : order[k] = x
    BY <1>7 DEF InOrder
  <2>2. x \in Task /\ Queued(x) /\ k > s
    BY <1>1, <1>4, <2>1 DEF Queued, FifoOrder
  <2>3. s + 1 \in DOMAIN order /\ Queued(order[s + 1])
    BY <1>4, <2>2 DEF FifoOrder
  <2>4. PICK j \in DOMAIN queue : queue[j] = order[s + 1]
    BY <2>3 DEF Queued
  <2>5. ~(1 < j)
    BY <1>1, <1>4, <2>1, <2>2, <2>3, <2>4 DEF FifoOrder
  <2>6. j = 1
    BY <1>1, <2>5
  <2>7. k = s + 1
    BY <1>1, <2>1, <2>3, <2>4, <2>6 DEF OrderInv
  <2>8. started' = Append(started, x)
    BY <1>7 DEF Pop
  <2>9. /\ Len(started') = s + 1 /\ DOMAIN started' = 1..(s + 1)
        /\ started'[s + 1] = x /\ \A i \in 1..s : started'[i] = started[i]
    BY <1>4, <2>2, <2>8
  <2>10. s + 1 <= Len(order)
    BY <1>4, <2>3
  <2>11. \A i \in DOMAIN started' : started'[i] = order[i]
    <3>1. \A i \in 1..(s + 1) : i \in 1..s \/ i = s + 1
      BY <1>4
    <3>2. order[s + 1] = x
      BY <2>1, <2>7
    <3> HIDE DEF x, s
    <3> QED BY <1>4, <2>9, <3>1, <3>2 DEF FifoOrder
  <2>12. ASSUME NEW l \in DOMAIN order
         PROVE  Queued(order[l])' <=> l > s + 1
    <3>1. CASE l = s + 1
      BY <1>3, <1>4, <2>1, <2>2, <2>7, <3>1
    <3>2. CASE l # s + 1
      <4>1. order[l] # x
        BY <2>1, <2>7, <3>2 DEF OrderInv
      <4>2. Queued(order[l])' <=> Queued(order[l])
        BY <1>3, <1>4, <4>1
      <4>3. Queued(order[l]) <=> l > s
        BY DEF FifoOrder
      <4> QED BY <1>4, <3>2, <4>2, <4>3
    <3> QED BY <3>1, <3>2
  <2> HIDE DEF n, x, s
  <2> QED BY <1>4, <1>5, <2>9, <2>10, <2>11, <2>12 DEF FifoOrder
<1> QED BY <1>6, <1>7

LEMMA FifoNext ==
  TypeOK /\ JobsOnce /\ OrderInv /\ FifoOrder /\ [Next]_vars => OrderInv' /\ FifoOrder'
<1> SUFFICES ASSUME TypeOK, JobsOnce, OrderInv, FifoOrder, [Next]_vars
             PROVE  OrderInv' /\ FifoOrder'
  OBVIOUS
<1>1. ASSUME NEW t \in Task, NEW fifo \in BOOLEAN, Submit(t, fifo)
      PROVE  OrderInv' /\ FifoOrder'
  <2>1. CASE fifo = TRUE
    BY <1>1, <2>1, SubmitFifo
  <2>2. CASE fifo = FALSE
    <3>1. /\ ~Queued(t) /\ t \in Job /\ t \notin submitted /\ order' = order
          /\ Q!Push(User, t, FALSE) /\ submitted' = submitted \cup {t}
          /\ started' = started
      BY <1>1, <2>2 DEF Submit, JobsOnce, Job
    <3>2. \A k \in DOMAIN order : order[k] # t
      BY <3>1 DEF OrderInv
    <3>3. FifoOrder'
      BY <3>1, <3>2, PushFifo
    <3> QED BY <3>1, <3>3 DEF OrderInv
  <2> QED BY <2>1, <2>2
<1>2. ASSUME NEW w \in Worker, Pop(w) PROVE OrderInv' /\ FifoOrder'
  BY <1>2, PopFifo DEF Pop, OrderInv
<1>3. CASE JoinPush
  <2>1. /\ Exit \in Job /\ Exit \notin Task /\ Q!Push(User, Exit, FALSE)
        /\ UNCHANGED <<submitted, order, started>>
    BY <1>3 DEF JoinPush, Job
  <2>2. \A k \in DOMAIN order : order[k] # Exit
    BY DEF TypeOK
  <2> QED BY <2>1, <2>2, PushFifo DEF OrderInv
<1>4. CASE UNCHANGED <<queue, submitted, order, started>>
  BY <1>4, FifoUnchanged
<1> QED BY <1>1, <1>2, <1>3, <1>4
        DEF Next, WorkerStep, JoinStep, BlockPop, Wakeup, Run, Check, JoinBegin,
            JoinThreads, JoinReturn, Q!BlockPop, Q!Wait, Q!SpuriousWakeup, vars

LEMMA FifoInit == Init => OrderInv /\ FifoOrder
BY DEF Init, OrderInv, FifoOrder

\* The closures submitted with fifo are started in that order and none is
\* lost, whatever else is pushed to the front of the deque.
THEOREM FifoIsKept == Spec => []FifoOrder
BY FifoInit, FifoNext, JobsOnceInit, JobsOnceNext, TypeInit, TypeNext, PTL
   DEF Spec, Safe
-----------------------------------------------------------------------------
(***************************************************************************)
(* Every step of the pool is a step of Executor, or leaves the stages of   *)
(* the closures as they are.                                               *)
(***************************************************************************)

LEMMA ExCardinality == ASSUME NEW S PROVE Ex!Cardinality(S) = Cardinality(S)
BY DEF Ex!Cardinality, Cardinality

\* A worker that is about to pop is not running a closure, so that fewer
\* closures are running than there are workers.
LEMMA IdleWorker ==
  ASSUME TypeOK, JobsOnce, NEW w \in Worker, pc[w] # "run"
  PROVE  Cardinality({t \in Task : StageOf(t) = "running"}) < Count
<1> DEFINE R == {t \in Task : StageOf(t) = "running"}
           by == [t \in R |-> CHOOSE v \in Worker : Runs(v, t)]
           Others == Worker \ {w}
<1>1. \A t \in R : \E v \in Worker : Runs(v, t)
  BY DEF StageOf
<1>2. \A t \in R : by[t] \in Worker /\ Runs(by[t], t)
  BY <1>1
<1>3. \A t \in R : by[t] # w
  BY <1>2 DEF Runs
<1>4. by \in Injection(R, Others)
  <2>1. by \in [R -> Others]
    BY <1>2, <1>3
  <2>2. \A t, u \in R : by[t] = by[u] => t = u
    BY <1>2 DEF Runs
  <2> QED BY <2>1, <2>2 DEF Injection, IsInjective
<1>5. IsFiniteSet(Others) /\ Cardinality(Others) = Count - 1
  BY FS_RemoveElement DEF Count
<1>6. Cardinality(R) <= Count - 1
  BY <1>4, <1>5, FS_Injection
<1>7. IsFiniteSet(R)
  BY <1>4, <1>5, FS_Injection
<1> QED BY <1>6, <1>7, CountType, FS_CardinalityType

\* stages is the refinement mapping of Ex.
LEMMA RefineNext == TypeOK /\ JobsOnce /\ [Next]_vars => [Ex!Next]_(Ex!vars)
<1> DEFINE stages == [t \in Task |-> StageOf(t)]
<1> SUFFICES ASSUME TypeOK, JobsOnce, [Next]_vars PROVE [Ex!Next]_(Ex!vars)
  OBVIOUS
<1>1. ASSUME NEW t \in Task, NEW fifo \in BOOLEAN, Submit(t, fifo)
      PROVE  Ex!Next
  <2>1. ~Queued(t) /\ t \in Job /\ Q!Push(User, t, fifo)
    BY <1>1 DEF Submit, JobsOnce, Job
  <2>2. \A u : Queued(u)' <=> Queued(u) \/ u = t
    BY <2>1, PushQueued
  <2>3. submitted' = submitted \cup {t} /\ pc' = pc /\ job' = job /\ t \notin submitted
    BY <1>1 DEF Submit
  <2>4. StageOf(t) = "new" /\ StageOf(t)' = "queued"
    BY <2>2, <2>3 DEF StageOf
  <2>5. \A u \in Task : u # t => StageOf(u)' = StageOf(u)
    BY <2>2, <2>3 DEF StageOf, Runs
  <2>6. stages' = [stages EXCEPT ![t] = "queued"]
    BY <2>4, <2>5
  <2>7. Ex!Emplace(t)
    BY <2>4, <2>6 DEF Ex!Emplace
  <2>8. done' = done
    BY <1>1 DEF Submit
  <2> QED BY <2>7, <2>8 DEF Ex!Next, Ex!Work
<1>2. ASSUME NEW w \in Worker, Pop(w) PROVE [Ex!Next]_(Ex!vars)
  <2> DEFINE x == Head(queue)
  <2>1. /\ \A u : Queued(u) <=> Queued(u)' \/ u = x
        /\ \A u \in Task : u = x => ~Queued(u)'
    BY <1>2, PopQueued DEF Pop
  <2>2. \A u : \A v \in Worker : Runs(v, u)' <=> IF v = w THEN u = x ELSE Runs(v, u)
    BY <1>2 DEF Pop, Runs, TypeOK
  <2>3. submitted' = submitted /\ done' = done /\ x \in Job /\ pc[w] = "pop"
    BY <1>2, PopType DEF Pop
  <2>4. \A u : ~Runs(w, u)
    BY <2>3 DEF Runs
  <2> HIDE DEF x
  <2>5. \A u \in Task : u # x => StageOf(u)' = StageOf(u)
    BY <2>1, <2>2, <2>3, <2>4 DEF StageOf
  <2>6. CASE x \in Task
    <3>1. StageOf(x) = "queued"
      BY <2>1, <2>6 DEF StageOf, JobsOnce
    <3>2. ASSUME NEW u \in Task, u = x PROVE StageOf(u)' = "running"
      BY <2>1, <2>2, <2>3, <3>1, <3>2 DEF StageOf
    <3>3. stages' = [stages EXCEPT ![x] = "running"]
      BY <2>5, <2>6, <3>2
    <3>4. Cardinality({t \in Task : stages[t] = "running"}) < Count
      <4>1. {t \in Task : stages[t] = "running"} = {t \in Task : StageOf(t) = "running"}
        OBVIOUS
      <4> QED BY <2>3, <4>1, IdleWorker
    <3>5. Ex!Start(x)
      BY <2>6, <3>1, <3>3, <3>4, ExCardinality DEF Ex!Start, Ex!Running
    <3> QED BY <2>3, <2>6, <3>5 DEF Ex!Next, Ex!Work
  <2>7. CASE x \notin Task
    <3>1. stages' = stages
      BY <2>5, <2>7
    <3> QED BY <2>3, <3>1 DEF Ex!vars
  <2> QED BY <2>6, <2>7
<1>3. ASSUME NEW w \in Worker, Run(w) PROVE [Ex!Next]_(Ex!vars)
  <2>1. pc[w] = "run" /\ job[w] \in Job
    BY <1>3 DEF Run, TypeOK
  <2>2. \A u : \A v \in Worker : Runs(v, u)' <=> Runs(v, u) /\ v # w
    BY <1>3 DEF Run, Runs, TypeOK
  <2>3. submitted' = submitted /\ done' = done /\ \A u : Queued(u)' <=> Queued(u)
    BY <1>3 DEF Run, Queued
  <2>4. \A u \in Task : u # job[w] => StageOf(u)' = StageOf(u)
    BY <2>1, <2>2, <2>3 DEF StageOf, Runs
  <2>5. CASE job[w] \in Task
    <3>1. PICK t \in Task : t = job[w] /\ Runs(w, t)
      BY <2>1, <2>5 DEF Runs
    <3>2. StageOf(t) = "running"
      BY <3>1 DEF StageOf, JobsOnce
    <3>3. StageOf(t)' = "done"
      BY <2>2, <2>3, <3>1 DEF StageOf, JobsOnce
    <3>4. stages' = [stages EXCEPT ![t] = "done"]
      BY <2>4, <3>1, <3>3
    <3>5. Ex!Complete(t)
      BY <3>2, <3>4 DEF Ex!Complete
    <3> QED BY <2>3, <3>5 DEF Ex!Next, Ex!Work
  <2>6. CASE job[w] \notin Task
    <3>1. stages' = stages
      BY <2>4, <2>6
    <3> QED BY <2>3, <3>1 DEF Ex!vars
  <2> QED BY <2>5, <2>6
<1>4. ASSUME NEW w \in Worker, Check(w) PROVE UNCHANGED Ex!vars
  <2>1. \A u : \A v \in Worker : Runs(v, u)' <=> Runs(v, u)
    BY <1>4 DEF Check, Runs, TypeOK
  <2>2. submitted' = submitted /\ done' = done /\ \A u : Queued(u)' <=> Queued(u)
    BY <1>4 DEF Check, Queued
  <2>3. \A u \in Task : StageOf(u)' = StageOf(u)
    BY <2>1, <2>2 DEF StageOf
  <2> QED BY <2>2, <2>3 DEF Ex!vars
<1>5. CASE JoinBegin
  <2>1. \A u \in Task : StageOf(u)' = StageOf(u)
    BY <1>5 DEF JoinBegin, StageOf, Queued, Runs
  <2>2. stages' = stages /\ done' = TRUE
    BY <1>5, <2>1 DEF JoinBegin
  <2>3. CASE done
    BY <2>2, <2>3 DEF Ex!vars
  <2>4. CASE ~done
    BY <2>2, <2>4 DEF Ex!Next, Ex!Close
  <2> QED BY <2>3, <2>4
<1>6. CASE JoinPush
  <2>1. Exit \in Job /\ Exit \notin Task /\ Q!Push(User, Exit, FALSE)
    BY <1>6 DEF JoinPush, Job
  <2>2. \A u : Queued(u)' <=> Queued(u) \/ u = Exit
    BY <2>1, PushQueued
  <2>3. submitted' = submitted /\ pc' = pc /\ job' = job /\ done' = done
    BY <1>6 DEF JoinPush
  <2>4. \A u \in Task : StageOf(u)' = StageOf(u)
    BY <2>1, <2>2, <2>3 DEF StageOf, Runs
  <2> QED BY <2>3, <2>4 DEF Ex!vars
<1>7. CASE UNCHANGED <<queue, pc, job, done, submitted>>
  BY <1>7 DEF Ex!vars, StageOf, Queued, Runs
<1> QED BY <1>1, <1>2, <1>3, <1>4, <1>5, <1>6, <1>7
        DEF Next, WorkerStep, JoinStep, BlockPop, Wakeup, JoinThreads, JoinReturn,
            Q!BlockPop, Q!Wait, Q!SpuriousWakeup, vars

LEMMA RefineInit == Init => Ex!Init
BY DEF Init, Ex!Init, StageOf

\* The pool executes each closure at most once, never one that was not
\* submitted, and never more of them at a time than it has threads.
THEOREM ImplementsExecutorSafely == Spec => Ex!Safe
BY RefineInit, RefineNext, JobsOnceInit, JobsOnceNext, TypeInit, TypeNext, PTL
   DEF Spec, Safe, Ex!Safe
=============================================================================
