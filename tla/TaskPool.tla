------------------------------ MODULE TaskPool ------------------------------
(***************************************************************************)
(* core/Level0/task_pool.h: worker threads that take closures from a       *)
(* sync_deque without limit, and join, which sets _done, pushes one empty  *)
(* closure per worker at the front of the deque and waits for the threads. *)
(* It is the Default pool of Actuator.h, and it implements Executor.       *)
(***************************************************************************)
EXTENDS Naturals, Sequences, FiniteSets

CONSTANTS Task,     \* the closures submitted by the users of the pool
          Worker,   \* the threads of the pool
          Exit,     \* the closure of exist_func
          User,     \* a thread that is not in the pool and never waits in it
          MaxJoins  \* bound: the calls of join, the destructor's included

ASSUME TaskPoolAssumption ==
  /\ IsFiniteSet(Worker)
  /\ Exit \notin Task
  /\ User \notin Worker
  /\ MaxJoins \in Nat

VARIABLES queue, waiting, woken,  \* _task_queue, see SyncDeque
          pc,          \* pc[w]: where worker_thread w is
          job,         \* job[w]: the closure w has popped, or Exit
          done,        \* _done
          finishCount, \* _finish_count
          joinPhase,   \* where the thread that calls join is
          toPush,      \* exit closures this join has yet to push
          joins,       \* calls of join so far
          submitted,   \* history: the tasks submitted
          order,       \* history: those submitted with fifo, in order
          started      \* history: those of them that were started, in order

deque == <<queue, waiting, woken>>
vars == <<queue, waiting, woken, pc, job, done, finishCount, joinPhase, toPush,
          joins, submitted, order, started>>

\* The deque without limit; its harness is not used.
Q == INSTANCE SyncDeque WITH Producer <- {}, Consumer <- Worker, Item <- Task,
       Sizes <- {0}, maxSize <- 0, pushed <- submitted, popped <- submitted

Count == Cardinality(Worker)   \* _thread_count
Job == Task \cup {Exit}
WorkerPC == {"pop", "run", "check", "exited"}

TypeOK == /\ queue \in Seq(Job)
          /\ waiting \subseteq Worker
          /\ woken \subseteq Worker \ waiting
          /\ pc \in [Worker -> WorkerPC]
          /\ job \in [Worker -> Job]
          /\ done \in BOOLEAN
          /\ finishCount \in Nat
          /\ joinPhase \in {"idle", "pushing", "threads"}
          /\ toPush \in 0..Count
          /\ joins \in 0..MaxJoins
          /\ submitted \subseteq Task
          /\ order \in Seq(Task)
          /\ started \in Seq(Task)

Init == /\ queue = <<>>
        /\ waiting = {}
        /\ woken = {}
        /\ pc = [w \in Worker |-> "pop"]
        /\ job = [w \in Worker |-> Exit]
        /\ done = FALSE
        /\ finishCount = 0
        /\ joinPhase = "idle"
        /\ toPush = 0
        /\ joins = 0
        /\ submitted = {}
        /\ order = <<>>
        /\ started = <<>>
-----------------------------------------------------------------------------
\* submit(fifo, f), by any thread.  It does not look at _done: a task that is
\* submitted to a pool that shuts down stays in the deque.
Submit(t, fifo) ==
  /\ t \notin submitted
  /\ Q!Push(User, t, fifo)
  /\ submitted' = submitted \cup {t}
  /\ order' = IF fifo THEN Append(order, t) ELSE order
  /\ UNCHANGED <<pc, job, done, finishCount, joinPhase, toPush, joins, started>>

\* Job x was submitted with fifo.
InOrder(x) == \E i \in DOMAIN order : order[i] = x

\* Mutated Pop: the back is taken and the front removed (stealing_queue.h:54).
PopMixedUp(w) ==
  /\ pc[w] = "pop"
  /\ Q!Pop(w)
  /\ pc' = [pc EXCEPT ![w] = "run"]
  /\ job' = [job EXCEPT ![w] = queue[Len(queue)]]
  /\ UNCHANGED <<done, finishCount, joinPhase, toPush, joins, submitted, order,
                 started>>

\* worker_thread: wait_and_pop.
Pop(w) ==
  /\ pc[w] = "pop"
  /\ Q!Pop(w)
  /\ pc' = [pc EXCEPT ![w] = "run"]
  /\ job' = [job EXCEPT ![w] = Head(queue)]
  /\ started' = IF InOrder(Head(queue)) THEN Append(started, Head(queue))
                 ELSE started
  /\ UNCHANGED <<done, finishCount, joinPhase, toPush, joins, submitted, order>>

BlockPop(w) ==
  /\ pc[w] = "pop"
  /\ Q!BlockPop(w)
  /\ UNCHANGED <<pc, job, done, finishCount, joinPhase, toPush, joins,
                 submitted, order, started>>

Wakeup(w) ==
  /\ Q!SpuriousWakeup(w)
  /\ UNCHANGED <<pc, job, done, finishCount, joinPhase, toPush, joins,
                 submitted, order, started>>

\* The closure returns, or throws and is caught.
Run(w) ==
  /\ pc[w] = "run"
  /\ pc' = [pc EXCEPT ![w] = "check"]
  /\ finishCount' = IF job[w] = Exit THEN finishCount + 1 ELSE finishCount
  /\ UNCHANGED <<queue, waiting, woken, job, done, joinPhase, toPush, joins,
                 submitted, order, started>>

\* while (!_done)
Check(w) ==
  /\ pc[w] = "check"
  /\ pc' = [pc EXCEPT ![w] = IF done THEN "exited" ELSE "pop"]
  /\ UNCHANGED <<queue, waiting, woken, job, done, finishCount, joinPhase,
                 toPush, joins, submitted, order, started>>
-----------------------------------------------------------------------------
\* Mutated JoinBegin: one exit closure too few, or too many.
JoinBeginFewer ==
  /\ joinPhase = "idle" /\ joins < MaxJoins
  /\ done' = TRUE
  /\ joinPhase' = "pushing"
  /\ toPush' = Count - 1
  /\ joins' = joins + 1
  /\ UNCHANGED <<queue, waiting, woken, pc, job, finishCount, submitted, order,
                 started>>

JoinBeginMore ==
  /\ joinPhase = "idle" /\ joins < MaxJoins
  /\ done' = TRUE
  /\ joinPhase' = "pushing"
  /\ toPush' = Count + 1
  /\ joins' = joins + 1
  /\ UNCHANGED <<queue, waiting, woken, pc, job, finishCount, submitted, order,
                 started>>

\* join, which the destructor calls as well.
JoinBegin ==
  /\ joinPhase = "idle" /\ joins < MaxJoins
  /\ done' = TRUE
  /\ joinPhase' = "pushing"
  /\ toPush' = Count
  /\ joins' = joins + 1
  /\ UNCHANGED <<queue, waiting, woken, pc, job, finishCount, submitted, order,
                 started>>

\* submit(false, exist_func): the exit closures overtake what is queued.
JoinPush ==
  /\ joinPhase = "pushing" /\ toPush > 0
  /\ Q!Push(User, Exit, FALSE)
  /\ toPush' = toPush - 1
  /\ UNCHANGED <<pc, job, done, finishCount, joinPhase, joins, submitted, order,
                 started>>

JoinThreads ==
  /\ joinPhase = "pushing" /\ toPush = 0
  /\ joinPhase' = "threads"
  /\ UNCHANGED <<queue, waiting, woken, pc, job, done, finishCount, toPush,
                 joins, submitted, order, started>>

JoinReturn ==
  /\ joinPhase = "threads"
  /\ \A w \in Worker : pc[w] = "exited"
  /\ joinPhase' = "idle"
  /\ UNCHANGED <<queue, waiting, woken, pc, job, done, finishCount, toPush,
                 joins, submitted, order, started>>

WorkerStep(w) == Pop(w) \/ BlockPop(w) \/ Run(w) \/ Check(w)
JoinStep == JoinPush \/ JoinThreads \/ JoinReturn

Next == \/ \E t \in Task, fifo \in BOOLEAN : Submit(t, fifo)
        \/ \E w \in Worker : WorkerStep(w) \/ Wakeup(w)
        \/ JoinBegin
        \/ JoinStep

\* Threads run, and closures end.
Fairness == /\ \A w \in Worker : WF_vars(WorkerStep(w))
            /\ WF_vars(JoinStep)

Safe == Init /\ [][Next]_vars

Spec == Safe /\ Fairness
-----------------------------------------------------------------------------
(***************************************************************************)
(* Properties.                                                             *)
(***************************************************************************)

\* No worker sleeps over work: while one waits, every closure in the deque has
\* a notified worker of its own.  A user's closure, an exit closure and a
\* spurious wakeup may all compete for the same sleepers.
WakeupsCover == waiting # {} => Len(queue) <= Cardinality(woken)

\* Workers that would block in, or are about to enter, wait_and_pop.
Popping == {w \in Worker : pc[w] = "pop"}

\* Shutting down, there is a closure for every worker that still has to pop
\* one before it looks at _done, those included that join has yet to push:
\* join cannot wait for a worker that waits for a closure.
ExitClosures == done => Cardinality(Popping) <= Len(queue) + toPush

Queued(x) == \E i \in DOMAIN queue : queue[i] = x

\* Closures submitted with fifo start in the order of their submission, and
\* none of them is lost: what has not started is in the deque, in that order,
\* whatever was pushed to the front of it meanwhile.
FifoOrder ==
  /\ Len(started) <= Len(order)
  /\ \A k \in DOMAIN started : started[k] = order[k]
  /\ \A k \in DOMAIN order : Queued(order[k]) <=> k > Len(started)
  /\ \A i, j \in DOMAIN queue, k, l \in DOMAIN order :
       queue[i] = order[k] /\ queue[j] = order[l] /\ i < j => k < l

\* join returns, the second one as well, though closures submitted before and
\* during the shutdown compete with the exit closures for the workers.
JoinTerminates == joinPhase # "idle" ~> joinPhase = "idle"

Runs(w, x) == pc[w] = "run" /\ job[w] = x

\* A submitted closure is in one place at most: once in the deque or with one
\* worker, never in both; front pushes, back pushes and pops do not duplicate
\* it.
JobsOnce ==
  /\ \A i, j \in DOMAIN queue : queue[i] \in Task /\ queue[i] = queue[j] => i = j
  /\ \A x \in Task : Queued(x) => x \in submitted
  /\ \A x \in Task, w \in Worker : Runs(w, x) => x \in submitted /\ ~Queued(x)
  /\ \A x \in Task, v, w \in Worker : Runs(v, x) /\ Runs(w, x) => v = w

\* The stage of task t, read off the deque and the workers.
StageOf(t) ==
  IF t \notin submitted THEN "new"
  ELSE IF Queued(t) THEN "queued"
  ELSE IF \E w \in Worker : Runs(w, t) THEN "running"
  ELSE "done"

Ex == INSTANCE Executor WITH Width <- Count,
        stage <- [t \in Task |-> StageOf(t)], closed <- done

\* The pool keeps what Executor promises: a task runs once, on one of Count
\* threads, and is started eventually unless the pool shuts down.
ImplementsExecutor == Ex!Spec
=============================================================================
