----------------------- MODULE WorkStealingThreadpool -----------------------
(***************************************************************************)
(* core/Level0/workstealing_threadpool.hpp, class WorkStealingThreadpool:  *)
(* workers with a queue and a one-place cache each, a central queue for    *)
(* the closures of other threads, and the Notifier, on which idle workers  *)
(* sleep.  It is the other pool of Actuator.h and implements Executor.     *)
(*                                                                         *)
(* A queue is a bag, which is what WorkStealingQueue implements, and the   *)
(* notifier is an EventCount, which is what Notifier implements.  A steal  *)
(* may come back empty-handed from a queue that is not empty, as it does   *)
(* when another thread is faster.                                          *)
(***************************************************************************)
EXTENDS Naturals, FiniteSets

CONSTANTS Task,     \* the closures
          Worker,   \* the threads of the pool, at least one
          Client,   \* the thread that owns the pool and is not in it
          none      \* no task, no thread

ASSUME WorkStealingThreadpoolAssumption ==
  /\ IsFiniteSet(Worker) /\ Worker # {}
  /\ IsFiniteSet(Task)
  /\ Client \notin Worker
  /\ none \notin Task \cup Worker \cup {Client}

VARIABLES central,  \* _queue
          own,      \* own[w]: the queue of worker w
          cache,    \* cache[w]: the cache of worker w, a task or none
          job,      \* job[w]: the local t of worker w, a task or none
          pc,       \* pc[w]: where worker w is
          exit,     \* exit[w]: the flag by which w is told to stop
          rest,     \* rest[x]: what is left of the batch that thread x puts in
          lock,     \* _mutex: the thread that holds it, or none
          spinning, \* _spinning
          idlers,   \* _num_idlers
          phase,    \* _notifier, see EventCount
          cpc,      \* where the client is
          calls,    \* calls of notify the client has yet to make
          known,    \* history: the tasks of every emplace and batch so far
          done      \* history: those whose closure has returned

clientVars == <<cpc, calls>>
taskVars == <<central, own, cache, job, rest, known, done>>
vars == <<taskVars, pc, exit, lock, spinning, idlers, phase, clientVars>>

Notifier == INSTANCE EventCount WITH Waiter <- Worker

WorkerPC == {"loop", "pop", "steal", "spin", "spun", "prepare", "try", "locked",
             "pop central", "cancel", "idle", "commit", "woken", "run", "chain",
             "push", "notify", "exited"}
ClientPC == {"idle", "lock", "push", "count", "notify",
             "lock exit", "exit", "notify all", "join", "gone"}

TypeOK == /\ central \subseteq Task
          /\ own \in [Worker -> SUBSET Task]
          /\ cache \in [Worker -> Task \cup {none}]
          /\ job \in [Worker -> Task \cup {none}]
          /\ pc \in [Worker -> WorkerPC]
          /\ exit \in [Worker -> BOOLEAN]
          /\ rest \in [Worker \cup {Client} -> SUBSET Task]
          /\ lock \in Worker \cup {Client, none}
          /\ spinning \in BOOLEAN
          /\ idlers \in 0..Cardinality(Worker)
          /\ phase \in [Worker -> Notifier!Phase]
          /\ cpc \in ClientPC
          /\ calls \in 0..Cardinality(Task)
          /\ known \subseteq Task
          /\ done \subseteq known

Init == /\ central = {}
        /\ own = [w \in Worker |-> {}]
        /\ cache = [w \in Worker |-> none]
        /\ job = [w \in Worker |-> none]
        /\ pc = [w \in Worker |-> "loop"]
        /\ exit = [w \in Worker |-> FALSE]
        /\ rest = [x \in Worker \cup {Client} |-> {}]
        /\ lock = none
        /\ spinning = FALSE
        /\ idlers = 0
        /\ Notifier!Init
        /\ cpc = "idle"
        /\ calls = 0
        /\ known = {}
        /\ done = {}
-----------------------------------------------------------------------------
(***************************************************************************)
(* A worker looks for a task.                                              *)
(***************************************************************************)
Goes(w, from, to) == pc[w] = from /\ pc' = [pc EXCEPT ![w] = to]

Holds(w, t) == job' = [job EXCEPT ![w] = t]

\* Besides a queue, a job and the spinning flag, nothing changes.
OnlyTakes == UNCHANGED <<cache, rest, known, done, exit, lock, idlers,
                         phase, clientVars>>

\* while(!worker.exit)
Loop(w) ==
  /\ Goes(w, "loop", IF exit[w] THEN "exited" ELSE "pop")
  /\ UNCHANGED <<taskVars, exit, lock, spinning, idlers, phase, clientVars>>

\* worker.queue.pop(): the owner misses a task only when a thief has taken it.
PopOwn(w) ==
  /\ IF own[w] = {}
       THEN /\ Goes(w, "pop", "steal")
            /\ UNCHANGED <<own, job>>
       ELSE \E t \in own[w] : /\ Goes(w, "pop", "run")
                              /\ Holds(w, t)
                              /\ own' = [own EXCEPT ![w] = @ \ {t}]
  /\ UNCHANGED <<central, spinning>> /\ OnlyTakes

\* Mutated StealTask: the task stays where it is.
StealCopy(w, t) ==
  /\ Holds(w, t)
  /\ t \in central \/ \E v \in Worker \ {w} : t \in own[v]
  /\ UNCHANGED <<central, own>>

\* _steal finds t in the central queue or in that of another worker.
StealTask(w, t) ==
  /\ Holds(w, t)
  /\ \/ /\ t \in central
        /\ central' = central \ {t}
        /\ UNCHANGED own
     \/ \E v \in Worker \ {w} : /\ t \in own[v]
                                /\ own' = [own EXCEPT ![v] = @ \ {t}]
                                /\ UNCHANGED central

Steal(w) ==
  /\ Goes(w, "steal", "run")
  /\ \E t \in Task : StealTask(w, t)
  /\ UNCHANGED spinning /\ OnlyTakes

\* One worker without a task goes on stealing for a while, the others prepare
\* to wait.
StealNothing(w) ==
  /\ Goes(w, "steal", IF spinning THEN "prepare" ELSE "spin")
  /\ spinning' = TRUE
  /\ UNCHANGED <<central, own, job>> /\ OnlyTakes

\* 1024 times at most; a _steal that finds nothing changes nothing.
Spin(w) ==
  /\ Goes(w, "spin", "spun")
  /\ \/ \E t \in Task : StealTask(w, t)
     \/ UNCHANGED <<central, own, job>>
  /\ UNCHANGED spinning /\ OnlyTakes

StopSpinning(w) ==
  /\ Goes(w, "spun", IF job[w] = none THEN "prepare" ELSE "run")
  /\ spinning' = FALSE
  /\ UNCHANGED <<central, own, job>> /\ OnlyTakes
-----------------------------------------------------------------------------
(***************************************************************************)
(* A worker that has found none looks again and goes to sleep.             *)
(***************************************************************************)
Prepare(w) ==
  /\ Goes(w, "prepare", "try")
  /\ Notifier!Prepare(w)
  /\ UNCHANGED <<taskVars, exit, lock, spinning, idlers, clientVars>>

TryLock(w) ==
  /\ Goes(w, "try", IF lock = none THEN "locked" ELSE "cancel")
  /\ lock' = IF lock = none THEN w ELSE lock
  /\ UNCHANGED <<taskVars, exit, spinning, idlers, phase, clientVars>>

\* Mutated Look: the flag is not looked at.
LookNoExit(w) ==
  /\ Goes(w, "locked", IF central # {} THEN "pop central" ELSE "idle")
  /\ lock' = IF central # {} THEN w ELSE none
  /\ UNCHANGED <<taskVars, exit, spinning, idlers, phase, clientVars>>

\* Under the lock: is there a reason not to sleep?
Look(w) ==
  /\ Goes(w, "locked", IF exit[w] THEN "cancel"
                       ELSE IF central # {} THEN "pop central" ELSE "idle")
  /\ lock' = IF ~exit[w] /\ central # {} THEN w ELSE none
  /\ UNCHANGED <<taskVars, exit, spinning, idlers, phase, clientVars>>

\* The task it has seen may have been stolen.
PopCentral(w) ==
  /\ Goes(w, "pop central", "cancel")
  /\ \/ \E t \in central : central' = central \ {t} /\ Holds(w, t)
     \/ central = {} /\ UNCHANGED <<central, job>>
  /\ lock' = none
  /\ UNCHANGED <<own, cache, rest, known, done, exit, spinning, idlers, phase,
                 clientVars>>

Cancel(w) ==
  /\ Goes(w, "cancel", IF job[w] = none THEN "loop" ELSE "run")
  /\ Notifier!Cancel(w)
  /\ UNCHANGED <<taskVars, exit, lock, spinning, idlers, clientVars>>

CountIdler(w) ==
  /\ Goes(w, "idle", "commit")
  /\ idlers' = idlers + 1
  /\ UNCHANGED <<taskVars, exit, lock, spinning, phase, clientVars>>

\* commit_wait: the worker falls asleep, unless it has been notified ...
Commit(w) ==
  /\ pc[w] = "commit"
  /\ Notifier!Commit(w)
  /\ UNCHANGED <<taskVars, pc, exit, lock, spinning, idlers, clientVars>>

\* ... and returns when it has.
Return(w) ==
  /\ Goes(w, "commit", "woken")
  /\ Notifier!Return(w)
  /\ UNCHANGED <<taskVars, exit, lock, spinning, idlers, clientVars>>

\* Mutated UncountIdler: the count is not taken back.
UncountIdlerNot(w) ==
  /\ Goes(w, "woken", "loop")
  /\ UNCHANGED <<taskVars, exit, lock, spinning, idlers, phase, clientVars>>

UncountIdler(w) ==
  /\ Goes(w, "woken", "loop")
  /\ idlers' = idlers - 1
  /\ UNCHANGED <<taskVars, exit, lock, spinning, phase, clientVars>>
-----------------------------------------------------------------------------
(***************************************************************************)
(* A worker runs a task, which may put tasks into the pool.                *)
(***************************************************************************)
New(S) == S # {} /\ S \cap known = {} /\ known' = known \cup S

\* emplace (of one task) and batch, called by the closure that w runs: the
\* cache takes one task when it is free.
WorkerBatch(w, S) ==
  /\ New(S)
  /\ \/ /\ cache[w] = none
        /\ \E t \in S :
             /\ cache' = [cache EXCEPT ![w] = t]
             /\ rest' = [rest EXCEPT ![w] = S \ {t}]
             /\ Goes(w, "run", IF S = {t} THEN "run" ELSE "push")
     \/ /\ cache[w] # none
        /\ rest' = [rest EXCEPT ![w] = S]
        /\ Goes(w, "run", "push")
        /\ UNCHANGED cache
  /\ UNCHANGED <<central, own, job, done, exit, lock, spinning, idlers, phase,
                 clientVars>>

WorkerPush(w) ==
  /\ Goes(w, "push", "notify")
  /\ \E t \in rest[w] : /\ rest' = [rest EXCEPT ![w] = @ \ {t}]
                        /\ own' = [own EXCEPT ![w] = @ \cup {t}]
  /\ UNCHANGED <<central, cache, job, known, done, exit, lock, spinning, idlers,
                 phase, clientVars>>

WorkerNotify(w) ==
  /\ Goes(w, "notify", IF rest[w] = {} THEN "run" ELSE "push")
  /\ Notifier!NotifyOne
  /\ UNCHANGED <<taskVars, exit, lock, spinning, idlers, clientVars>>

Finish(w) ==
  /\ Goes(w, "run", "chain")
  /\ done' = done \cup {job[w]}
  /\ Holds(w, none)
  /\ UNCHANGED <<central, own, cache, rest, known, exit, lock, spinning, idlers,
                 phase, clientVars>>

\* while(t): the task in the cache is next, whatever worker.exit says.
Chain(w) ==
  /\ Goes(w, "chain", IF cache[w] = none THEN "loop" ELSE "run")
  /\ Holds(w, cache[w])
  /\ cache' = [cache EXCEPT ![w] = none]
  /\ UNCHANGED <<central, own, rest, known, done, exit, lock, spinning, idlers,
                 phase, clientVars>>
-----------------------------------------------------------------------------
(***************************************************************************)
(* The client: emplace (of one task), batch, and the destructor.           *)
(***************************************************************************)
ClientGoes(from, to) == cpc = from /\ cpc' = to

ClientBatch(S) ==
  /\ New(S)
  /\ ClientGoes("idle", "lock")
  /\ rest' = [rest EXCEPT ![Client] = S]
  /\ calls' = Cardinality(S)
  /\ UNCHANGED <<central, own, cache, job, done, pc, exit, lock, spinning, idlers,
                 phase>>

\* scoped_lock, in batch and in the destructor
ClientLock ==
  /\ lock = none
  /\ lock' = Client
  /\ ClientGoes("lock", "push") \/ ClientGoes("lock exit", "exit")
  /\ UNCHANGED <<taskVars, pc, exit, spinning, idlers, phase, calls>>

ClientPush ==
  /\ cpc = "push"
  /\ \E t \in rest[Client] :
       /\ central' = central \cup {t}
       /\ rest' = [rest EXCEPT ![Client] = @ \ {t}]
       /\ IF rest[Client] = {t} THEN cpc' = "count" /\ lock' = none
                                ELSE UNCHANGED <<cpc, lock>>
  /\ UNCHANGED <<own, cache, job, known, done, pc, exit, spinning, idlers, phase,
                 calls>>

Least(m, n) == IF m <= n THEN m ELSE n

\* Mutated ClientCount: as many as there seem to be idlers.
ClientCountNone ==
  /\ ClientGoes("count", IF idlers = 0 THEN "idle" ELSE "notify")
  /\ calls' = Least(idlers, calls)
  /\ UNCHANGED <<taskVars, pc, exit, lock, spinning, idlers, phase>>

\* How many to notify: as many as there seem to be idlers, and one at least.
ClientCount ==
  /\ ClientGoes("count", "notify")
  /\ calls' = IF idlers = 0 THEN 1 ELSE Least(idlers, calls)
  /\ UNCHANGED <<taskVars, pc, exit, lock, spinning, idlers, phase>>

ClientNotify ==
  /\ ClientGoes("notify", IF calls = 1 THEN "idle" ELSE "notify")
  /\ Notifier!NotifyOne
  /\ calls' = calls - 1
  /\ UNCHANGED <<taskVars, pc, exit, lock, spinning, idlers>>

Destroy ==
  /\ ClientGoes("idle", "lock exit")
  /\ UNCHANGED <<taskVars, pc, exit, lock, spinning, idlers, phase, calls>>

\* The flags are set one after the other; a worker reads its own without the
\* lock at the head of its loop.
SetExit ==
  /\ cpc = "exit"
  /\ \E w \in Worker :
       /\ ~exit[w]
       /\ exit' = [exit EXCEPT ![w] = TRUE]
       /\ IF \A v \in Worker \ {w} : exit[v] THEN cpc' = "notify all" /\ lock' = none
                                             ELSE UNCHANGED <<cpc, lock>>
  /\ UNCHANGED <<taskVars, pc, spinning, idlers, phase, calls>>

\* Mutated NotifyAll: notify(false).
NotifyAllButOne ==
  /\ ClientGoes("notify all", "join")
  /\ Notifier!NotifyOne
  /\ UNCHANGED <<taskVars, pc, exit, lock, spinning, idlers, calls>>

NotifyAll ==
  /\ ClientGoes("notify all", "join")
  /\ Notifier!NotifyAll
  /\ UNCHANGED <<taskVars, pc, exit, lock, spinning, idlers, calls>>

Join ==
  /\ ClientGoes("join", "gone")
  /\ \A w \in Worker : pc[w] = "exited"
  /\ UNCHANGED <<taskVars, pc, exit, lock, spinning, idlers, phase, calls>>
-----------------------------------------------------------------------------
WorkerStep(w) == \/ Loop(w) \/ PopOwn(w) \/ Steal(w) \/ StealNothing(w)
                 \/ Spin(w) \/ StopSpinning(w)
                 \/ Prepare(w) \/ TryLock(w) \/ Look(w) \/ PopCentral(w) \/ Cancel(w)
                 \/ CountIdler(w) \/ Commit(w) \/ Return(w) \/ UncountIdler(w)
                 \/ WorkerPush(w) \/ WorkerNotify(w) \/ Finish(w) \/ Chain(w)

ClientStep == \/ ClientLock \/ ClientPush \/ ClientCount \/ ClientNotify
              \/ SetExit \/ NotifyAll \/ Join

Next == \/ \E w \in Worker : WorkerStep(w)
        \/ \E w \in Worker, S \in SUBSET Task : WorkerBatch(w, S)
        \/ \E S \in SUBSET Task : ClientBatch(S)
        \/ Destroy
        \/ ClientStep

Safe == Init /\ [][Next]_vars

\* Threads run and closures end.
Fairness == /\ \A w \in Worker : WF_vars(WorkerStep(w))
            /\ WF_vars(ClientStep)

Spec == Safe /\ Fairness
-----------------------------------------------------------------------------
(***************************************************************************)
(* Properties.                                                             *)
(***************************************************************************)

\* Workers that will not look for work again before somebody notifies them.
Resting == {w \in Worker : \/ pc[w] = "idle" /\ phase[w] = "prewait"
                           \/ pc[w] = "commit" /\ phase[w] \in {"prewait", "asleep"}}

\* A task in the central queue is never left to sleeping workers: one of them
\* is up, or the client is about to notify.  The client counts the idlers
\* after it has let go of the lock, and the count lags behind the workers.
CentralIsWatched ==
  central # {} => \/ Resting # Worker
                  \/ cpc \in {"push", "count", "notify"}

\* Once the destructor has notified all, no worker rests any more: one that
\* prepares to wait afterwards finds its flag under the lock, which the
\* destructor held when it set it.
NobodyRestsPastExit == cpc \in {"join", "gone"} => Resting = {}

\* The destructor returns, whatever the workers are at when it begins.
DestructorReturns == cpc = "lock exit" ~> cpc = "gone"

StageOf(t) ==
  IF t \notin known \/ \E x \in DOMAIN rest : t \in rest[x] THEN "new"
  ELSE IF t \in done THEN "done"
  ELSE IF \E w \in Worker : job[w] = t THEN "running"
  ELSE "queued"

Ex == INSTANCE Executor WITH Width <- Cardinality(Worker),
        stage <- [t \in Task |-> StageOf(t)],
        closed <- cpc \in {"lock exit", "exit", "notify all", "join", "gone"}

\* The pool keeps what Executor promises: each task runs once, and eventually,
\* though a notification may go to a worker that finds nothing to do and one
\* task may be worth no notification at all.
ImplementsExecutor == Ex!Spec
=============================================================================
