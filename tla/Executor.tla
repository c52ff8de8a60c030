------------------------------ MODULE Executor ------------------------------
(***************************************************************************)
(* What a thread pool of core/Level0 promises to the code that hands it    *)
(* closures (core/Level1/Actuator.h): a task that has been emplaced is     *)
(* executed exactly once, by one of Width threads, and as long as the pool *)
(* is not being shut down every emplaced task is eventually executed.  The *)
(* order of execution is not promised here: task_pool is FIFO, the work    *)
(* stealing pool is not.                                                   *)
(*                                                                         *)
(* TaskPool implements this specification; Session uses it as its pool.    *)
(***************************************************************************)
EXTENDS Naturals, FiniteSets

CONSTANTS Task,     \* the closures that may be handed to the pool
          Width     \* the number of threads

VARIABLES stage,    \* stage[t]: how far task t has come
          closed    \* the pool has been told to shut down

vars == <<stage, closed>>

Stage == {"new", "queued", "running", "done"}

TypeOK == /\ stage \in [Task -> Stage]
          /\ closed \in BOOLEAN

Running == {t \in Task : stage[t] = "running"}

Init == /\ stage = [t \in Task |-> "new"]
        /\ closed = FALSE
-----------------------------------------------------------------------------
\* A client hands task t to the pool, which may already be shutting down.
Emplace(t) == /\ stage[t] = "new"
              /\ stage' = [stage EXCEPT ![t] = "queued"]

\* An idle thread takes task t.
Start(t) == /\ stage[t] = "queued"
            /\ Cardinality(Running) < Width
            /\ stage' = [stage EXCEPT ![t] = "running"]

\* The closure of task t returns, or throws an exception the thread swallows.
Complete(t) == /\ stage[t] = "running"
               /\ stage' = [stage EXCEPT ![t] = "done"]

Close == /\ ~closed
         /\ closed' = TRUE
         /\ UNCHANGED stage

Work(t) == (Emplace(t) \/ Start(t) \/ Complete(t)) /\ UNCHANGED closed

Next == \/ \E t \in Task : Work(t)
        \/ Close

Safe == Init /\ [][Next]_vars

\* Threads are busy now and then: a queued task is only repeatedly, not
\* continuously, startable.  Nothing is promised of a pool that shuts down.
Fairness == /\ \A t \in Task : SF_vars(~closed /\ Start(t) /\ UNCHANGED closed)
            /\ \A t \in Task : WF_vars(Complete(t) /\ UNCHANGED closed)

Spec == Safe /\ Fairness
=============================================================================
