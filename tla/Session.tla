------------------------------ MODULE Session -------------------------------
(***************************************************************************)
(* A session of core/Level1: clients submit data to an entry pin, pins     *)
(* pass the data along paths and hand one closure per processing pin to    *)
(* the thread pool, the closures push further data, and the session counts *)
(* its closures to know when it is over (Session.cpp, Pin.cpp, Path.cpp,   *)
(* Context.cpp).  The pool is the abstract Executor.                       *)
(*                                                                         *)
(* Every thread that runs session code is an actor: a client, which makes  *)
(* the calls of its script, or a task, which is the execution of           *)
(* Pin::task_process by a pool thread.  One step of an actor is one access *)
(* to shared state: the unlocked read of _status in Pin::push, an atomic   *)
(* operation on _task_remain, a hand-over to the pool, or one critical     *)
(* section of _mut_status.                                                 *)
(***************************************************************************)
EXTENDS Naturals, Sequences, FiniteSets

CONSTANTS Task,      \* the executions of task_process
          Client,    \* the threads that use the session
          Script,    \* Script[c]: the calls c makes, in order
          Pin,       \* the pins that data can reach
          Entry,     \* the entry pin of the session
          Processes, \* the IN pins whose enableProcess() holds
          Out,       \* Out[p]: the pins the out paths of p lead to, in order
          OutPins,   \* OutPins[p]: the OUT pins of the spore of p
          Width,     \* the number of pool threads
          MaxSends,  \* bound: data pushed by process functions, in total
          MayThrow   \* whether a process function may throw

Call == {"submit", "stop", "join"}

ASSUME SessionAssumption ==
  /\ Client \cap Task = {}
  /\ IsFiniteSet(Task) /\ IsFiniteSet(Client)
  /\ Script \in [Client -> Seq(Call)]
  /\ Entry \in Pin
  /\ Processes \subseteq Pin
  /\ Out \in [Pin -> Seq(Pin)]
  /\ OutPins \in [Pin -> SUBSET Pin]
  /\ MaxSends \in Nat
  /\ MayThrow \in BOOLEAN

VARIABLES status,     \* Session::_status
          taskRemain, \* Session::_task_remain
          fired,      \* how often decreaseTask has run the onFinish callback
          calls,      \* calls[c]: the calls c has yet to complete
          pc,         \* pc[a]: where actor a is
          stack,      \* stack[a]: the pins that the pushes a is in still visit
          stage,      \* stage[t]: task t as the pool sees it
          pin,        \* pin[t]: the pin whose task_process t executes
          sends       \* pushes made by process functions so far

vars == <<status, taskRemain, fired, calls, pc, stack, stage, pin, sends>>

\* The singleton pool outlives every session: it is never closed here.
Pool == INSTANCE Executor WITH closed <- FALSE

Actor == Client \cup Task
Status == {"Normal", "Running", "BlackOut", "Finish"}

PushPC   == {"push", "count", "emplace"}
ClientPC == PushPC \cup {"call", "publish", "waiting", "woken"}
TaskPC   == PushPC \cup {"idle", "body", "decrease", "trigger", "finish",
                         "thrown", "done"}

TypeOK == /\ status \in Status
          /\ taskRemain \in Nat
          /\ fired \in Nat
          /\ calls \in [Client -> Seq(Call)]
          /\ pc \in [Actor -> ClientPC \cup TaskPC]
          /\ \A c \in Client : pc[c] \in ClientPC
          /\ \A t \in Task : pc[t] \in TaskPC
          /\ stack \in [Actor -> Seq(Pin)]
          /\ stage \in [Task -> Pool!Stage]
          /\ pin \in [Task -> Pin]
          /\ sends \in 0..MaxSends

Init == /\ status = "Normal"
        /\ taskRemain = 0
        /\ fired = 0
        /\ calls = Script
        /\ pc = [a \in Actor |-> IF a \in Client THEN "call" ELSE "idle"]
        /\ stack = [a \in Actor |-> <<>>]
        /\ stage = [t \in Task |-> "new"]
        /\ pin = [t \in Task |-> Entry]
        /\ sends = 0
-----------------------------------------------------------------------------
(***************************************************************************)
(* Pin::push.  The recursion push -> Path::move -> push is the stack of    *)
(* pins still to be visited, in the depth-first order of the calls.        *)
(***************************************************************************)

\* Where an actor goes on once the pins in s remain to be visited: a client
\* returns to submit, a task to the process function.
Resume(a, s) == IF s # <<>> THEN "push"
                ELSE IF a \in Client THEN "publish" ELSE "body"

Visit(a, s) == /\ stack' = [stack EXCEPT ![a] = s]
               /\ pc' = [pc EXCEPT ![a] = Resume(a, s)]

\* Mutated PushRefused: the push waits for the stop to be revoked.
PushRefusedRetry(a) ==
  /\ pc[a] = "push" /\ status = "BlackOut"
  /\ UNCHANGED vars

\* The session has been stopped: push returns false, the pin and everything
\* behind it are skipped.
PushRefused(a) ==
  /\ pc[a] = "push" /\ status = "BlackOut"
  /\ Visit(a, Tail(stack[a]))
  /\ UNCHANGED <<status, taskRemain, fired, calls, stage, pin, sends>>

\* A pin that does not process only passes the data on.
PushRelay(a) ==
  /\ pc[a] = "push" /\ status # "BlackOut" /\ Head(stack[a]) \notin Processes
  /\ Visit(a, Out[Head(stack[a])] \o Tail(stack[a]))
  /\ UNCHANGED <<status, taskRemain, fired, calls, stage, pin, sends>>

\* A processing pin found the session not stopped: it will count a task.
PushAdmit(a) ==
  /\ pc[a] = "push" /\ status # "BlackOut" /\ Head(stack[a]) \in Processes
  /\ pc' = [pc EXCEPT ![a] = "count"]
  /\ UNCHANGED <<status, taskRemain, fired, calls, stack, stage, pin, sends>>

\* Mutated IncreaseTask: a load and a store, between which another fetch_add
\* may be lost.
IncreaseTaskLost(a) ==
  /\ pc[a] = "count"
  /\ taskRemain' \in {taskRemain, taskRemain + 1}
  /\ pc' = [pc EXCEPT ![a] = "emplace"]
  /\ UNCHANGED <<status, fired, calls, stack, stage, pin, sends>>

IncreaseTask(a) ==
  /\ pc[a] = "count"
  /\ taskRemain' = taskRemain + 1
  /\ pc' = [pc EXCEPT ![a] = "emplace"]
  /\ UNCHANGED <<status, fired, calls, stack, stage, pin, sends>>

EmplaceTask(a) ==
  /\ pc[a] = "emplace"
  /\ \E t \in Task : /\ Pool!Emplace(t)
                     /\ pin' = [pin EXCEPT ![t] = Head(stack[a])]
  /\ Visit(a, Out[Head(stack[a])] \o Tail(stack[a]))
  /\ UNCHANGED <<status, taskRemain, fired, calls, sends>>

PushStep(a) == \/ PushRefused(a)
               \/ PushRelay(a)
               \/ PushAdmit(a)
               \/ IncreaseTask(a)
               \/ EmplaceTask(a)
-----------------------------------------------------------------------------
(***************************************************************************)
(* The calls of a client.  notify_all moves every waiting client to        *)
(* "woken"; a woken client re-acquires the mutex and tests the status.     *)
(***************************************************************************)

Woken(p) == IF p = "waiting" THEN "woken" ELSE p

\* Mutated NotifyAll: notify_one.
NotifyOne(a, q) ==
  LET waiting == {b \in Actor : pc[b] = "waiting"}
  IN  IF waiting = {} THEN pc' = [pc EXCEPT ![a] = q]
      ELSE \E b \in waiting : pc' = [pc EXCEPT ![a] = q, ![b] = "woken"]

\* actor a leaves a critical section for program counter q, after notify_all
NotifyAll(a, q) == pc' = [b \in Actor |-> IF b = a THEN q ELSE Woken(pc[b])]

Calling(c, what) == pc[c] = "call" /\ calls[c] # <<>> /\ Head(calls[c]) = what

Return(c) == calls' = [calls EXCEPT ![c] = Tail(calls[c])]

Submit(c) ==
  /\ Calling(c, "submit")
  /\ stack' = [stack EXCEPT ![c] = <<Entry>>]
  /\ pc' = [pc EXCEPT ![c] = "push"]
  /\ UNCHANGED <<status, taskRemain, fired, calls, stage, pin, sends>>

\* The end of submit: only after the push is the session marked Running.
Publish(c) ==
  /\ pc[c] = "publish"
  /\ status' = "Running"
  /\ NotifyAll(c, "call")
  /\ Return(c)
  /\ UNCHANGED <<taskRemain, fired, stack, stage, pin, sends>>

Stop(c) ==
  /\ Calling(c, "stop")
  /\ status' = "BlackOut"
  /\ NotifyAll(c, "call")
  /\ Return(c)
  /\ UNCHANGED <<taskRemain, fired, stack, stage, pin, sends>>

\* The predicate of the condition variable is tested with the mutex held.
Test(c) ==
  /\ IF status = "Finish"
       THEN pc' = [pc EXCEPT ![c] = "call"] /\ Return(c)
       ELSE pc' = [pc EXCEPT ![c] = "waiting"] /\ UNCHANGED calls
  /\ UNCHANGED <<status, taskRemain, fired, stack, stage, pin, sends>>

Join(c) == Calling(c, "join") /\ Test(c)

Retest(c) == pc[c] = "woken" /\ Test(c)

\* A condition variable may wake a thread that nobody has notified.
SpuriousWakeup(c) ==
  /\ pc[c] = "waiting"
  /\ pc' = [pc EXCEPT ![c] = "woken"]
  /\ UNCHANGED <<status, taskRemain, fired, calls, stack, stage, pin, sends>>

ClientStep(c) == Submit(c) \/ Publish(c) \/ Stop(c) \/ Join(c) \/ Retest(c)
-----------------------------------------------------------------------------
(***************************************************************************)
(* Pin::task_process on a pool thread, and Session::decreaseTask.          *)
(***************************************************************************)

StartTask(t) ==
  /\ Pool!Start(t)
  /\ pc' = [pc EXCEPT ![t] = "body"]
  /\ UNCHANGED <<status, taskRemain, fired, calls, stack, pin, sends>>

\* The process function pushes new data to an OUT pin of its spore.
ContextPush(t) ==
  /\ pc[t] = "body" /\ sends < MaxSends
  /\ \E o \in OutPins[pin[t]] : stack' = [stack EXCEPT ![t] = <<o>>]
  /\ pc' = [pc EXCEPT ![t] = "push"]
  /\ sends' = sends + 1
  /\ UNCHANGED <<status, taskRemain, fired, calls, stage, pin>>

ProcessReturns(t) ==
  /\ pc[t] = "body"
  /\ pc' = [pc EXCEPT ![t] = "decrease"]
  /\ UNCHANGED <<status, taskRemain, fired, calls, stack, stage, pin, sends>>

\* An exception of the process function ends the closure: the packaged_task
\* of the pool keeps it, and decreaseTask is never reached.
ProcessThrows(t) ==
  /\ MayThrow /\ pc[t] = "body"
  /\ pc' = [pc EXCEPT ![t] = "thrown"]
  /\ Pool!Complete(t)
  /\ UNCHANGED <<status, taskRemain, fired, calls, stack, pin, sends>>

\* Mutated Decrease: the last task is recognised one task too early.
DecreaseEarly(t) ==
  /\ pc[t] = "decrease"
  /\ taskRemain' = taskRemain - 1
  /\ IF taskRemain <= 2
       THEN pc' = [pc EXCEPT ![t] = "trigger"] /\ UNCHANGED stage
       ELSE pc' = [pc EXCEPT ![t] = "done"] /\ Pool!Complete(t)
  /\ UNCHANGED <<status, fired, calls, stack, pin, sends>>

\* Mutated Decrease: the status is published without the callback.
DecreaseNoCallback(t) ==
  /\ pc[t] = "decrease"
  /\ taskRemain' = taskRemain - 1
  /\ IF taskRemain = 1
       THEN pc' = [pc EXCEPT ![t] = "finish"] /\ UNCHANGED stage
       ELSE pc' = [pc EXCEPT ![t] = "done"] /\ Pool!Complete(t)
  /\ UNCHANGED <<status, fired, calls, stack, pin, sends>>

Decrease(t) ==
  /\ pc[t] = "decrease"
  /\ taskRemain' = taskRemain - 1
  /\ IF taskRemain = 1
       THEN pc' = [pc EXCEPT ![t] = "trigger"] /\ UNCHANGED stage
       ELSE pc' = [pc EXCEPT ![t] = "done"] /\ Pool!Complete(t)
  /\ UNCHANGED <<status, fired, calls, stack, pin, sends>>

\* _triggerOnFinish runs on the pool thread, without the mutex.
TriggerOnFinish(t) ==
  /\ pc[t] = "trigger"
  /\ fired' = fired + 1
  /\ pc' = [pc EXCEPT ![t] = "finish"]
  /\ UNCHANGED <<status, taskRemain, calls, stack, stage, pin, sends>>

Finish(t) ==
  /\ pc[t] = "finish"
  /\ status' = "Finish"
  /\ NotifyAll(t, "done")
  /\ Pool!Complete(t)
  /\ UNCHANGED <<taskRemain, fired, calls, stack, pin, sends>>

TaskStep(t) ==
  ProcessReturns(t) \/ Decrease(t) \/ TriggerOnFinish(t) \/ Finish(t)
-----------------------------------------------------------------------------
Next == \/ \E a \in Actor : PushStep(a)
        \/ \E c \in Client : ClientStep(c) \/ SpuriousWakeup(c)
        \/ \E t \in Task : \/ StartTask(t)
                           \/ ContextPush(t)
                           \/ ProcessThrows(t)
                           \/ TaskStep(t)

\* Threads keep running, process functions end, and the pool starts what it
\* was given (Executor!Fairness).
Fairness == /\ \A a \in Actor : WF_vars(PushStep(a))
            /\ \A c \in Client : WF_vars(ClientStep(c))
            /\ \A t \in Task : WF_vars(TaskStep(t))
            /\ \A t \in Task : SF_vars(StartTask(t))

Safe == Init /\ [][Next]_vars

Spec == Safe /\ Fairness
-----------------------------------------------------------------------------
(***************************************************************************)
(* Properties.                                                             *)
(***************************************************************************)

\* Tasks that are counted and whose decreaseTask is still to come.
Live == {t \in Task : /\ stage[t] \in {"queued", "running"}
                      /\ pc[t] \notin {"trigger", "finish"}}

\* Tasks that ended without decreaseTask.
Thrown == {t \in Task : pc[t] = "thrown"}

\* Actors between increaseTask and the hand-over of the task to the pool.
Emplacing == {a \in Actor : pc[a] = "emplace"}

\* Tasks that brought the count to zero and have yet to publish Finish.
Finishing == {t \in Task : pc[t] \in {"trigger", "finish"}}

\* _task_remain counts exactly the tasks handed or about to be handed to the
\* pool whose decreaseTask has not run; those of a process function that threw
\* stay counted for ever.  In particular the unsigned counter of Session.cpp:79
\* never wraps.
TaskAccounting ==
  taskRemain = Cardinality(Live) + Cardinality(Thrown) + Cardinality(Emplacing)

\* One datum is submitted to the session: the first call of client c.
SingleSubmit(c) ==
  \A d \in Client : \A i \in DOMAIN Script[d] :
    Script[d][i] = "submit" => d = c /\ i = 1

\* The graph of pins does not branch.
OnePath == \A p \in Pin : /\ Len(Out[p]) <= 1
                          /\ p \in Processes => Out[p] = <<>>

\* A session that announces its end (from the fetch_sub that reads 1, through
\* onFinish, to _status == Finish) is over: no task is left or on its way, and
\* no client is about to count one.  It holds when one datum is submitted
\* (SingleSubmit) to a graph that does not branch (OnePath, the graphs of
\* flyspore.cpp:84-85 and 205-206); in a graph that does, the first branch may
\* end the session before the second is counted.
FinishIsQuiet ==
  status = "Finish" \/ Finishing # {}
    => /\ Live = {} /\ Emplacing = {}
       /\ \A c \in Client : pc[c] \notin {"push", "count"}

Triggering == {t \in Task : pc[t] = "trigger"}

\* For the same graphs the onFinish callback runs at most once in a session.
OnFinishOnce == fired + Cardinality(Triggering) <= 1

\* Whoever sees the session finished, or returns from join, knows that an
\* onFinish callback has returned (Session.cpp:84 before Session.cpp:88).
CallbackBeforeFinish == status = "Finish" => fired > 0

\* No client sleeps in join while the status it waits for is set: every write
\* of Finish is followed by notify_all under the mutex, and every later
\* overwrite finds the sleepers already woken.
NoLostWakeup == status = "Finish" => \A c \in Client : pc[c] # "waiting"

\* No client will write the status again.
Settled ==
  \A c \in Client : \/ pc[c] \in {"waiting", "woken"}
                     \/ /\ pc[c] = "call"
                        /\ \A i \in DOMAIN calls[c] : calls[c][i] = "join"

\* The finish of the session is still ahead of a client that joins.
FinishAhead == Live # {} \/ Finishing # {} \/ status = "Finish"

\* A join returns when its session has tasks left, nobody writes the status
\* behind its back and no process function threw.
JoinReturns ==
  \A c \in Client :
    pc[c] \in {"waiting", "woken"} /\ Settled /\ FinishAhead /\ [](Thrown = {})
      ~> pc[c] \notin {"waiting", "woken"}

\* Every task that was handed to the pool ends, whatever the clients do
\* meanwhile: a stop in the middle of its pushes does not hold it up.
TasksEnd == \A t \in Task : stage[t] = "queued" ~> stage[t] = "done"

\* What the demonstration relies on: a client that submits and then joins
\* gets to the line that prints "Session finish" (flyspore.cpp:100-110).
JoinEnds == \A c \in Client : <>(calls[c] = <<>>)
=============================================================================
