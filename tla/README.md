# A TLA+ model of flyspore

flyspore is a C++ framework in which a program is a graph: *spores* own *pins*,
*paths* connect pins, and data pushed into a pin travels along the paths. Every
pin that processes data hands one closure per datum to a thread pool, and a
*session* counts these closures to know when everything that started from a
`submit` is over. Any thread may edit the graph meanwhile. This directory models
the concurrent core and the graph, checks the models with TLC and proves part of
what the checks show with TLAPS.

1. [The system](#1-the-system) – the components, their state and their hard parts
2. [Modules](#2-modules) – which module stands for which code
3. [Runs](#3-runs) – what TLC checks, with which bounds
4. [Proofs](#4-proofs) – what holds for every value of the constants, and why
5. [What the models leave out](#5-what-the-models-leave-out)
6. [Findings](#6-findings)
7. [Plan](#7-plan)

Run everything from this directory, for example

    tlc -config SessionDemo.cfg MCSession.tla
    tlapm SessionProofs.tla

`PROJECT.json` lists, for every definition that stands for code, the lines it
stands for; for every property, a plausible bug that breaks it; and the hazards
of the code with the properties that cover them.

## 1. The system

Paths below are relative to `src/core`.

### The graph, the data flow and its session (Level1)

| | |
|---|---|
| **Session** (`Session.cpp`) | *State:* `_status` (Normal, Running, BlackOut, Finish) under `_mut_status`, with a condition variable; the atomic counter `_task_remain`; the `onFinish` callback. *Operations:* `submit` (push a datum, then publish Running), `stop`, `join`, and `increaseTask` and `decreaseTask`, called by pins. |
| **Pin, Path, Context** (`Pin.cpp`, `Path.cpp`, `Context.cpp`) | *State:* the list of paths of a pin. *Operations:* `push` reads the status of the session without its mutex, counts and emplaces a task when the pin processes, and pushes the datum on along every path, recursively; `task_process` runs the process function, which may push further data through `Context::push`, and then calls `decreaseTask`. |
| **Actuator** (`Actuator.h`) | A singleton that holds both thread pools and forwards closures to the chosen one. |
| **Spore, DefaultNest** (`Spore.cpp`, `Path.cpp`, `DefaultNest.h`) | *State:* the parent, children, pins and paths of every spore, the holder and the ends of every path, under one shared mutex per nest. *Operations:* `addSpore`, `remvoeSpore`, `addPin`, `removePin`, `connect`, `release`, `clone`. |
| **Data, DataPack, DataAdapter, AnyValues** | Holders of values. |

*Interactions.* Clients call `Session::submit`; `submit` calls `Pin::push`; the
closures run on pool threads and call back into the session. Nothing but the
counter relates the tasks to each other. Edits of the graph attach paths to pins
and detach them while `Pin::push` walks the list of paths of the pin.

*What is hard.* `push` decides on an unlocked read of the status and counts
later. Tasks push new tasks before their own decrement. The last decrement runs
the callback and publishes Finish in separate steps, while clients join, stop
and submit again. Process functions may throw. An edit tests parents and pins
without the lock and acts under it later; `connect` makes up to six such reads
before it knows the holder of the new path. `removePath` shifts a list by
`remove_if` and erases nothing.

*What makes it correct.* The counter is exact; a session that announces its end has
no task left; the callback runs once, and before Finish is visible; no join sleeps
past Finish; every task ends. What has a parent is in the list of that parent; a
path is made once, and until its release its holder lists it; a pin lists only paths
that begin or end at it and were not released, though not all of them (see
[Findings](#6-findings)); a clone has the shape of the original, but for pins that
cannot be cloned and the paths to them.

### Thread pools (Level0)

| | |
|---|---|
| **sync_deque** (`sync_deque.h`) | *State:* a deque under a mutex, *one* condition variable for producers and consumers, an optional limit. *Operations:* `push` to either end, `wait_and_pop`, `try_pop`. |
| **task_pool** (`task_pool.h`) | *State:* the deque, the threads, `_done`. *Operations:* the loop of a worker, `submit`, `join` (also called by the destructor), which pushes one exit closure per worker to the front. |
| **WorkStealingQueue** (`workstealing_threadpool.hpp`) | *State:* `_top`, `_bottom`, a circular array, replaced arrays. *Operations:* `push` and `pop` by the owner, `steal` by anyone; no locks. |
| **Notifier** (`notifier.hpp`) | *State:* one 64-bit word (stack of sleepers, number of threads in pre-wait, epoch), a link, a ticket and a mutex-protected signal per waiter. *Operations:* `prepare_wait`, `commit_wait`, `cancel_wait`, `notify`. |
| **WorkStealingThreadpool** (`workstealing_threadpool.hpp`) | *State:* a queue and a one-place cache per worker, a central queue, exit flags, `_spinning`, `_num_idlers`, the notifier. *Operations:* the loop of a worker, `emplace`, `batch`, the destructor. |
| **lockfree_vector** (`lockfree_vector.hpp`) | *State:* a linked list, `_ref` (how many are inside), `_garbage`, `_need_recycle`. It holds the paths of a pin. *Operations:* `add`, `remove`, `for_each`, and `recycle` by the last to leave. |
| **stealing_queue** (`stealing_queue.h`) | A deque under a mutex, which nothing includes. |

*What is hard.* Lost wakeups: one `notify_one` per push on a shared condition
variable; a notifier whose waiters sleep without a lock; a recheck before sleep
that looks at one queue of many; a hint (`_num_idlers`) that lags. Races for the
last item of a queue, an array replaced under its readers, a counter that wraps,
ABA on a stack. A list walked without a lock while items are unlinked and
deleted. Shutdown at any moment.

*What makes it correct.* Each closure runs once; it does run unless the pool is
shut down; nobody sleeps while there is work and nobody is about to wake them;
a shutdown reaches every worker and returns.

## 2. Modules

    Executor  <--- implemented by --- TaskPool --- uses ---> SyncDeque
        ^  ^
        |  +------ implemented by --- WorkStealingThreadpool
        |                                  |            |
     used by Session                  a bag each      uses
                                           |            |
                                        WorkBag     EventCount
                                           ^            ^
                              implemented by            implemented by
                            WorkStealingQueue           Notifier

    Nest  <--- extended by --- NestClone          LockfreeVector
      (its Link and Unlink are what LockfreeVector does in steps)

**Executor** is the promise of a pool to its user: a task that was emplaced is
executed once, by one of `Width` threads, and eventually as long as the pool is
open. Its fairness is strong for `Start`, since a pool whose threads are busy
can start a given task only now and then.

**Session** has clients, each with a script of calls, and tasks, the executions
of `task_process`. One step is one access to shared state. The recursion
`push -> move -> push` is a stack of pins yet to be visited. The pool is an
instance of Executor that never closes. The graph is a constant.

**SyncDeque** has one action per critical section. A thread that blocks is in
`waiting`; `notify_one` moves any one of them, producer or consumer, to `woken`,
from where it tests its condition again. **TaskPool** instantiates it without a
limit and adds the loop of the workers and `join`. Its refinement mapping reads
the stage of a task off the deque and the workers' local variables.

**WorkStealingQueue** takes one step per access to `_top`, `_bottom`, `_array`
or a slot; the owner reads what only it writes together with its next access.
**WorkBag** is what it implements. The items of the bag are the slots from top to
bottom, where an owner in the middle of a `pop` has not taken the last item yet.

**Notifier** keeps the word as a record and its epoch modulo `Epochs`, compared
by the sign of the difference as the code does. `ListOf` is the least set that is
closed under the links, not a recursion. Loads, stores and
compare-exchanges are separate steps; the harness is the usage that the
header's comment (lines 32–50) prescribes. **EventCount** is what it implements:
each waiter is away, in pre-wait, asleep or released, and a notification
releases one announced waiter or all in one step.

**WorkStealingThreadpool** uses EventCount in the place of the notifier and sets
of tasks in the place of queues. A steal may fail although a queue holds a task,
as `WorkStealingQueue::steal` does when it loses a race; the 1024 attempts of
the spinning worker are any number. `emplace` is the batch of one task: with a
free cache both return without a notification, and from outside both notify
once.

**Nest** is the graph of one nest and the threads that edit it. A step is one
unlocked read or one locked section. Spores and pins go through the same code
twice in the source (`_childs`, `_parent` and `_pins`, `_spore`); here both are
*members*, `home` is the spore a member is in and `held` the list of that spore.
`op` keeps what a thread has read: `ConnectFrom`, `ConnectTo`, `ConnectParent`,
`ConnectCompare`, `ConnectSiblings`, `ConnectInner` and `ConnectOuter` are the
reads of `Path::connect` in their order, `ConnectLocked` is `addPath`. `RemoveIf` is what
`std::remove_if` leaves in a list that nobody shortens: the last element is moved
from, and a null stays behind. A later search that calls a method of that null
sets `crashed`, after which the program does nothing. `Link` and `Unlink` are
`lockfree_vector` seen from the lock: `remove` of the *first* item empties the
list. Three ghosts say what a call has done or was in danger of: `released`,
`raced` (members that two edits were about at once) and, in LockfreeVector,
`late`.

**NestClone** adds `Spore::clone`, which fills a second graph, `copy`, in which the
copy of a member bears the member's name. It uses the `AddMember` and `AddPath` of
Nest, and `Holder`, which is `connect` undisturbed. The recursion of `_clone` is a
state machine: `call[s]` is the call for spore `s`, with the loop it is in, the
index it is at and its caller, and `at` is the call that runs. `ClonePin`,
`CloneChild` and `ClonePath` are one round of each loop, `NextLoop` and `Return`
what comes after. A pin of `Typed`, one made by `createPin<DataType>`, has no clone:
it is a key of `pinmap` (`met`) and has no copy. A path that ends at it is dropped,
since `connect` refuses a null; for one that starts at it the program calls
`connect` on the null and crashes (`Crashes`), after which nothing follows. The
edits of Nest come first; from `Clone` on nobody edits. The model stops at a member
that is not at home in the spore that lists it, or is the root (`AtHome`): there the
code would copy a member twice or follow a cycle of spores for ever. And it stops,
as the program crashes (`Crashes` too), at a null in a list of paths.

**LockfreeVector** opens up what Nest takes for one step: each access to `head`,
`_next`, `_ref`, `_need_recycle` or `_garbage` is a step, writers hold the lock of the
nest, readers are `Pin::push`. Items stand for the paths they hold.

The `MC...` modules give the constants their values. Operators whose comment
says *Mutated* are the plausible bugs that `PROJECT.json` lists; no
specification uses them.

## 3. Runs

| Run | Instance | Kind | What it shows |
|---|---|---|---|
| `session_demo` | the graph of `flyspore.cpp:84-85`: the closures of a pin send data back to it; two clients, one of which stops, functions that throw, five tasks | safety | `TaskAccounting`, `FinishIsQuiet`, `OnFinishOnce`, `CallbackBeforeFinish`, `NoLostWakeup` |
| `session_fanout` | an entry that feeds two processing pins, a stop that races, functions that throw; three tasks | liveness | `JoinReturns`, `TasksEnd` |
| `session_lost_finish` | submit, join | violation | `JoinEnds` fails, see [Findings](#6-findings) |
| `sync_deque` | two producers, two consumers, three items, with and without a limit | both | `LimitHolds`, `ItemsArrive` |
| `task_pool` | two workers, three closures, two joins | both | `WakeupsCover`, `ExitClosures`, `FifoOrder`, `JobsOnce`, `JoinTerminates`, `ImplementsExecutor` |
| `work_stealing_queue` | owner and two thieves, four items, capacity two | both | `ImplementsBag`, `CopiesAreFresh`, `ItemsTaken` |
| `torn_copy` | the same | violation | `NoTornCopy` fails, see [Findings](#6-findings) |
| `notifier` | two waiters, two callers of notify, eight epochs | safety | `TurnsInOrder`, `SleepersHeld`, `NoMissedWork`, `NoFullCircle`, `ImplementsEventCountSafely` |
| `notifier_live` | two waiters, one caller, eight epochs | liveness | `ImplementsEventCount` |
| `work_stealing_threadpool` | two workers, a client, three tasks | both | `CentralIsWatched`, `NobodyRestsPastExit`, `DestructorReturns`, `ImplementsExecutor` |
| `nest` | two threads; a spore with a child in it, another that competes for the child; four pins, one of them without a clone, three paths, four calls | safety | `HomeLists`, `NoTwins`, `LiveIsListed`, `PinsListLive`, `CloneMirrors` |
| `lockfree_vector` | a writer, two readers, three items | safety | `VisitsStable`, `RecyclesInTime` |

The type invariants `TypeOK` of Session, TaskPool (it covers the variables of
SyncDeque), WorkStealingQueue, WorkStealingThreadpool and Nest are checked as
well, once. That of Notifier is proved from the invariant whose parts the run
checks (`TypeCorrect` in NotifierProofs).

**Why the bounds are enough.**

- *Sessions.* The end of a session is decided among a task that ends, one that is
  being pushed and one that ends at the same time; five tasks give two generations
  of closures that send data (`MaxSends = 4`). Two clients are needed for one to
  write the status, by a stop, under another's join.
- *Deque and pool.* A wakeup is lost among a producer, a consumer that sleeps
  and one that does not; two of each are these. Two joins are the explicit one
  and that of the destructor. Tasks outnumber workers, so that some wait when
  the shutdown begins.
- *Queue.* The race for the last item needs the owner and one thief, two thieves
  add their race with each other. With capacity two, four items replace the
  array and reuse its slots, and a thief may still read the replaced one.
- *Notifier.* Two waiters make a stack with a link, two callers a stale word while
  the other pops. That the popped waiter comes back to the stack meanwhile takes a
  second piece of work, and is not reached here: the ABA of `notifier.hpp:193` is
  covered only by the proofs (`SleepersKept`, `NotifierImplementsSafely`). The epoch
  starts five steps before its overflow, as the constructor's comment intends, and
  passes it. Eight epochs are just enough for `NoFullCircle`: with seven, a waiter
  that has been released and not run since is lapped by the others.
- *Work stealing pool.* Three tasks fill a cache, a worker's queue and the
  central queue in one batch; two workers are a thief and its victim, or one
  that spins and one that goes to sleep.
- *Nest.* Every test that is out of date when it is used takes two calls of two
  threads at once: two adds of one member, an add and a remove, two connects of one
  pair, a connect and a move of the spore in between. Four calls (`MaxCalls`) let
  two calls set the stage for such a pair: two connects, a release, and the connect
  that falls over what the release has left. The pins allow each of the three kinds
  of path: between siblings, from a spore's own pin inwards, and outwards. The pin
  without a clone, `ri`, can be either end of a path, so that a clone drops a path,
  drops one and keeps another, or crashes. All six invariants are also proved for
  any number of calls. Some cases need more: that a path is lost from its pins and
  still cloned takes seven calls (section 6), and in this run `Placed` could ask for
  the holder alone.
- *LockfreeVector.* `_ref` distinguishes the last that leaves from the others,
  so it takes a reader that leaves, a reader that stays and a writer between
  them. With three items one is unlinked from the front, the middle and the
  end. Items are never reused, as no memory is reused before its deletion.

`SessionDemo`, `Notifier`, `Nest` and `LockfreeVector` use symmetry (of tasks,
waiters, callers, threads, paths or items) and check no liveness. Deadlock is not checked where the system may stop: a session
whose calls are made, a pool that was joined, a queue with nothing to do.
The notifier's harness ends in `Finished` instead, so TLC does look for deadlock
there.

**Fairness.** Threads run: every thread's steps are weakly fair, except for
what it may choose not to do (a client that submits, a process function that
sends, a thief that steals, a spurious wakeup). Weak fairness is enough for
mutexes because a critical section is one step, or is left by steps that are
fair themselves. The one strong fairness is that of `Start` in Executor, which
Session assumes; both pools are checked to provide it. Process functions and
closures are assumed to end. Liveness says nothing of clients that misbehave:
`JoinReturns` is about sessions whose status nobody else writes, and from which
no process function throws, for else the count never returns to zero.

**How the properties relate to each other.** `ExitClosures`, for example, is not
that join pushes as many closures as there are workers: user closures and workers
that leave compete for what is in the deque, and what must hold is that there is one
for each worker that still has to pop. `TurnsInOrder` is the bookkeeping of the
Notifier's word, `SleepersHeld` that of its stack; with them a reader can follow why
`ImplementsEventCount` holds. `HomeLists` and `NoTwins` say that the searches
repeated under the lock make up for the tests made before it, except where the code
does not repeat them, which is what `raced` marks. The paths in `CloneMirrors` are
for spores in which none was moved or taken from its pins (`InPlace`): `clone`
connects the copies anew, and where the pins are then decides what becomes of that.
Children, and pins that have a clone, are mirrored without this condition. A clone
that crashes never returns; that one which returns holds no path from a pin without
a clone is part of the property.

## 4. Proofs

The eight proof modules are checked for all values of the constants that satisfy the
named assumptions: finite sets of threads and tasks, typed scripts and graphs; for
Nest, a tree in which no list names a member twice and no two lists share one, and
any set of pins without a clone; for SyncDeque, limits that are numbers; for
Notifier, more epochs than twice the waiters and one, since `notify(true)` moves the
epoch on by as many as wait. Each module has one inductive invariant `IInv`
(NestProofs a second, for clones), a lemma per group of actions that keeps it, and
theorems that read the properties off it.

**SessionProofs** proves `TypeCorrect`, `CountIsExact`, `NoSleepPastFinish`,
`CallbackComesFirst`, and for graphs that do not branch and get one datum
(`OnePath`, `SingleSubmit`) `EndIsQuiet` and `CallbackOnce`.

- `TaskAccounting` is not inductive alone: `IInv` adds `TypeOK`, `PhasesAgree`
  (the program counter of a task and its stage in the pool agree, so a task that
  leaves `Live` was in it) and `Visiting` (an actor in `push` has a pin to
  visit). `InCall` keeps the scripts typed. The proof has one lemma per group of
  actions: `PushInv`, `ClientInv`, `TaskInv`. Each action moves at most one
  element between `Live`, `Thrown` and `Emplacing`, and the cardinalities follow.
- The end of a session needs more: with one datum and no branching there is at
  any time *one* thread of control. `OneInv` says so: the client that submits is
  the first and only one to push (`OnlyFirst`), a task is emplaced only by one
  that is still counted (`Follows`), tasks not handed over are `Untouched`, and
  from the decrement that reads 1 nothing is left (`Over`).

**TaskPoolProofs** proves `TypeCorrect`, `NoSleepingOverWork` (`WakeupsCover`),
`ShutdownReachesWorkers` (`ExitClosures`), `NoJobTwice` (`JobsOnce`), `FifoIsKept`
(`FifoOrder`) and `ImplementsExecutorSafely`.

- `WakeupsCover` is inductive on top of `TypeOK` because a push moves one
  sleeper, if there is any, whenever it adds an item, and a woken consumer that
  goes back to sleep found the deque empty.
- `ExitClosures` is inductive too: a worker that enters `pop` has seen `_done`
  false.
- `JobsOnce` gives the refinement: a popped closure was queued, in one place,
  and the worker was idle, so fewer than `Count` closures ran.
- `FifoOrder` is stated without a recursion over the deque: the closures started
  are the first of `order`, and the others are in the deque, in that order.
  `OrderInv` adds that `order` names only submitted closures, each once. A push to
  the front moves the others but not past each other.

**SyncDequeProofs** proves `LimitIsKept` (`LimitHolds`) and `ItemsKept`
(`NothingLost`: what was pushed is in the deque, in one place, or was popped) for
any number of producers and consumers. A producer that was woken tests the limit again, so
the bound does not depend on who gets a notification.

**WorkStealingQueueProofs** proves `TypeCorrect`, `ThievesCopyFresh`
(`CopiesAreFresh`) and, in full, `QueueImplementsBag` (`ImplementsBag`), for any
number of thieves and items and any initial capacity.

- `OwnerInv` is what the owner knows at each step and `RangeInv` that the queue
  fits the current array, so two of its places never share a slot.
- `ThiefInv` is the heart: a thief that is past its look at `_bottom` and whose
  `t` is still the top will find in *its* array, current or replaced, what the
  current one has at the top. Once it has copied, its item is that one as long as
  the compare-exchange can succeed. A thief with another `t` may hold anything.
- `ItemsInv` says that the places of the queue hold different items that nobody
  took. With it a step that moves an end is a `Take` of the bag.

**WorkStealingThreadpoolProofs** proves `TypeCorrect`, `CentralWatched`
(`CentralIsWatched`), `NobodyRests` (`NobodyRestsPastExit`) and
`ImplementsExecutorSafely`, for any number of workers and tasks.

- `PhaseInv` and `LockInv` relate a worker's place in its loop to its phase in
  EventCount and to the lock. A worker commits only after it saw the central
  queue empty and its flag not set, under the lock, while announced.
- `IdlersInv`: `_num_idlers` counts the workers between their count and their
  sleep or return. That it may be late is why `CallsInv` is there: a batch of the
  client notifies at least once, which is what `CentralIsWatched` rests on.
- `PlacesInv`: a task that was put in is in exactly one place (a batch, a queue,
  a cache, a worker, the central queue, done). `Traffic` says what a step can
  do to the places, and each kind of traffic is a step of Executor. There are no
  more running tasks than workers because each running task is the job of one.

**LockfreeVectorProofs** proves `WalksAreComplete` (`VisitsStable`) and
`RecycleIsSafe` (`RecyclesInTime`), for any number of readers, writers and items.

- `From[a]` is the least set of items closed under the links that has `a` in it, and
  `LinksInv` says there is no circle. `WalkInv`: what a reader owes a visit lies
  ahead of it. To unlink an item takes nothing else from what lies ahead.
- `RefInv`: `_ref` is the number of threads inside, and where there is garbage
  somebody is inside or about to recycle it.
- `GarbageInv` carries the safety, as long as nobody came `late`: what was
  removed is out of reach from the head, and from everyone that walks once a thread
  has counted itself out as the last.

**NotifierProofs** proves `TypeCorrect`, `TurnsKept` (`TurnsInOrder`),
`SleepersKept` (`SleepersHeld`), `NoWorkMissed` (`NoMissedWork`) and
`NotifierImplementsSafely` (`ImplementsEventCountSafely`), for any number of
waiters, callers and pieces of work.

- *The hypothesis.* Epochs are counted modulo `Epochs`, and without a bound on how long
  a thread may stay between two accesses they lap it: a released waiter would
  look as if its turn were to come, and a stale word would match again. The code
  relies on this not happening in 2^32 decisions. The
  theorems say so: their hypothesis is `NoFullCircle`, an action property about
  single steps that the run `notifier` shows to hold of its instance, though
  that instance passes the overflow. With `Epochs` as in the code and
  fewer than 2^31 decisions in all it always holds.
- `TurnInv` says `TurnsInOrder` of the threads one by one: those in pre-wait have turns
  less than `waiters` ahead of the epoch, no two the same, none left out. A
  decision, or a notification of n, moves the epoch on by 1 or n and takes out exactly the
  threads whose turns it passes (`Advance`); a new thread joins at the end
  (`Joins`). `Gap` and `Plus` are the arithmetic of the circle without `%`.
  `SeenInv`: a word seen earlier is right about those it says are released.
- `SleepersHeld` needs that no sleeper comes after itself (`LoopFree`), except
  one just popped whose link is about to be cleared; that a thread about to
  commit has linked itself to the stack it saw (`CommitInv`); and
  `CallInv`, the ABA argument: a caller about to pop knows the successor of the top
  it saw, unless the epoch has moved on, or that top is no longer in the stack. `Reach` is
  `ListOf` for given links, so lists before and after a step can be compared.
- `WorkInv` counts: whenever a thread sleeps, or went on to sleep since it saw no
  work, there are as many free threads and pending calls as pieces of work. A
  call that takes effect stops pending and frees somebody, unless nobody waits.
- Every step moves at most one waiter between pre-wait, stack and neither, or
  empties both (`WaiterMove`, `CallerMove`), which are the steps of EventCount.

**NestProofs** proves `NestTyped` (`TypeOK`), `HomesAreListed` (`HomeLists`),
`OnePathPerPair` (`NoTwins`), `LivePathsListed` (`LiveIsListed`) and
`PinsHoldLivePaths` (`PinsListLive`), for any tree, any number of threads and
calls. `IInv` has two halves besides the types, each kept by its own lemmas,
since the steps that change `home` and `held` leave the paths alone and the
other way round (`HomeKept`).

- `HomeInv` is `HomeLists` with `InFlight`: two threads that are both
  about one member have marked it as raced. When a remove takes a member out of one
  list and another add has put it in a second, this is what excuses the list
  that still holds it.
- `PathInv` is the rest with `ListsOwn` and `PinsListOnce`. `ListsOwn`: what a
  spore lists are paths that were made and that it holds, and only paths that were
  made are released; without it a list could name a path of another
  holder, and a search would compare ends that do not exist. `PinsListOnce`:
  a pin lists a path once; otherwise a detach would leave a second link behind
  and `PinsListLive` would not survive a release. A shift by `RemoveIf` loses
  none but the path it is for, and keeps the list free of doubles
  because what it leaves at the end is null, or that path itself. `ListsOrdered`: of
  two paths on a pin, the one that is later in the list of its holder is earlier in that of
  the pin. Adding puts a path at the end of one and at the front of the other, and
  neither `RemoveIf` nor `Unlink` changes the order of what it leaves.

It proves `CloneIsMirror` (`CloneMirrors`) for any spore of any graph that edits
lead to and any set of pins without a clone. A behaviour with a clone is one of Nest
(the lemma `CloneEdits`), so `IInv` holds all along. The invariant is `CloneInv`:

- `Calls` is the stack of the recursion: the calls that have begun and not ended wait in the
  loop over the children, each at the child whose call is next, and only the one
  that runs may be in another loop. A spore is called where it has its home, and so only once
  (`NotMetBefore`).
- `Copies` says that the copy holds just what the calls have passed, which
  `Passed(c, i)` reads off the call for `c`, but for the pins of `Typed`
  (`TypedNotCopied`), and that the spores whose call has ended are those with a home
  in the copy. `CopiesOrder`: in the order of the original, pins and children apart;
  in the copy all the pins come first.
- `KeysMet`: every pin the first loops have passed is a key of `pinmap`, with a copy
  or without. By the time a spore's paths are connected both ends of each `Placed`
  path are among them (`PinsMet`), so a path passed without a crash starts at a pin
  that has a copy.
- `PathCopies`: of the paths passed so far (`Tried`) those that end at a pin with a
  copy (`Anew`) are in the lists of the copy, in the order of the original's, and
  nothing else is, if those of the lists under way are `Placed`. The argument is
  `HolderCopy`, `PathConnected` and, for the others, `PathDropped`. Where two pins
  are joined in the original, they are in the copy as well, since the holder's pins
  and its children's pins are all there by then, which needs the third loop to be
  the last. And two paths on one pin have the same holder (`HolderFacts`), so by
  `ListsOrdered` the loop over its list puts them on the copy of the pin in the
  order in which they are on the pin.

*Model-checked only:*

- liveness, which is out of the prover's reach: `JoinReturns`, `TasksEnd`,
  `JoinTerminates`, `ItemsArrive`, `ItemsTaken`, `DestructorReturns`, and of
  `ImplementsExecutor` and `ImplementsEventCount` the fairness part (the initial
  states and the steps are proved);
- `FinishIsQuiet` and `OnFinishOnce` for graphs or scripts other than those of
  `EndIsQuiet` and `CallbackOnce`; they do not hold of all;
- `NoFullCircle`, which is a matter of how many steps a thread may be late and
  not of the algorithm.

## 5. What the models leave out

- **Memory order.** Accesses are sequentially consistent. The relaxed accesses
  of the queue and the notifier are fenced where their authors saw a need; the
  models take the fences to do what they are there for and show that the
  algorithm is right then, not that each fence suffices.
- **Spurious failure** of `compare_exchange_weak`: it repeats an iteration with
  the same word.
- **A graph that changes while data flows.** Session takes the graph as fixed.
  What edits do to a push in progress is in LockfreeVector, for one pin.
- **The graph beyond its shape.** Names and look-ups by name, the number of a pin
  in its spore, the lazy allocation of a pin's vector of paths, and more than one
  nest. Spores and pins are not deleted: a weak reference to a parent always
  leads to it.
- **Reads of deleted items.** A walk that stands on a deleted item stops there;
  `RecyclesInTime` says when that can happen.
- **Results.** Data conversion, the values in data and the future that
  `task_pool::submit` returns.
- **Exceptions in the work stealing pool.** Its workers do not catch: a closure
  that throws ends the process. In `task_pool` the packaged task catches, and
  Session models what that means (`MayThrow`).
- **Pools without workers**, which run closures in the caller.
- **Lifetimes.** A closure holds a bare pointer to its pin.
- **AnyValues, Data, DataPack, DataAdapter** hold and convert values; no other
  part depends on which. **stealing_queue** is included by nothing; its
  `try_pop` hands out the back of the deque and removes the front.
- `Node.h` compiles nowhere; `Maze` and `ConsoleColor` are terminal input and
  output; `flyspore.cpp` and `Threads.h` are examples. `flyspore.cpp` supplied
  the graph and the scripts of the session runs.

## 6. Findings

- **A lost Finish** (`session_lost_finish`). `submit` pushes first and sets the
  status to Running afterwards, in a critical section of its own
  (`Session.cpp:41-45`). When the closures of the session end in between, Finish
  is overwritten, no task is left to set it again, and `join` waits for ever.
  The demonstration does exactly this (`flyspore.cpp:100-101`).
- **A torn copy** (`torn_copy`). A thief copies a slot of the array before it
  knows whether the copy counts; a delayed thief may do so while the owner, one
  round later, assigns to the slot. The items are `std::function`s, so this is a
  data race, whatever becomes of the copy. `ImplementsBag` holds because the copy
  is dropped; for an item of one machine word that would be all.

Two things hold only within limits that no document states, and the properties
say so: `FinishIsQuiet` and `OnFinishOnce` are for graphs that do not branch (in
one that does, the first branch may end the session before the second is
counted), and `ImplementsExecutor` promises execution only while a pool is open.
The work stealing pool finishes its chain of cached closures before it looks at
its exit flag, so that `DestructorReturns` depends on closures that eventually
emplace no others.

Nest and LockfreeVector make assumptions of the same kind. Each is written into
a property, and each is a thing to know before editing a running graph:

- After a release, the list of the holder may end in a null (`Spore.cpp:284`),
  and the next `connect` through that holder dereferences it unless it finds its
  path before: `LiveIsListed` excludes a crash only as long as nothing was
  released. If the released path was the last of the list it stays there, and a
  later `connect` of the same pins returns it, detached.
- To release the newest path of a pin detaches all the others of the pin:
  `lockfree_vector::remove` of the first item sets the head to null. For this
  reason `PinsListLive` says that what a pin lists is live, and not the reverse.
- Two adds of one member to two spores may both pass the test made before the lock;
  both spores then list it, and only one of them is its home (`raced` in
  `HomeLists`). `addSpore` can also close a cycle of spores, which `clone` would
  follow for ever (the bound `AtHome`).
- For the same reasons a clone may have *more* paths than the original: a path that was
  lost from its pins with another, though never released itself, is still in the
  list of its holder, and `clone` connects it anew. It takes seven calls to get
  there (connect, move a spore away, connect under the other parent, move it back, release
  the second path): `Placed` therefore asks for a path to be on its pins.
- `removePin` leaves the paths of the pin attached, and data still takes them.
- A thread that has counted itself out of a list as the last may come to its
  recycle when another has removed an item that a third stands on, or when
  another recycles too. The item is then deleted under the reader, or twice
  (`late` in `RecyclesInTime`).
- `Pin::clone` of the base class returns null (`Pin.h:39`) and only `DefaultWarpPin`
  overrides it. For a pin made by `createPin<DataType>`, such as that of
  `flyspore.cpp:171`, `clone` stores a null in `pinmap` (`Spore.cpp:308`). The pin
  is missing in the copy, a path that ends at it is dropped without a word, and a
  path that starts at it makes `Spore.cpp:319` call `connect` on the null.
  `CloneMirrors` is about clones that return.
- `clone` does not keep the names of paths.

## 7. Plan

What is modelled is complete but for the parts listed in section 5, and the
safety properties the runs check are proved but for those listed at the end of
section 4. What is left:

1. **Composition**: WorkStealingThreadpool with Notifier in the place of
   EventCount and WorkStealingQueue in the place of the bags. Each is proved to
   implement what the pool uses; that the composition implements Executor still
   rests on reading the two together.
2. **Nest with Session**: pushes that visit a pin's list while it is edited, so
   that what is counted depends on the edits.
3. **Session** `EndIsQuiet` for graphs that branch, with the weakest condition
   on the order of pushes under which it holds.
4. **NoFullCircle** from a bound on the pieces of work: every announcement but the
   first of a thread follows a change of the predicate or a release, so the
   decisions of a run are bounded by the calls.
