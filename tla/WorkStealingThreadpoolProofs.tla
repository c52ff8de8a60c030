--------------------- MODULE WorkStealingThreadpoolProofs ---------------------
(***************************************************************************)
(* Proofs about WorkStealingThreadpool.                                    *)
(***************************************************************************)
EXTENDS WorkStealingThreadpool, FiniteSetTheorems, TLAPS

\* Where a worker is in its loop, and what the notifier takes it for.
PhaseInv ==
  \A w \in Worker :
    /\ phase[w] = "prewait" =>
         pc[w] \in {"try", "locked", "pop central", "cancel", "idle", "commit"}
    /\ phase[w] = "asleep" => pc[w] = "commit"
    /\ pc[w] \in {"try", "locked", "pop central", "cancel", "idle", "commit"} =>
         phase[w] # "away"

\* Who holds the lock.
LockInv ==
  /\ \A w \in Worker : pc[w] \in {"locked", "pop central"} <=> lock = w
  /\ cpc \in {"push", "exit"} <=> lock = Client

\* _num_idlers is exact, but for the steps between it and the sleep.
IdlersInv == idlers = Cardinality({w \in Worker : pc[w] \in {"commit", "woken"}})

\* The client notifies at least once for a batch.
CallsInv == /\ cpc \in {"lock", "push", "count", "notify"} => calls > 0
            /\ cpc \in {"lock", "push"} => rest[Client] # {}
            /\ cpc \notin {"lock", "push"} => rest[Client] = {}

ExitInv == cpc \in {"notify all", "join", "gone"} => \A w \in Worker : exit[w]

\* Which worker has a job and which one is in the middle of a batch.
JobInv ==
  \A w \in Worker :
    /\ pc[w] \in {"run", "push", "notify"} => job[w] # none
    /\ pc[w] \notin {"run", "push", "notify", "spun", "cancel"} => job[w] = none
    /\ pc[w] \notin {"push", "notify"} => rest[w] = {}
    /\ pc[w] = "push" => rest[w] # {}

Thread == Worker \cup {Client}

\* Task t is at place x of kind k.
In(t, k, x) == \/ k = "rest"    /\ x \in Thread /\ t \in rest[x]
               \/ k = "own"     /\ x \in Worker /\ t \in own[x]
               \/ k = "cache"   /\ x \in Worker /\ cache[x] = t
               \/ k = "job"     /\ x \in Worker /\ job[x] = t
               \/ k = "central" /\ x = none /\ t \in central
               \/ k = "done"    /\ x = none /\ t \in done

Kind == {"rest", "own", "cache", "job", "central", "done"}

Place == Thread \cup {none}

\* A task that was put into the pool is in one place, and others are in none.
PlacesInv ==
  \A t \in Task :
    /\ t \in known <=> \E k \in Kind, x \in Place : In(t, k, x)
    /\ \A k, l \in Kind, x, y \in Place : In(t, k, x) /\ In(t, l, y) => k = l /\ x = y

IInv == /\ TypeOK /\ PhaseInv /\ LockInv /\ IdlersInv /\ CallsInv /\ ExitInv
        /\ JobInv /\ PlacesInv /\ CentralIsWatched /\ NobodyRestsPastExit
-----------------------------------------------------------------------------
LEMMA Apart ==
  /\ none \notin Task /\ none \notin Worker /\ Client \notin Worker /\ Client # none
  /\ Worker # {}
  BY WorkStealingThreadpoolAssumption

LEMMA Sizes ==
  /\ IsFiniteSet(Worker) /\ Cardinality(Worker) \in Nat
  /\ IsFiniteSet(Task) /\ Cardinality(Task) \in Nat
  BY WorkStealingThreadpoolAssumption, FS_CardinalityType

\* The steps of a worker that looks for a task.
Looks(w) == \/ Loop(w) \/ PopOwn(w) \/ Steal(w) \/ StealNothing(w)
            \/ Spin(w) \/ StopSpinning(w)

\* Those of one that waits.
Waits(w) == \/ Prepare(w) \/ TryLock(w) \/ Look(w) \/ PopCentral(w) \/ Cancel(w)
            \/ CountIdler(w) \/ Commit(w) \/ Return(w) \/ UncountIdler(w)

\* Those of one that has a task.
Runs(w) == \/ WorkerPush(w) \/ WorkerNotify(w) \/ Finish(w) \/ Chain(w)
           \/ \E S \in SUBSET Task : WorkerBatch(w, S)

ClientActs == (\E S \in SUBSET Task : ClientBatch(S)) \/ Destroy \/ ClientStep

LEMMA NextSplit ==
  Next <=> ClientActs \/ \E w \in Worker : Looks(w) \/ Waits(w) \/ Runs(w)
  BY DEF Next, WorkerStep, Looks, Waits, Runs, ClientActs

ControlInv == PhaseInv /\ LockInv /\ ExitInv

LEMMA LooksControl ==
  ASSUME TypeOK, ControlInv, NEW w \in Worker, Looks(w)
  PROVE  ControlInv'
  <1>1. /\ pc' \in {[pc EXCEPT ![w] = q] :
                 q \in {"exited", "pop", "steal", "run", "prepare", "spin", "spun"}}
        /\ pc[w] \in {"loop", "pop", "steal", "spin", "spun"}
        /\ UNCHANGED <<exit, lock, phase, cpc>>
    BY DEF Looks, Loop, PopOwn, Steal, StealNothing, Spin, StopSpinning, Goes,
           OnlyTakes, clientVars
  <1>2. QED
    BY <1>1 DEF TypeOK, ControlInv, PhaseInv, LockInv, ExitInv

LEMMA RunsControl ==
  ASSUME TypeOK, ControlInv, NEW w \in Worker, Runs(w)
  PROVE  ControlInv'
  <1>1. /\ pc' \in {[pc EXCEPT ![w] = q] : q \in {"run", "push", "notify", "chain", "loop"}}
        /\ pc[w] \in {"run", "push", "notify", "chain"}
        /\ UNCHANGED <<exit, lock, cpc>>
    BY DEF Runs, WorkerPush, WorkerNotify, Finish, Chain, WorkerBatch, Goes, clientVars
  <1>2. UNCHANGED phase \/ Notifier!NotifyOne
    BY DEF Runs, WorkerPush, WorkerNotify, Finish, Chain, WorkerBatch
  <1>3. LockInv' /\ ExitInv'
    BY <1>1 DEF TypeOK, ControlInv, LockInv, ExitInv
  <1>4. PhaseInv'
    <2>1. CASE UNCHANGED phase
      BY <1>1, <2>1 DEF TypeOK, ControlInv, PhaseInv
    <2>2. ASSUME NEW v \in Worker, phase' = [phase EXCEPT ![v] = "released"],
                 phase[v] \in {"prewait", "asleep"}
          PROVE  PhaseInv'
      BY <1>1, <2>2 DEF TypeOK, ControlInv, PhaseInv
    <2>3. QED
      BY <1>2, <2>1, <2>2 DEF Notifier!NotifyOne, Notifier!Waiting
  <1>5. QED
    BY <1>3, <1>4 DEF ControlInv

LEMMA WaitsControl ==
  ASSUME TypeOK, ControlInv, NEW w \in Worker, Waits(w)
  PROVE  ControlInv'
  <1> USE DEF ControlInv, PhaseInv, LockInv, ExitInv, Goes, clientVars
  <1>1. CASE Prepare(w)
    BY <1>1 DEF TypeOK, Prepare, Notifier!Prepare, Notifier!Moves
  <1>2. CASE TryLock(w)
    BY <1>2, Apart DEF TypeOK, TryLock
  <1>3. CASE Look(w)
    BY <1>3, Apart DEF TypeOK, Look
  <1>4. CASE PopCentral(w)
    BY <1>4, Apart DEF TypeOK, PopCentral
  <1>5. CASE Cancel(w)
    BY <1>5 DEF TypeOK, Cancel, Notifier!Cancel, Notifier!Moves
  <1>6. CASE CountIdler(w)
    BY <1>6 DEF TypeOK, CountIdler
  <1>7. CASE Commit(w)
    BY <1>7 DEF TypeOK, Commit, Notifier!Commit, Notifier!Moves
  <1>8. CASE Return(w)
    BY <1>8 DEF TypeOK, Return, Notifier!Return, Notifier!Moves
  <1>9. CASE UncountIdler(w)
    BY <1>9 DEF TypeOK, UncountIdler
  <1>10. QED
    BY <1>1, <1>2, <1>3, <1>4, <1>5, <1>6, <1>7, <1>8, <1>9 DEF Waits

LEMMA ClientControl ==
  ASSUME TypeOK, ControlInv, ClientActs
  PROVE  ControlInv'
  <1> USE DEF ControlInv, PhaseInv, LockInv, ExitInv, ClientGoes
  <1>1. ASSUME NEW S \in SUBSET Task, ClientBatch(S) PROVE ControlInv'
    BY <1>1 DEF TypeOK, ClientBatch
  <1>2. CASE Destroy
    BY <1>2 DEF TypeOK, Destroy
  <1>3. CASE ClientLock
    BY <1>3, Apart DEF TypeOK, ClientLock
  <1>4. CASE ClientPush
    BY <1>4, Apart DEF TypeOK, ClientPush
  <1>5. CASE ClientCount
    BY <1>5 DEF TypeOK, ClientCount
  <1>6. CASE ClientNotify
    <2>1. CASE UNCHANGED phase
      BY <1>6, <2>1 DEF TypeOK, ClientNotify
    <2>2. ASSUME NEW v \in Worker, phase' = [phase EXCEPT ![v] = "released"],
                 phase[v] \in {"prewait", "asleep"}
          PROVE  ControlInv'
      BY <1>6, <2>2 DEF TypeOK, ClientNotify
    <2>3. QED
      BY <1>6, <2>1, <2>2 DEF ClientNotify, Notifier!NotifyOne, Notifier!Waiting
  <1>7. CASE SetExit
    <2>1. PICK w \in Worker :
            /\ exit' = [exit EXCEPT ![w] = TRUE]
            /\ IF \A v \in Worker \ {w} : exit[v] THEN cpc' = "notify all" /\ lock' = none
                                                  ELSE UNCHANGED <<cpc, lock>>
      BY <1>7 DEF SetExit
    <2>2. cpc = "exit" /\ UNCHANGED <<pc, phase>> /\ lock = Client
      BY <1>7 DEF SetExit
    <2>3. CASE \A v \in Worker \ {w} : exit[v]
      <3>1. \A v \in Worker : exit'[v]
        BY <2>1, <2>3 DEF TypeOK
      <3>2. QED
        BY <2>1, <2>2, <2>3, <3>1, Apart
    <2>4. CASE ~ \A v \in Worker \ {w} : exit[v]
      BY <2>1, <2>2, <2>4, Apart
    <2>5. QED
      BY <2>3, <2>4
  <1>8. CASE NotifyAll
    BY <1>8 DEF TypeOK, NotifyAll, Notifier!NotifyAll, Notifier!Waiting
  <1>9. CASE Join
    BY <1>9 DEF TypeOK, Join
  <1>10. QED
    BY <1>1, <1>2, <1>3, <1>4, <1>5, <1>6, <1>7, <1>8, <1>9 DEF ClientActs, ClientStep

LEMMA ControlKept == TypeOK /\ ControlInv /\ [Next]_vars => ControlInv'
  <1>1. CASE UNCHANGED vars
    BY <1>1 DEF vars, clientVars, taskVars, ControlInv, PhaseInv, LockInv, ExitInv
  <1>2. QED
    BY <1>1, NextSplit, ClientControl, LooksControl, WaitsControl, RunsControl
-----------------------------------------------------------------------------
(***************************************************************************)
(* Who rests.                                                              *)
(***************************************************************************)
RestInv == CentralIsWatched /\ NobodyRestsPastExit

\* A worker begins to rest only when it finds the central queue empty and its
\* flag not set; notifications end rests.
LEMMA RestsBegin ==
  ASSUME TypeOK, ControlInv, [Next]_vars
  PROVE  Resting' \subseteq Resting \/ (central = {} /\ central' = {}
                                      /\ cpc \notin {"notify all", "join", "gone"} /\ cpc' = cpc)
  <1>1. CASE ClientActs
    <2>1. pc' = pc /\ (UNCHANGED phase \/ Notifier!NotifyOne \/ Notifier!NotifyAll)
      BY <1>1 DEF ClientActs, ClientStep, ClientBatch, Destroy, ClientLock, ClientPush,
                  ClientCount, ClientNotify, SetExit, NotifyAll, Join
    <2>2. \A w \in Worker : phase'[w] # phase[w] => phase'[w] = "released"
      BY <2>1 DEF TypeOK, Notifier!NotifyOne, Notifier!NotifyAll
    <2>3. QED
      BY <2>1, <2>2 DEF Resting
  <1>2. ASSUME NEW w \in Worker, Looks(w) PROVE Resting' \subseteq Resting
    <2>1. /\ pc' \in {[pc EXCEPT ![w] = q] :
                   q \in {"exited", "pop", "steal", "run", "prepare", "spin", "spun"}}
          /\ UNCHANGED phase
      BY <1>2 DEF Looks, Loop, PopOwn, Steal, StealNothing, Spin, StopSpinning, Goes,
                  OnlyTakes
    <2>2. QED
      BY <2>1 DEF TypeOK, Resting
  <1>3. ASSUME NEW w \in Worker, Runs(w) PROVE Resting' \subseteq Resting
    <2>1. /\ pc' \in {[pc EXCEPT ![w] = q] : q \in {"run", "push", "notify", "chain", "loop"}}
          /\ UNCHANGED phase \/ Notifier!NotifyOne
      BY <1>3 DEF Runs, WorkerPush, WorkerNotify, Finish, Chain, WorkerBatch, Goes
    <2>2. \A v \in Worker : phase'[v] # phase[v] => phase'[v] = "released"
      BY <2>1 DEF TypeOK, Notifier!NotifyOne
    <2>3. QED
      BY <2>1, <2>2 DEF TypeOK, Resting
  <1>4. ASSUME NEW w \in Worker, Waits(w), ~Look(w) PROVE Resting' \subseteq Resting
    <2> USE DEF Goes, Resting
    <2>1. CASE Prepare(w)
      BY <2>1 DEF TypeOK, Prepare, Notifier!Prepare, Notifier!Moves
    <2>2. CASE TryLock(w) \/ PopCentral(w)
      BY <2>2 DEF TypeOK, TryLock, PopCentral
    <2>3. CASE Cancel(w)
      BY <2>3 DEF TypeOK, Cancel, Notifier!Cancel, Notifier!Moves
    <2>4. CASE CountIdler(w)
      BY <2>4 DEF TypeOK, CountIdler, ControlInv, PhaseInv
    <2>5. CASE Commit(w)
      BY <2>5 DEF TypeOK, Commit, Notifier!Commit, Notifier!Moves
    <2>6. CASE Return(w)
      BY <2>6 DEF TypeOK, Return, Notifier!Return, Notifier!Moves
    <2>7. CASE UncountIdler(w)
      BY <2>7 DEF TypeOK, UncountIdler
    <2>8. QED
      BY <1>4, <2>1, <2>2, <2>3, <2>4, <2>5, <2>6, <2>7 DEF Waits
  <1>5. ASSUME NEW w \in Worker, Look(w)
        PROVE  Resting' \subseteq Resting \/ (central = {} /\ central' = {}
                                      /\ cpc \notin {"notify all", "join", "gone"} /\ cpc' = cpc)
    <2>1. /\ UNCHANGED <<phase, central, cpc>> /\ pc[w] = "locked"
          /\ pc' = [pc EXCEPT ![w] = IF exit[w] THEN "cancel"
                                     ELSE IF central # {} THEN "pop central" ELSE "idle"]
      BY <1>5 DEF Look, Goes, taskVars, clientVars
    <2>2. CASE exit[w] \/ central # {}
      BY <2>1, <2>2 DEF TypeOK, Resting
    <2>3. CASE ~exit[w] /\ central = {}
      BY <2>1, <2>3 DEF ControlInv, ExitInv
    <2>4. QED
      BY <2>2, <2>3
  <1>6. CASE UNCHANGED vars
    BY <1>6 DEF vars, Resting
  <1>7. QED
    BY <1>1, <1>2, <1>3, <1>4, <1>5, <1>6, NextSplit

LEMMA RestKept == TypeOK /\ ControlInv /\ RestInv /\ [Next]_vars => RestInv'
  <1> SUFFICES ASSUME TypeOK, ControlInv, RestInv, [Next]_vars PROVE RestInv'
    OBVIOUS
  <1>1. CASE central = {} /\ central' = {} /\ cpc' = cpc
             /\ cpc \notin {"notify all", "join", "gone"}
    BY <1>1 DEF RestInv, CentralIsWatched, NobodyRestsPastExit
  <1>2. CASE Resting' \subseteq Resting
    <2>1. Resting \subseteq Worker /\ (Resting # Worker => Resting' # Worker)
      BY <1>2 DEF Resting
    <2>2. CASE \E w \in Worker : Looks(w) \/ Waits(w) \/ Runs(w)
      <3>1. central' \subseteq central /\ cpc' = cpc
        BY <2>2 DEF Looks, Loop, PopOwn, Steal, StealTask, StealNothing, Spin, StopSpinning,
             OnlyTakes, Waits, Prepare, TryLock, Look, PopCentral, Cancel, CountIdler, Commit,
             Return, UncountIdler, Runs, WorkerPush, WorkerNotify, Finish, Chain, WorkerBatch,
             taskVars, clientVars
      <3>2. QED
        BY <1>2, <2>1, <3>1 DEF RestInv, CentralIsWatched, NobodyRestsPastExit
    <2>3. CASE ClientActs
      <3>1. CASE ClientNotify
        <4>1. /\ cpc = "notify" /\ cpc' \in {"idle", "notify"} /\ pc' = pc
              /\ UNCHANGED central
          BY <3>1 DEF ClientNotify, ClientGoes, taskVars
        <4>2. CASE Notifier!Waiting = {}
          <5>1. Resting = {}
            BY <4>2 DEF Resting, Notifier!Waiting
          <5>2. QED
            BY <2>1, <4>1, <5>1, Apart DEF RestInv, CentralIsWatched, NobodyRestsPastExit
        <4>3. ASSUME NEW v \in Worker, phase' = [phase EXCEPT ![v] = "released"]
              PROVE  RestInv'
          <5>1. v \notin Resting'
            BY <4>3 DEF TypeOK, Resting
          <5>2. QED
            BY <4>1, <5>1 DEF RestInv, CentralIsWatched, NobodyRestsPastExit
        <4>4. QED
          BY <3>1, <4>2, <4>3 DEF ClientNotify, Notifier!NotifyOne, Notifier!Waiting
      <3>2. CASE NotifyAll
        <4>1. Resting' = {}
          BY <3>2 DEF TypeOK, NotifyAll, Notifier!NotifyAll, Notifier!Waiting, Resting
        <4>2. QED
          BY <4>1, Apart DEF RestInv, CentralIsWatched, NobodyRestsPastExit
      <3>3. CASE ClientPush
        <4>1. cpc = "push" /\ cpc' \in {"push", "count"}
          BY <3>3 DEF ClientPush
        <4>2. QED
          BY <4>1 DEF RestInv, CentralIsWatched, NobodyRestsPastExit
      <3>4. CASE ~ClientPush /\ ~ClientNotify /\ ~NotifyAll
        <4>1. /\ UNCHANGED central
              /\ cpc \in {"push", "count", "notify"} => cpc' \in {"push", "count", "notify"}
              /\ cpc' \in {"join", "gone"} => cpc \in {"join", "gone"}
          BY <2>3, <3>4 DEF ClientActs, ClientStep, ClientBatch, Destroy, ClientLock,
                  ClientCount, SetExit, Join, ClientGoes, taskVars
        <4>2. QED
          BY <1>2, <2>1, <4>1 DEF RestInv, CentralIsWatched, NobodyRestsPastExit
      <3>5. QED
        BY <3>1, <3>2, <3>3, <3>4
    <2>4. CASE UNCHANGED vars
      BY <2>4 DEF vars, taskVars, clientVars, RestInv, CentralIsWatched,
                  NobodyRestsPastExit, Resting
    <2>5. QED
      BY <2>2, <2>3, <2>4, NextSplit
  <1>3. QED
    BY <1>1, <1>2, RestsBegin
-----------------------------------------------------------------------------
(***************************************************************************)
(* How many are idle and how often the client notifies.                    *)
(***************************************************************************)
Idlers == {w \in Worker : pc[w] \in {"commit", "woken"}}

LEMMA IdlersKept ==
  ASSUME TypeOK, IdlersInv, [Next]_vars
  PROVE  IdlersInv' /\ idlers' \in 0..Cardinality(Worker)
  <1>1. /\ IsFiniteSet(Idlers) /\ idlers = Cardinality(Idlers) /\ IsFiniteSet(Idlers')
        /\ Cardinality(Idlers') \in 0..Cardinality(Worker)
    <2>1. Idlers \in SUBSET Worker /\ Idlers' \in SUBSET Worker
      BY DEF Idlers
    <2>2. QED
      BY <2>1, Sizes, FS_Subset, FS_CardinalityType DEF IdlersInv, Idlers
  <1>2. IdlersInv' <=> idlers' = Cardinality(Idlers')
    BY DEF IdlersInv, Idlers
  <1>3. CASE UNCHANGED <<idlers, Idlers>>
    BY <1>1, <1>2, <1>3
  <1>4. ASSUME NEW w \in Worker, CountIdler(w) PROVE idlers' = Cardinality(Idlers')
    <2>1. w \notin Idlers /\ Idlers' = Idlers \cup {w} /\ idlers' = idlers + 1
      BY <1>4 DEF CountIdler, Goes, TypeOK, Idlers
    <2>2. QED
      BY <1>1, <2>1, FS_AddElement
  <1>5. ASSUME NEW w \in Worker, UncountIdler(w) PROVE idlers' = Cardinality(Idlers')
    <2>1. w \in Idlers /\ Idlers' = Idlers \ {w} /\ idlers' = idlers - 1
      BY <1>5 DEF UncountIdler, Goes, TypeOK, Idlers
    <2>2. QED
      BY <1>1, <2>1, FS_RemoveElement
  <1>6. CASE ClientActs
    <2>1. UNCHANGED <<idlers, pc>>
      BY <1>6 DEF ClientActs, ClientStep, ClientBatch, Destroy, ClientLock, ClientPush,
                  ClientCount, ClientNotify, SetExit, NotifyAll, Join
    <2>2. QED
      BY <1>3, <2>1 DEF Idlers
  <1>7. ASSUME NEW w \in Worker, Looks(w) \/ Runs(w) PROVE UNCHANGED <<idlers, Idlers>>
    <2>1. /\ pc' \in {[pc EXCEPT ![w] = q] : q \in {"exited", "pop", "steal", "run", "prepare",
                                   "spin", "spun", "push", "notify", "chain", "loop"}}
          /\ pc[w] \in {"loop", "pop", "steal", "spin", "spun", "run", "push", "notify", "chain"}
          /\ UNCHANGED idlers
      BY <1>7 DEF Looks, Loop, PopOwn, Steal, StealNothing, Spin, StopSpinning, Goes,
           OnlyTakes, Runs, WorkerPush, WorkerNotify, Finish, Chain, WorkerBatch
    <2>2. QED
      BY <2>1 DEF TypeOK, Idlers
  <1>8. ASSUME NEW w \in Worker, Waits(w), ~CountIdler(w), ~UncountIdler(w)
        PROVE  UNCHANGED <<idlers, Idlers>>
    <2> USE DEF Goes
    <2>1. CASE Prepare(w) \/ TryLock(w) \/ Cancel(w)
      BY <2>1 DEF Prepare, TryLock, Cancel, TypeOK, Idlers
    <2>2. CASE Look(w) \/ PopCentral(w)
      BY <2>2 DEF Look, PopCentral, TypeOK, Idlers
    <2>3. CASE Commit(w)
      BY <2>3 DEF Commit, Idlers
    <2>4. CASE Return(w)
      BY <2>4 DEF Return, TypeOK, Idlers
    <2>5. QED
      BY <1>8, <2>1, <2>2, <2>3, <2>4 DEF Waits
  <1>9. CASE UNCHANGED vars
    BY <1>3, <1>9 DEF vars, Idlers
  <1>10. QED
    BY <1>1, <1>2, <1>3, <1>4, <1>5, <1>6, <1>7, <1>8, <1>9, NextSplit

BatchInv == CallsInv /\ JobInv

LEMMA ClientBatchKept ==
  ASSUME TypeOK, IdlersInv, BatchInv, ClientActs
  PROVE  BatchInv' /\ calls' \in 0..Cardinality(Task)
  <1> USE DEF BatchInv, CallsInv, JobInv, ClientGoes
  <1>1. calls \in 0..Cardinality(Task) /\ Cardinality(Task) \in Nat /\ idlers \in Nat
    BY Sizes DEF TypeOK
  <1>2. ASSUME NEW S \in SUBSET Task, ClientBatch(S)
        PROVE  BatchInv' /\ calls' \in 0..Cardinality(Task)
    <2>1. S # {} /\ rest' = [rest EXCEPT ![Client] = S] /\ calls' = Cardinality(S)
          /\ cpc' = "lock" /\ UNCHANGED <<job, pc>>
      BY <1>2 DEF ClientBatch, New
    <2>2. Cardinality(S) \in 1..Cardinality(Task)
      BY <2>1, Sizes, FS_Subset, FS_CardinalityType, FS_EmptySet
    <2>3. QED
      BY <2>1, <2>2, Apart DEF TypeOK
  <1>3. CASE Destroy \/ ClientLock \/ SetExit \/ NotifyAll \/ Join
    BY <1>1, <1>3 DEF Destroy, ClientLock, SetExit, NotifyAll, Join, taskVars
  <1>4. CASE ClientPush
    <2>1. PICK t \in rest[Client] :
            /\ rest' = [rest EXCEPT ![Client] = @ \ {t}]
            /\ IF rest[Client] = {t} THEN cpc' = "count" ELSE cpc' = cpc
      BY <1>4 DEF ClientPush
    <2>2. cpc = "push" /\ UNCHANGED <<job, pc, calls>>
      BY <1>4 DEF ClientPush
    <2>3. rest'[Client] = rest[Client] \ {t} /\ \A w \in Worker : rest'[w] = rest[w]
      BY <2>1, Apart DEF TypeOK
    <2>4. QED
      BY <1>1, <2>1, <2>2, <2>3
  <1>5. CASE ClientCount
    <2>1. cpc = "count" /\ cpc' = "notify" /\ UNCHANGED <<rest, job, pc>>
      BY <1>5 DEF ClientCount, taskVars
    <2>2. calls' \in 1..Cardinality(Task)
      BY <1>1, <1>5, <2>1 DEF ClientCount, Least
    <2>3. QED
      BY <2>1, <2>2
  <1>6. CASE ClientNotify
    <2>1. /\ cpc = "notify" /\ calls' = calls - 1 /\ UNCHANGED <<rest, job, pc>>
          /\ cpc' = IF calls = 1 THEN "idle" ELSE "notify"
      BY <1>6 DEF ClientNotify, taskVars
    <2>2. QED
      BY <1>1, <2>1
  <1>7. QED
    BY <1>2, <1>3, <1>4, <1>5, <1>6 DEF ClientActs, ClientStep

LEMMA LooksBatchKept ==
  ASSUME TypeOK, BatchInv, NEW w \in Worker, Looks(w)
  PROVE  BatchInv'
  <1> USE DEF BatchInv, CallsInv, JobInv, Goes, OnlyTakes, Holds, clientVars, taskVars
  <1>1. CASE Loop(w)
    BY <1>1 DEF Loop, TypeOK
  <1>2. CASE PopOwn(w)
    BY <1>2, Apart DEF PopOwn, TypeOK
  <1>3. CASE Steal(w)
    BY <1>3, Apart DEF Steal, StealTask, TypeOK
  <1>4. CASE StealNothing(w)
    BY <1>4 DEF StealNothing, TypeOK
  <1>5. CASE Spin(w)
    BY <1>5, Apart DEF Spin, StealTask, TypeOK
  <1>6. CASE StopSpinning(w)
    BY <1>6 DEF StopSpinning, TypeOK
  <1>7. QED
    BY <1>1, <1>2, <1>3, <1>4, <1>5, <1>6 DEF Looks

LEMMA WaitsBatchKept ==
  ASSUME TypeOK, BatchInv, NEW w \in Worker, Waits(w)
  PROVE  BatchInv'
  <1> USE DEF BatchInv, CallsInv, JobInv, Goes, Holds, clientVars, taskVars
  <1>1. CASE Prepare(w) \/ TryLock(w)
    BY <1>1 DEF Prepare, TryLock, TypeOK
  <1>2. CASE Look(w)
    BY <1>2 DEF Look, TypeOK
  <1>3. CASE PopCentral(w)
    BY <1>3, Apart DEF PopCentral, TypeOK
  <1>4. CASE Cancel(w)
    BY <1>4 DEF Cancel, TypeOK
  <1>5. CASE CountIdler(w) \/ Commit(w)
    BY <1>5 DEF CountIdler, Commit, TypeOK
  <1>6. CASE Return(w) \/ UncountIdler(w)
    BY <1>6 DEF Return, UncountIdler, TypeOK
  <1>7. QED
    BY <1>1, <1>2, <1>3, <1>4, <1>5, <1>6 DEF Waits

LEMMA RunsBatchKept ==
  ASSUME TypeOK, BatchInv, NEW w \in Worker, Runs(w)
  PROVE  BatchInv'
  <1> USE DEF BatchInv, CallsInv, JobInv, Goes, Holds, clientVars, taskVars
  <1>1. CASE WorkerPush(w)
    BY <1>1, Apart DEF WorkerPush, TypeOK
  <1>2. CASE WorkerNotify(w)
    BY <1>2 DEF WorkerNotify, TypeOK
  <1>3. CASE Finish(w)
    BY <1>3 DEF Finish, TypeOK
  <1>4. CASE Chain(w)
    BY <1>4 DEF Chain, TypeOK
  <1>5. ASSUME NEW S \in SUBSET Task, WorkerBatch(w, S) PROVE BatchInv'
    <2>1. S # {} /\ pc[w] = "run" /\ UNCHANGED <<job, cpc, calls>>
      BY <1>5 DEF WorkerBatch, New
    <2>2. ASSUME NEW R \in SUBSET Task, NEW q \in {"run", "push"},
                 rest' = [rest EXCEPT ![w] = R], pc' = [pc EXCEPT ![w] = q],
                 q = "run" <=> R = {}
          PROVE  BatchInv'
      BY <2>1, <2>2, Apart DEF TypeOK
    <2>3. CASE cache[w] # none
      BY <1>5, <2>1, <2>2, <2>3 DEF WorkerBatch
    <2>4. ASSUME NEW t \in S, rest' = [rest EXCEPT ![w] = S \ {t}],
                 pc' = [pc EXCEPT ![w] = IF S = {t} THEN "run" ELSE "push"]
          PROVE  BatchInv'
      <3>1. S \ {t} = {} <=> S = {t}
        OBVIOUS
      <3>2. QED
        BY <2>2, <2>4, <3>1
    <2>5. QED
      BY <1>5, <2>3, <2>4 DEF WorkerBatch
  <1>6. QED
    BY <1>1, <1>2, <1>3, <1>4, <1>5 DEF Runs

LEMMA BatchKept ==
  TypeOK /\ IdlersInv /\ BatchInv /\ [Next]_vars => BatchInv' /\ calls' \in 0..Cardinality(Task)
  <1> SUFFICES ASSUME TypeOK, IdlersInv, BatchInv, [Next]_vars
               PROVE  BatchInv' /\ calls' \in 0..Cardinality(Task)
    OBVIOUS
  <1>1. ASSUME NEW w \in Worker, Looks(w) \/ Waits(w) \/ Runs(w) PROVE calls' = calls
    BY <1>1 DEF Looks, Loop, PopOwn, Steal, StealTask, StealNothing, Spin, StopSpinning,
         OnlyTakes, Waits, Prepare, TryLock, Look, PopCentral, Cancel, CountIdler, Commit,
         Return, UncountIdler, Runs, WorkerPush, WorkerNotify, Finish, Chain, WorkerBatch,
         clientVars
  <1>2. CASE UNCHANGED vars
    BY <1>2 DEF vars, taskVars, clientVars, TypeOK, BatchInv, CallsInv, JobInv
  <1>3. QED
    BY <1>1, <1>2, NextSplit, ClientBatchKept, LooksBatchKept, WaitsBatchKept,
       RunsBatchKept DEF TypeOK
-----------------------------------------------------------------------------
(***************************************************************************)
(* Where the tasks are.                                                    *)
(***************************************************************************)

\* Nothing moves.
Stays ==
  /\ known' = known
  /\ \A u \in Task, m \in Kind, z \in Place : In(u, m, z)' <=> In(u, m, z)

\* Task t goes from one place to another.
Moved(t, k, x, l, y) ==
  /\ In(t, k, x)
  /\ known' = known
  /\ \A u \in Task, m \in Kind, z \in Place :
       In(u, m, z)' <=> \/ u = t /\ m = l /\ z = y
                        \/ In(u, m, z) /\ ~(u = t /\ m = k /\ z = x)

\* The tasks of S arrive, in the batch of thread x.
Arrived(S, x) ==
  /\ S \cap known = {} /\ known' = known \cup S
  /\ \A u \in Task, m \in Kind, z \in Place :
       In(u, m, z)' <=> (u \in S /\ m = "rest" /\ z = x) \/ In(u, m, z)

\* So they do, but for t, which goes to the cache of w at once.
ArrivedButOne(S, t, w) ==
  /\ S \cap known = {} /\ known' = known \cup S
  /\ \A u \in Task, m \in Kind, z \in Place :
       In(u, m, z)' <=> \/ u \in S /\ u # t /\ m = "rest" /\ z = w
                        \/ u = t /\ m = "cache" /\ z = w
                        \/ In(u, m, z)

LEMMA StaysKeeps == PlacesInv /\ Stays => PlacesInv'
  BY DEF PlacesInv, Stays

LEMMA MovedKeeps ==
  ASSUME PlacesInv, NEW t \in Task, NEW k \in Kind, NEW x \in Place,
         NEW l \in Kind, NEW y \in Place, Moved(t, k, x, l, y)
  PROVE  PlacesInv'
  BY DEF PlacesInv, Moved

LEMMA ArrivedKeeps ==
  ASSUME PlacesInv, NEW S \in SUBSET Task, NEW x \in Place, Arrived(S, x)
  PROVE  PlacesInv'
  <1>1. "rest" \in Kind
    BY DEF Kind
  <1>2. QED
    BY <1>1 DEF PlacesInv, Arrived

LEMMA ArrivedButOneKeeps ==
  ASSUME PlacesInv, NEW S \in SUBSET Task, NEW t \in S, NEW w \in Place,
         ArrivedButOne(S, t, w)
  PROVE  PlacesInv'
  <1>1. "rest" \in Kind /\ "cache" \in Kind
    BY DEF Kind
  <1>2. QED
    BY <1>1 DEF PlacesInv, ArrivedButOne
-----------------------------------------------------------------------------
LEMMA PopOwnMoves ==
  ASSUME TypeOK, JobInv, NEW w \in Worker, PopOwn(w)
  PROVE  Stays \/ \E t \in Task : Moved(t, "own", w, "job", w)
  <1>1. CASE own[w] = {}
    BY <1>1 DEF PopOwn, OnlyTakes, Stays, In
  <1>2. CASE own[w] # {}
    <2>1. PICK t \in own[w] : job' = [job EXCEPT ![w] = t] /\ own' = [own EXCEPT ![w] = @ \ {t}]
      BY <1>2 DEF PopOwn, Holds
    <2>2. job[w] = none /\ t \in Task /\ UNCHANGED <<central, cache, rest, known, done>>
      BY <1>2 DEF PopOwn, Goes, OnlyTakes, JobInv, TypeOK
    <2>3. Moved(t, "own", w, "job", w)
      BY <2>1, <2>2, Apart DEF Moved, In, TypeOK, Kind, Place, Thread
    <2>4. QED
      BY <2>2, <2>3
  <1>3. QED
    BY <1>1, <1>2

LEMMA StealMoves ==
  ASSUME TypeOK, NEW w \in Worker, job[w] = none, NEW t \in Task, StealTask(w, t),
         UNCHANGED <<cache, rest, known, done>>
  PROVE  \/ Moved(t, "central", none, "job", w)
         \/ \E v \in Worker : Moved(t, "own", v, "job", w)
  <1>1. job' = [job EXCEPT ![w] = t]
    BY DEF StealTask, Holds
  <1>2. CASE t \in central /\ central' = central \ {t} /\ UNCHANGED own
    <2>1. Moved(t, "central", none, "job", w)
      BY <1>1, <1>2, Apart DEF Moved, In, TypeOK, Kind, Place, Thread
    <2>2. QED
      BY <2>1
  <1>3. ASSUME NEW v \in Worker, t \in own[v], own' = [own EXCEPT ![v] = @ \ {t}],
               UNCHANGED central
        PROVE  Moved(t, "own", v, "job", w)
    BY <1>1, <1>3, Apart DEF Moved, In, TypeOK, Kind, Place, Thread
  <1>4. QED
    BY <1>2, <1>3 DEF StealTask

\* What a step does to the tasks.
Traffic ==
  \/ Stays
  \/ \E t \in Task :
       \/ \E w \in Worker : \/ Moved(t, "rest", w, "own", w)
                           \/ Moved(t, "central", none, "job", w)
                           \/ Moved(t, "cache", w, "job", w)
                           \/ Moved(t, "job", w, "done", none)
                           \/ \E v \in Worker : Moved(t, "own", v, "job", w)
       \/ Moved(t, "rest", Client, "central", none)
  \/ \E S \in SUBSET Task, x \in Thread : Arrived(S, x)
  \/ \E S \in SUBSET Task, w \in Worker : \E t \in S : ArrivedButOne(S, t, w)

LEMMA LooksMove ==
  ASSUME TypeOK, JobInv, NEW w \in Worker, Looks(w)
  PROVE  Traffic
  <1>1. CASE Loop(w) \/ StealNothing(w) \/ StopSpinning(w)
    BY <1>1 DEF Loop, StealNothing, StopSpinning, OnlyTakes, taskVars, Traffic, Stays, In
  <1>2. CASE PopOwn(w)
    BY <1>2, PopOwnMoves DEF Traffic
  <1>3. CASE Steal(w)
    BY <1>3, StealMoves DEF Steal, Goes, OnlyTakes, JobInv, Traffic
  <1>4. CASE Spin(w)
    <2>1. job[w] = none /\ UNCHANGED <<cache, rest, known, done>>
      BY <1>4 DEF Spin, Goes, OnlyTakes, JobInv
    <2>2. ASSUME NEW t \in Task, StealTask(w, t) PROVE Traffic
      BY <2>1, <2>2, StealMoves DEF Traffic
    <2>3. CASE UNCHANGED <<central, own, job>>
      BY <2>1, <2>3 DEF Traffic, Stays, In
    <2>4. QED
      BY <1>4, <2>2, <2>3 DEF Spin
  <1>5. QED
    BY <1>1, <1>2, <1>3, <1>4 DEF Looks

LEMMA WaitsMove ==
  ASSUME TypeOK, JobInv, NEW w \in Worker, Waits(w)
  PROVE  Traffic
  <1>1. CASE PopCentral(w)
    <2>1. job[w] = none /\ UNCHANGED <<own, cache, rest, known, done>>
      BY <1>1 DEF PopCentral, Goes, JobInv
    <2>2. ASSUME NEW t \in central, central' = central \ {t}, Holds(w, t)
          PROVE  Moved(t, "central", none, "job", w)
      BY <2>1, <2>2, Apart DEF Moved, In, TypeOK, Kind, Place, Thread, Holds
    <2>3. CASE UNCHANGED <<central, job>>
      BY <2>1, <2>3 DEF Traffic, Stays, In
    <2>4. QED
      BY <1>1, <2>2, <2>3 DEF PopCentral, Traffic, TypeOK
  <1>2. CASE UNCHANGED taskVars
    BY <1>2 DEF taskVars, Traffic, Stays, In
  <1>3. QED
    BY <1>1, <1>2 DEF Waits, Prepare, TryLock, Look, Cancel, CountIdler, Commit, Return,
                      UncountIdler

LEMMA RunsMove ==
  ASSUME TypeOK, JobInv, PlacesInv, NEW w \in Worker, Runs(w)
  PROVE  Traffic
  <1>1. CASE WorkerPush(w)
    <2>1. PICK t \in rest[w] : /\ rest' = [rest EXCEPT ![w] = @ \ {t}]
                              /\ own' = [own EXCEPT ![w] = @ \cup {t}]
      BY <1>1 DEF WorkerPush
    <2>2. t \in Task /\ UNCHANGED <<central, cache, job, known, done>>
      BY <1>1 DEF WorkerPush, TypeOK
    <2>3. Moved(t, "rest", w, "own", w)
      BY <2>1, <2>2, Apart DEF Moved, In, TypeOK, Kind, Place, Thread
    <2>4. QED
      BY <2>2, <2>3 DEF Traffic
  <1>2. CASE WorkerNotify(w)
    BY <1>2 DEF WorkerNotify, taskVars, Traffic, Stays, In
  <1>3. CASE Finish(w)
    <2>1. /\ job[w] \in Task /\ done' = done \cup {job[w]} /\ job' = [job EXCEPT ![w] = none]
          /\ UNCHANGED <<central, own, cache, rest, known>>
      BY <1>3 DEF Finish, Goes, Holds, JobInv, TypeOK
    <2>2. PICK t \in Task : t = job[w]
      BY <2>1
    <2>3. Moved(t, "job", w, "done", none)
      BY <2>1, <2>2, Apart DEF Moved, In, TypeOK, Kind, Place, Thread
    <2>4. QED
      BY <2>3 DEF Traffic
  <1>4. CASE Chain(w)
    <2>1. /\ job[w] = none /\ job' = [job EXCEPT ![w] = cache[w]]
          /\ cache' = [cache EXCEPT ![w] = none]
          /\ UNCHANGED <<central, own, rest, known, done>>
      BY <1>4 DEF Chain, Goes, Holds, JobInv
    <2>2. CASE cache[w] = none
      BY <2>1, <2>2 DEF Traffic, Stays, In, TypeOK
    <2>3. CASE cache[w] # none
      <3>1. PICK t \in Task : t = cache[w]
        BY <2>3 DEF TypeOK
      <3>2. Moved(t, "cache", w, "job", w)
        BY <2>1, <3>1, Apart DEF Moved, In, TypeOK, Kind, Place, Thread
      <3>3. QED
        BY <3>2 DEF Traffic
    <2>4. QED
      BY <2>2, <2>3
  <1>5. ASSUME NEW S \in SUBSET Task, WorkerBatch(w, S) PROVE Traffic
    <2>1. /\ S \cap known = {} /\ known' = known \cup S /\ rest[w] = {}
          /\ UNCHANGED <<central, own, job, done>>
      BY <1>5 DEF WorkerBatch, New, Goes, JobInv
    <2>2. CASE UNCHANGED cache /\ rest' = [rest EXCEPT ![w] = S]
      <3>1. Arrived(S, w)
        BY <2>1, <2>2, Apart DEF Arrived, In, TypeOK, Kind, Place, Thread
      <3>2. QED
        BY <3>1 DEF Traffic, Thread
    <2>3. ASSUME NEW t \in S, cache[w] = none, cache' = [cache EXCEPT ![w] = t],
                 rest' = [rest EXCEPT ![w] = S \ {t}]
          PROVE  ArrivedButOne(S, t, w)
      BY <2>1, <2>3, Apart DEF ArrivedButOne, In, TypeOK, Kind, Place, Thread
    <2>4. QED
      BY <1>5, <2>2, <2>3 DEF WorkerBatch, Traffic
  <1>6. QED
    BY <1>1, <1>2, <1>3, <1>4, <1>5 DEF Runs

LEMMA ClientMoves ==
  ASSUME TypeOK, CallsInv, ClientActs
  PROVE  Traffic
  <1>1. ASSUME NEW S \in SUBSET Task, ClientBatch(S) PROVE Traffic
    <2>1. /\ S \cap known = {} /\ known' = known \cup S /\ rest[Client] = {}
          /\ rest' = [rest EXCEPT ![Client] = S]
          /\ UNCHANGED <<central, own, cache, job, done>>
      BY <1>1 DEF ClientBatch, New, ClientGoes, CallsInv
    <2>2. Arrived(S, Client)
      BY <2>1, Apart DEF Arrived, In, TypeOK, Kind, Place, Thread
    <2>3. QED
      BY <2>2 DEF Traffic, Thread
  <1>2. CASE ClientPush
    <2>1. PICK t \in rest[Client] : /\ central' = central \cup {t}
                                   /\ rest' = [rest EXCEPT ![Client] = @ \ {t}]
      BY <1>2 DEF ClientPush
    <2>2. t \in Task /\ UNCHANGED <<own, cache, job, known, done>>
      BY <1>2 DEF ClientPush, TypeOK
    <2>3. Moved(t, "rest", Client, "central", none)
      BY <2>1, <2>2, Apart DEF Moved, In, TypeOK, Kind, Place, Thread
    <2>4. QED
      BY <2>2, <2>3 DEF Traffic
  <1>3. CASE UNCHANGED taskVars
    BY <1>3 DEF taskVars, Traffic, Stays, In
  <1>4. QED
    BY <1>1, <1>2, <1>3 DEF ClientActs, ClientStep, Destroy, ClientLock, ClientCount,
                            ClientNotify, SetExit, NotifyAll, Join

LEMMA TrafficHolds ==
  TypeOK /\ BatchInv /\ PlacesInv /\ [Next]_vars => Traffic
  <1> SUFFICES ASSUME TypeOK, BatchInv, PlacesInv, [Next]_vars PROVE Traffic
    OBVIOUS
  <1>1. CASE UNCHANGED vars
    BY <1>1 DEF vars, taskVars, Traffic, Stays, In
  <1>2. QED
    BY <1>1, NextSplit, LooksMove, WaitsMove, RunsMove, ClientMoves DEF BatchInv

LEMMA PlacesKept == PlacesInv /\ Traffic => PlacesInv'
  <1> SUFFICES ASSUME PlacesInv, Traffic PROVE PlacesInv'
    OBVIOUS
  <1>1. /\ Worker \subseteq Thread /\ Thread \subseteq Place /\ none \in Place /\ Client \in Place
        /\ \A k \in {"rest", "own", "cache", "job", "central", "done"} : k \in Kind
    BY DEF Thread, Place, Kind
  <1>2. ASSUME NEW t \in Task, NEW w \in Worker,
               \/ Moved(t, "rest", w, "own", w)
               \/ Moved(t, "central", none, "job", w)
               \/ Moved(t, "cache", w, "job", w)
               \/ Moved(t, "job", w, "done", none)
               \/ \E v \in Worker : Moved(t, "own", v, "job", w)
        PROVE  PlacesInv'
    BY <1>1, <1>2, MovedKeeps
  <1>3. ASSUME NEW t \in Task, Moved(t, "rest", Client, "central", none) PROVE PlacesInv'
    BY <1>1, <1>3, MovedKeeps
  <1>4. ASSUME NEW S \in SUBSET Task, NEW x \in Thread, Arrived(S, x) PROVE PlacesInv'
    BY <1>1, <1>4, ArrivedKeeps
  <1>5. ASSUME NEW S \in SUBSET Task, NEW w \in Worker, NEW t \in S, ArrivedButOne(S, t, w)
        PROVE  PlacesInv'
    BY <1>1, <1>5, ArrivedButOneKeeps
  <1>6. QED
    BY <1>2, <1>3, <1>4, <1>5, StaysKeeps DEF Traffic
-----------------------------------------------------------------------------
(***************************************************************************)
(* The types.                                                              *)
(***************************************************************************)

\* What of TypeOK an action keeps by what it assigns.
Typed == /\ central \subseteq Task
         /\ own \in [Worker -> SUBSET Task]
         /\ cache \in [Worker -> Task \cup {none}]
         /\ job \in [Worker -> Task \cup {none}]
         /\ pc \in [Worker -> WorkerPC]
         /\ exit \in [Worker -> BOOLEAN]
         /\ rest \in [Worker \cup {Client} -> SUBSET Task]
         /\ lock \in Worker \cup {Client, none}
         /\ spinning \in BOOLEAN
         /\ phase \in [Worker -> Notifier!Phase]
         /\ cpc \in ClientPC
         /\ known \subseteq Task
         /\ done \subseteq Task

LEMMA TypedIs ==
  TypeOK <=> /\ Typed /\ done \subseteq known
             /\ idlers \in 0..Cardinality(Worker) /\ calls \in 0..Cardinality(Task)
  BY DEF TypeOK, Typed

LEMMA LooksTyped ==
  ASSUME Typed, NEW w \in Worker, Looks(w)
  PROVE  Typed'
  <1> USE DEF Typed, OnlyTakes, Holds, taskVars, clientVars
  <1>1. pc' \in [Worker -> WorkerPC]
    BY DEF Looks, Loop, PopOwn, Steal, StealNothing, Spin, StopSpinning, Goes, WorkerPC
  <1>2. CASE Loop(w)
    BY <1>1, <1>2 DEF Loop
  <1>3. CASE PopOwn(w)
    BY <1>1, <1>3 DEF PopOwn
  <1>4. CASE Steal(w)
    BY <1>1, <1>4 DEF Steal, StealTask
  <1>5. CASE StealNothing(w)
    BY <1>1, <1>5 DEF StealNothing
  <1>6. CASE Spin(w)
    BY <1>1, <1>6 DEF Spin, StealTask
  <1>7. CASE StopSpinning(w)
    BY <1>1, <1>7 DEF StopSpinning
  <1>8. QED
    BY <1>2, <1>3, <1>4, <1>5, <1>6, <1>7 DEF Looks

LEMMA WaitsTyped ==
  ASSUME Typed, NEW w \in Worker, Waits(w)
  PROVE  Typed'
  <1> USE DEF Typed, Holds, taskVars, clientVars
  <1>1. pc' \in [Worker -> WorkerPC]
    BY DEF Waits, Prepare, TryLock, Look, PopCentral, Cancel, CountIdler, Commit, Return,
           UncountIdler, Goes, WorkerPC
  <1>2. phase' \in [Worker -> Notifier!Phase]
    BY DEF Waits, Prepare, TryLock, Look, PopCentral, Cancel, CountIdler, Commit, Return,
           UncountIdler, Notifier!Prepare, Notifier!Cancel, Notifier!Commit,
           Notifier!Return, Notifier!Moves, Notifier!Phase
  <1>3. CASE Prepare(w) \/ Cancel(w) \/ Commit(w) \/ Return(w)
    BY <1>1, <1>2, <1>3 DEF Prepare, Cancel, Commit, Return
  <1>4. CASE TryLock(w) \/ Look(w)
    BY <1>1, <1>2, <1>4 DEF TryLock, Look
  <1>5. CASE PopCentral(w)
    BY <1>1, <1>2, <1>5 DEF PopCentral
  <1>6. CASE CountIdler(w) \/ UncountIdler(w)
    BY <1>1, <1>2, <1>6 DEF CountIdler, UncountIdler
  <1>7. QED
    BY <1>3, <1>4, <1>5, <1>6 DEF Waits

LEMMA NotifyTyped ==
  ASSUME phase \in [Worker -> Notifier!Phase], Notifier!NotifyOne \/ Notifier!NotifyAll
  PROVE  phase' \in [Worker -> Notifier!Phase]
  BY DEF Notifier!NotifyOne, Notifier!NotifyAll, Notifier!Waiting, Notifier!Phase

LEMMA RunsTyped ==
  ASSUME Typed, JobInv, NEW w \in Worker, Runs(w)
  PROVE  Typed'
  <1> USE DEF Typed, Holds, taskVars, clientVars
  <1>1. pc' \in [Worker -> WorkerPC]
    BY DEF Runs, WorkerPush, WorkerNotify, Finish, Chain, WorkerBatch, Goes, WorkerPC
  <1>2. CASE WorkerPush(w)
    BY <1>1, <1>2 DEF WorkerPush
  <1>3. CASE WorkerNotify(w)
    BY <1>1, <1>3, NotifyTyped DEF WorkerNotify
  <1>4. CASE Finish(w)
    <2>1. job[w] \in Task
      BY <1>4 DEF Finish, Goes, JobInv
    <2>2. QED
      BY <1>1, <1>4, <2>1 DEF Finish
  <1>5. CASE Chain(w)
    BY <1>1, <1>5 DEF Chain
  <1>6. ASSUME NEW S \in SUBSET Task, WorkerBatch(w, S) PROVE Typed'
    BY <1>1, <1>6 DEF WorkerBatch, New
  <1>7. QED
    BY <1>2, <1>3, <1>4, <1>5, <1>6 DEF Runs

LEMMA ClientTyped ==
  ASSUME Typed, ClientActs
  PROVE  Typed'
  <1> USE DEF Typed, taskVars, ClientGoes
  <1>1. cpc' \in ClientPC
    BY DEF ClientActs, ClientStep, ClientBatch, Destroy, ClientLock, ClientPush,
           ClientCount, ClientNotify, SetExit, NotifyAll, Join, ClientPC
  <1>2. ASSUME NEW S \in SUBSET Task, ClientBatch(S) PROVE Typed'
    BY <1>1, <1>2 DEF ClientBatch, New
  <1>3. CASE Destroy \/ ClientCount \/ Join
    BY <1>1, <1>3 DEF Destroy, ClientCount, Join
  <1>4. CASE ClientLock
    BY <1>1, <1>4 DEF ClientLock
  <1>5. CASE ClientPush
    BY <1>1, <1>5 DEF ClientPush
  <1>6. CASE ClientNotify \/ NotifyAll
    BY <1>1, <1>6, NotifyTyped DEF ClientNotify, NotifyAll
  <1>7. CASE SetExit
    BY <1>1, <1>7 DEF SetExit
  <1>8. QED
    BY <1>2, <1>3, <1>4, <1>5, <1>6, <1>7 DEF ClientActs, ClientStep

LEMMA TypedKept == Typed /\ JobInv /\ [Next]_vars => Typed'
  <1>1. CASE UNCHANGED vars
    BY <1>1 DEF vars, taskVars, clientVars, Typed
  <1>2. QED
    BY <1>1, NextSplit, LooksTyped, WaitsTyped, RunsTyped, ClientTyped
-----------------------------------------------------------------------------
(***************************************************************************)
(* The invariant.                                                          *)
(***************************************************************************)
LEMMA InitInv == Init => IInv
  <1> SUFFICES ASSUME Init PROVE IInv
    OBVIOUS
  <1>1. Typed /\ done \subseteq known
    BY DEF Init, Typed, WorkerPC, ClientPC, Notifier!Init, Notifier!Phase
  <1>2. TypeOK
    BY <1>1, Sizes, TypedIs DEF Init
  <1>3. PhaseInv /\ LockInv /\ CallsInv /\ ExitInv /\ JobInv
    BY Apart DEF Init, PhaseInv, LockInv, CallsInv, ExitInv, JobInv, Notifier!Init
  <1>4. IdlersInv
    <2>1. {w \in Worker : pc[w] \in {"commit", "woken"}} = {}
      BY DEF Init
    <2>2. QED
      BY <2>1, FS_EmptySet DEF Init, IdlersInv
  <1>5. PlacesInv
    BY Apart DEF Init, PlacesInv, In, Place, Thread
  <1>6. CentralIsWatched /\ NobodyRestsPastExit
    BY DEF Init, CentralIsWatched, NobodyRestsPastExit
  <1>7. QED
    BY <1>2, <1>3, <1>4, <1>5, <1>6 DEF IInv

LEMMA NextInv == IInv /\ [Next]_vars => IInv'
  <1> SUFFICES ASSUME IInv, [Next]_vars PROVE IInv'
    OBVIOUS
  <1>1. /\ TypeOK /\ Typed /\ ControlInv /\ IdlersInv /\ BatchInv /\ PlacesInv /\ RestInv
        /\ JobInv
    BY TypedIs DEF IInv, ControlInv, BatchInv, RestInv
  <1>2. ControlInv' /\ RestInv'
    BY <1>1, ControlKept, RestKept
  <1>3. IdlersInv' /\ idlers' \in 0..Cardinality(Worker)
    BY <1>1, IdlersKept
  <1>4. BatchInv' /\ calls' \in 0..Cardinality(Task)
    BY <1>1, BatchKept
  <1>5. PlacesInv'
    BY <1>1, TrafficHolds, PlacesKept
  <1>6. Typed'
    BY <1>1, TypedKept
  <1>7. done' \subseteq known'
    <2>1. ASSUME NEW t \in done' PROVE t \in known'
      <3>1. t \in Task /\ In(t, "done", none)'
        BY <1>6 DEF Typed, In
      <3>2. "done" \in Kind /\ none \in Place
        BY DEF Kind, Place
      <3>3. QED
        BY <1>5, <3>1, <3>2 DEF PlacesInv
    <2>2. QED
      BY <2>1
  <1>8. TypeOK'
    BY <1>3, <1>4, <1>6, <1>7, TypedIs DEF TypeOK, Typed
  <1>9. QED
    BY <1>2, <1>3, <1>4, <1>5, <1>8 DEF IInv, ControlInv, BatchInv, RestInv

\* The invariant that the theorems below rest on.
THEOREM Invariance == Safe => []IInv
  BY InitInv, NextInv, PTL DEF Safe

\* The variables have their types: the count of the idle workers, for one,
\* stays within the number of workers, and only tasks of the pool are done.
THEOREM TypeCorrect == Spec => []TypeOK
  <1>1. IInv => TypeOK
    BY DEF IInv
  <1>2. QED
    BY <1>1, Invariance, PTL DEF Spec

\* Whatever the interleaving of workers that go to sleep and of a client that
\* counts them late, a task in the central queue is never left to sleepers.
THEOREM CentralWatched == Spec => []CentralIsWatched
  <1>1. IInv => CentralIsWatched
    BY DEF IInv
  <1>2. QED
    BY <1>1, Invariance, PTL DEF Spec

\* Once the destructor has notified all, no worker rests or goes to rest.
THEOREM NobodyRests == Spec => []NobodyRestsPastExit
  <1>1. IInv => NobodyRestsPastExit
    BY DEF IInv
  <1>2. QED
    BY <1>1, Invariance, PTL DEF Spec
-----------------------------------------------------------------------------
(***************************************************************************)
(* Every step of the pool is a step of Executor, or leaves the stages of   *)
(* the tasks as they are.                                                  *)
(***************************************************************************)
LEMMA ExCardinality == ASSUME NEW S PROVE Ex!Cardinality(S) = Cardinality(S)
  BY DEF Ex!Cardinality, Cardinality

stages == [t \in Task |-> StageOf(t)]
closing == cpc \in {"lock exit", "exit", "notify all", "join", "gone"}

\* The stage of a task that is at a place of kind k.
StageAt == [k \in Kind |-> CASE k = "rest" -> "new"
                              [] k = "job"  -> "running"
                              [] k = "done" -> "done"
                              [] OTHER      -> "queued"]

StagesFit ==
  \A t \in Task :
    /\ t \notin known => StageOf(t) = "new"
    /\ \A k \in Kind, x \in Place : In(t, k, x) => StageOf(t) = StageAt[k]

LEMMA StagesFitPlaces == TypeOK /\ PlacesInv => StagesFit
  <1> SUFFICES ASSUME TypeOK, PlacesInv, NEW t \in Task
               PROVE  /\ t \notin known => StageOf(t) = "new"
                      /\ \A k \in Kind, x \in Place : In(t, k, x) => StageOf(t) = StageAt[k]
    BY DEF StagesFit
  <1>1. /\ (\E x \in DOMAIN rest : t \in rest[x]) <=> \E x \in Place : In(t, "rest", x)
        /\ (\E w \in Worker : job[w] = t) <=> \E x \in Place : In(t, "job", x)
        /\ t \in done <=> \E x \in Place : In(t, "done", x)
    BY Apart DEF TypeOK, In, Place, Thread
  <1>2. StageOf(t) = IF t \notin known \/ \E x \in Place : In(t, "rest", x) THEN "new"
                     ELSE IF \E x \in Place : In(t, "done", x) THEN "done"
                     ELSE IF \E x \in Place : In(t, "job", x) THEN "running"
                     ELSE "queued"
    BY <1>1 DEF StageOf
  <1>3. ASSUME NEW k \in Kind, NEW x \in Place, In(t, k, x) PROVE StageOf(t) = StageAt[k]
    <2>1. t \in known /\ \A l \in Kind : (\E y \in Place : In(t, l, y)) <=> l = k
      BY <1>3 DEF PlacesInv
    <2>2. QED
      BY <1>2, <2>1 DEF StageAt, Kind
  <1>4. QED
    BY <1>2, <1>3

Running == {t \in Task : StageOf(t) = "running"}

\* There are no more running tasks than workers.
FewRun == Cardinality(Running) <= Cardinality(Worker)

LEMMA FewRunAtOnce == TypeOK => FewRun
  <1> SUFFICES ASSUME TypeOK PROVE Cardinality(Running) <= Cardinality(Worker)
    BY DEF FewRun
  <1> DEFINE f == [t \in Running |-> CHOOSE w \in Worker : job[w] = t]
  <1>1. \A t \in Running : f[t] \in Worker /\ job[f[t]] = t
    BY DEF Running, StageOf
  <1>2. f \in Injection(Running, Worker)
    BY <1>1 DEF Injection, IsInjective
  <1>3. QED
    BY <1>2, Sizes, FS_Injection

LEMMA StagesStay ==
  ASSUME PlacesInv, StagesFit, StagesFit', Stays
  PROVE  stages' = stages
  <1>1. \A t \in Task : StageOf(t)' = StageOf(t)
    BY DEF StagesFit, Stays, PlacesInv
  <1>2. QED
    BY <1>1 DEF stages

LEMMA StagesArrived ==
  ASSUME PlacesInv, StagesFit, StagesFit', NEW S \in SUBSET Task, NEW x \in Place, Arrived(S, x)
  PROVE  stages' = stages
  <1>1. "rest" \in Kind /\ StageAt["rest"] = "new"
    BY DEF Kind, StageAt
  <1>2. \A t \in Task : StageOf(t)' = StageOf(t)
    BY <1>1 DEF StagesFit, Arrived, PlacesInv
  <1>3. QED
    BY <1>2 DEF stages

LEMMA StagesMoved ==
  ASSUME PlacesInv, StagesFit, StagesFit', NEW t \in Task, NEW k \in Kind, NEW x \in Place,
         NEW l \in Kind, NEW y \in Place, Moved(t, k, x, l, y)
  PROVE  /\ stages[t] = StageAt[k]
         /\ stages' = [stages EXCEPT ![t] = StageAt[l]]
  <1>1. StageOf(t) = StageAt[k] /\ StageOf(t)' = StageAt[l]
    BY DEF StagesFit, Moved
  <1>2. \A u \in Task : u # t => StageOf(u)' = StageOf(u)
    BY DEF StagesFit, Moved, PlacesInv
  <1>3. QED
    BY <1>1, <1>2 DEF stages

LEMMA StagesArrivedButOne ==
  ASSUME PlacesInv, StagesFit, StagesFit', NEW S \in SUBSET Task, NEW t \in S, NEW w \in Place,
         ArrivedButOne(S, t, w)
  PROVE  /\ stages[t] = "new"
         /\ stages' = [stages EXCEPT ![t] = "queued"]
  <1>1. /\ {"rest", "cache"} \subseteq Kind
        /\ StageAt["rest"] = "new" /\ StageAt["cache"] = "queued"
    BY DEF Kind, StageAt
  <1>2. StageOf(t) = "new" /\ StageOf(t)' = "queued"
    BY <1>1 DEF StagesFit, ArrivedButOne
  <1>3. \A u \in Task : u # t => StageOf(u)' = StageOf(u)
    BY <1>1 DEF StagesFit, ArrivedButOne, PlacesInv
  <1>4. QED
    BY <1>2, <1>3 DEF stages

\* What the traffic means to Executor, with closed unchanged.
LEMMA TrafficImplements ==
  ASSUME TypeOK, TypeOK', PlacesInv, StagesFit, StagesFit', Traffic
  PROVE  stages' = stages \/ \E t \in Task : Ex!Emplace(t) \/ Ex!Start(t) \/ Ex!Complete(t)
  <1> DEFINE Step(t) == Ex!Emplace(t) \/ Ex!Start(t) \/ Ex!Complete(t)
  <1>1. /\ Worker \subseteq Thread /\ Thread \subseteq Place /\ none \in Place /\ Client \in Place
        /\ \A k \in {"rest", "own", "cache", "job", "central", "done"} : k \in Kind
    BY DEF Thread, Place, Kind
  <1>2. /\ StageAt["rest"] = "new" /\ StageAt["job"] = "running" /\ StageAt["done"] = "done"
        /\ StageAt["own"] = "queued" /\ StageAt["central"] = "queued"
        /\ StageAt["cache"] = "queued"
    BY DEF StageAt, Kind
  <1>3. ASSUME NEW t \in Task, stages[t] = "new", stages' = [stages EXCEPT ![t] = "queued"]
        PROVE  Step(t)
    BY <1>3 DEF Ex!Emplace, stages
  <1>4. ASSUME NEW t \in Task, stages[t] = "queued", stages' = [stages EXCEPT ![t] = "running"]
        PROVE  Step(t)
    <2>1. Cardinality(Running') <= Cardinality(Worker)
      <3>1. FewRun'
        BY FewRunAtOnce, PTL
      <3>2. QED
        BY <3>1 DEF FewRun
    <2>2. Running' = Running \cup {t} /\ t \notin Running
      BY <1>4 DEF Running, stages
    <2>3. IsFiniteSet(Running)
      BY Sizes, FS_Subset DEF Running
    <2>4. Cardinality(Running) < Cardinality(Worker)
      <3>1. /\ Cardinality(Running \cup {t}) = Cardinality(Running) + 1
            /\ Cardinality(Running) \in Nat
        BY <2>2, <2>3, FS_AddElement, FS_CardinalityType
      <3>2. QED
        BY <2>1, <2>2, <3>1, Sizes
    <2>5. {u \in Task : stages[u] = "running"} = Running
      BY DEF stages, Running
    <2>6. Ex!Start(t)
      BY <1>4, <2>4, <2>5, ExCardinality DEF Ex!Start, Ex!Running, stages
    <2>7. QED
      BY <2>6
  <1>5. ASSUME NEW t \in Task, stages[t] = "running", stages' = [stages EXCEPT ![t] = "done"]
        PROVE  Step(t)
    BY <1>5 DEF Ex!Complete, stages
  <1> HIDE DEF Step
  <1>6. ASSUME NEW t \in Task, NEW w \in Worker,
               \/ Moved(t, "central", none, "job", w)
               \/ Moved(t, "cache", w, "job", w)
               \/ \E v \in Worker : Moved(t, "own", v, "job", w)
        PROVE  Step(t)
    BY <1>1, <1>2, <1>4, <1>6, StagesMoved
  <1>7. ASSUME NEW t \in Task, NEW w \in Worker, Moved(t, "job", w, "done", none)
        PROVE  Step(t)
    BY <1>1, <1>2, <1>5, <1>7, StagesMoved
  <1>8. ASSUME NEW t \in Task,
               \/ Moved(t, "rest", Client, "central", none)
               \/ \E w \in Worker : Moved(t, "rest", w, "own", w)
        PROVE  Step(t)
    BY <1>1, <1>2, <1>3, <1>8, StagesMoved
  <1>9. ASSUME NEW S \in SUBSET Task, NEW w \in Worker, NEW t \in S, ArrivedButOne(S, t, w)
        PROVE  Step(t)
    BY <1>1, <1>3, <1>9, StagesArrivedButOne
  <1>10. ASSUME NEW S \in SUBSET Task, NEW x \in Thread, Arrived(S, x) PROVE stages' = stages
    BY <1>1, <1>10, StagesArrived
  <1>11. stages' = stages \/ \E t \in Task : Step(t)
    BY <1>6, <1>7, <1>8, <1>9, <1>10, StagesStay DEF Traffic
  <1>12. QED
    BY <1>11 DEF Step

LEMMA RefineNext == IInv /\ [Next]_vars => [Ex!Next]_(Ex!vars)
  <1> SUFFICES ASSUME IInv, [Next]_vars PROVE [Ex!Next]_(Ex!vars)
    OBVIOUS
  <1>1. IInv' /\ TypeOK /\ PlacesInv /\ BatchInv /\ TypeOK' /\ PlacesInv'
    BY NextInv DEF IInv, BatchInv
  <1>2. StagesFit /\ StagesFit'
    BY <1>1, StagesFitPlaces, PTL
  <1>3. Traffic
    BY <1>1, TrafficHolds
  <1>4. CASE closing' <=> closing
    <2>1. closing' = closing
      <3>1. closing \in BOOLEAN /\ closing' \in BOOLEAN
        BY DEF closing
      <3>2. QED
        BY <1>4, <3>1
    <2>2. stages' = stages \/ \E t \in Task : Ex!Emplace(t) \/ Ex!Start(t) \/ Ex!Complete(t)
      BY <1>1, <1>2, <1>3, TrafficImplements
    <2>3. QED
      BY <2>1, <2>2 DEF Ex!Next, Ex!Work, Ex!vars, stages, closing
  <1>5. CASE Destroy
    <2>1. ~closing /\ closing'
      BY <1>5 DEF Destroy, ClientGoes, closing
    <2>2. Stays
      <3>1. UNCHANGED <<central, own, cache, job, rest, known, done>>
        BY <1>5 DEF Destroy, taskVars
      <3>2. QED
        BY <3>1 DEF Stays, In
    <2>3. stages' = stages
      BY <1>1, <1>2, <2>2, StagesStay
    <2>4. QED
      BY <2>1, <2>3 DEF Ex!Next, Ex!Close, stages, closing
  <1>6. (closing' <=> closing) \/ Destroy
    <2>1. ASSUME NEW w \in Worker, Looks(w) \/ Waits(w) \/ Runs(w) PROVE cpc' = cpc
      BY <2>1 DEF Looks, Loop, PopOwn, Steal, StealTask, StealNothing, Spin, StopSpinning,
         OnlyTakes, Waits, Prepare, TryLock, Look, PopCentral, Cancel, CountIdler, Commit,
         Return, UncountIdler, Runs, WorkerPush, WorkerNotify, Finish, Chain, WorkerBatch,
         clientVars
    <2>2. CASE UNCHANGED vars
      BY <2>2 DEF vars, clientVars, closing
    <2>3. ASSUME ClientActs, ~Destroy PROVE closing' <=> closing
      <3>1. \/ cpc' = cpc
            \/ cpc \in {"idle", "lock", "push", "count", "notify"}
                 /\ cpc' \in {"idle", "lock", "push", "count", "notify"}
            \/ closing /\ closing'
        BY <2>3 DEF ClientActs, ClientStep, ClientBatch, ClientLock, ClientPush,
           ClientCount, ClientNotify, SetExit, NotifyAll, Join, ClientGoes, closing
      <3>2. closing' <=> closing
        BY <3>1 DEF closing
      <3>3. QED
        BY <3>2
    <2>4. QED
      BY <2>1, <2>2, <2>3, NextSplit DEF closing
  <1>7. QED
    BY <1>4, <1>5, <1>6

LEMMA RefineInit == Init => Ex!Init
  BY DEF Init, Ex!Init, StageOf

\* The pool executes each task at most once, never one that was not put in,
\* and never more of them at a time than it has workers, wherever the tasks
\* are taken from: a queue, that of another worker, the central one, the cache.
THEOREM ImplementsExecutorSafely == Spec => Ex!Safe
  BY RefineInit, RefineNext, Invariance, PTL DEF Spec, Safe, Ex!Safe
=============================================================================
