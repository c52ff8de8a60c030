--------------------------- MODULE SessionProofs ----------------------------
(***************************************************************************)
(* Proofs about Session, for every pin graph and every set of clients and  *)
(* tasks: the accounting of tasks, on which the end of a session depends,  *)
(* and the condition variable of join.                                     *)
(***************************************************************************)
EXTENDS Session, FiniteSetTheorems, SequenceTheorems, TLAPS

USE SessionAssumption DEF SessionAssumption

\* Where a task is tells how far the pool has brought it.
PhasesAgree ==
  \A t \in Task : /\ pc[t] = "idle" <=> stage[t] \in {"new", "queued"}
                  /\ pc[t] \in {"thrown", "done"} <=> stage[t] = "done"

\* An actor within Pin::push has a pin to visit.
Visiting == \A a \in Actor : pc[a] \in PushPC => stack[a] # <<>>

IInv == TypeOK /\ PhasesAgree /\ Visiting /\ TaskAccounting

USE DEF Actor, PushPC, ClientPC, TaskPC

\* Three finite sets make up the count.
LEMMA Sets ==
  /\ IsFiniteSet(Live) /\ IsFiniteSet(Thrown) /\ IsFiniteSet(Emplacing)
  /\ Cardinality(Live) \in Nat /\ Cardinality(Thrown) \in Nat
  /\ Cardinality(Emplacing) \in Nat
<1>1. IsFiniteSet(Actor)
  BY FS_Union
<1> QED BY <1>1, FS_Subset, FS_CardinalityType DEF Live, Thrown, Emplacing

\* A step of Pin::push moves on through pins and program counters of Pin::push
\* and its callers, and takes no task from one phase to another.
LEMMA VisitType ==
  ASSUME TypeOK, Visiting, NEW a \in Actor, pc[a] \in PushPC,
         NEW s \in Seq(Pin), Visit(a, s)
  PROVE  /\ stack' \in [Actor -> Seq(Pin)]
         /\ pc' \in [Actor -> ClientPC \cup TaskPC]
         /\ \A c \in Client : pc'[c] \in ClientPC
         /\ \A t \in Task : pc'[t] \in TaskPC
         /\ Visiting'
         /\ \A b \in Actor : pc'[b] = "emplace" <=> pc[b] = "emplace" /\ b # a
         /\ \A t \in Task, p \in {"idle", "thrown", "done", "trigger", "finish"} :
              pc'[t] = p <=> pc[t] = p
<1>1. /\ stack' = [stack EXCEPT ![a] = s]
      /\ pc' = [pc EXCEPT ![a] = Resume(a, s)]
  BY DEF Visit
<1>2. /\ Resume(a, s) \in {"push", IF a \in Client THEN "publish" ELSE "body"}
      /\ Resume(a, s) = "push" => s # <<>>
  BY DEF Resume
<1>3. /\ stack' \in [Actor -> Seq(Pin)]
      /\ pc' \in [Actor -> ClientPC \cup TaskPC]
  BY <1>1, <1>2 DEF TypeOK
<1>4. \A b \in Actor : /\ pc'[b] = IF b = a THEN Resume(a, s) ELSE pc[b]
                       /\ stack'[b] = IF b = a THEN s ELSE stack[b]
  BY <1>1 DEF TypeOK
<1>5. \A c \in Client : pc'[c] \in ClientPC
  BY <1>2, <1>4 DEF TypeOK
<1>6. \A t \in Task : pc'[t] \in TaskPC
  BY <1>2, <1>4 DEF TypeOK
<1>7. Visiting'
  BY <1>2, <1>4 DEF Visiting
<1>8. \A b \in Actor : pc'[b] = "emplace" <=> pc[b] = "emplace" /\ b # a
  BY <1>2, <1>4
<1>9. \A t \in Task, p \in {"idle", "thrown", "done", "trigger", "finish"} :
        pc'[t] = p <=> pc[t] = p
  BY <1>2, <1>4
<1> QED BY <1>3, <1>5, <1>6, <1>7, <1>8, <1>9

LEMMA Expand ==
  ASSUME TypeOK, Visiting, NEW a \in Actor, pc[a] \in PushPC
  PROVE  /\ Head(stack[a]) \in Pin
         /\ Tail(stack[a]) \in Seq(Pin)
         /\ Out[Head(stack[a])] \o Tail(stack[a]) \in Seq(Pin)
<1>1. stack[a] \in Seq(Pin) /\ stack[a] # <<>>
  BY DEF TypeOK, Visiting
<1>2. Head(stack[a]) \in Pin /\ Tail(stack[a]) \in Seq(Pin)
  BY <1>1, HeadTailProperties
<1> QED BY <1>2, ConcatProperties
-----------------------------------------------------------------------------
LEMMA InvInit == Init => IInv
<1> SUFFICES ASSUME Init PROVE IInv
  OBVIOUS
<1>1. Live = {} /\ Thrown = {} /\ Emplacing = {}
  BY DEF Init, Live, Thrown, Emplacing
<1>2. TaskAccounting
  BY <1>1, FS_EmptySet DEF Init, TaskAccounting
<1>3. pc \in [Actor -> ClientPC \cup TaskPC] /\ stack \in [Actor -> Seq(Pin)]
  BY DEF Init
<1>4. stage \in [Task -> Pool!Stage] /\ pin \in [Task -> Pin]
  BY DEF Init, Pool!Stage
<1>5. TypeOK
  BY <1>3, <1>4 DEF Init, TypeOK, Status
<1> QED BY <1>2, <1>5 DEF Init, IInv, PhasesAgree, Visiting

\* A step that changes none of the sets, nor the count, keeps the accounting.
LEMMA SameAccounting ==
  ASSUME TaskAccounting, Live' = Live, Thrown' = Thrown, Emplacing' = Emplacing,
         taskRemain' = taskRemain
  PROVE  TaskAccounting'
BY DEF TaskAccounting

LEMMA PushInv == ASSUME IInv, NEW a \in Actor, PushStep(a) PROVE IInv'
<1> USE DEF IInv
<1>1. CASE PushRefused(a)
  <2>1. Visit(a, Tail(stack[a])) /\ Tail(stack[a]) \in Seq(Pin)
    BY <1>1, Expand DEF PushRefused
  <2>2. TypeOK' /\ Visiting'
    BY <1>1, <2>1, VisitType DEF PushRefused, TypeOK
  <2>3. PhasesAgree'
    BY <1>1, <2>1, VisitType DEF PushRefused, PhasesAgree
  <2>4. Live' = Live /\ Thrown' = Thrown /\ Emplacing' = Emplacing
    BY <1>1, <2>1, VisitType DEF PushRefused, Live, Thrown, Emplacing
  <2> QED BY <1>1, <2>2, <2>3, <2>4, SameAccounting DEF PushRefused
<1>2. CASE PushRelay(a)
  <2> DEFINE s == Out[Head(stack[a])] \o Tail(stack[a])
  <2>1. Visit(a, s) /\ s \in Seq(Pin)
    BY <1>2, Expand DEF PushRelay
  <2> HIDE DEF s
  <2>2. TypeOK' /\ Visiting'
    BY <1>2, <2>1, VisitType DEF PushRelay, TypeOK
  <2>3. PhasesAgree'
    BY <1>2, <2>1, VisitType DEF PushRelay, PhasesAgree
  <2>4. Live' = Live /\ Thrown' = Thrown /\ Emplacing' = Emplacing
    BY <1>2, <2>1, VisitType DEF PushRelay, Live, Thrown, Emplacing
  <2> QED BY <1>2, <2>2, <2>3, <2>4, SameAccounting DEF PushRelay
<1>3. CASE PushAdmit(a)
  <2>1. TypeOK' /\ PhasesAgree' /\ Visiting'
    BY <1>3 DEF PushAdmit, TypeOK, PhasesAgree, Visiting
  <2>2. Live' = Live /\ Thrown' = Thrown /\ Emplacing' = Emplacing
    BY <1>3 DEF PushAdmit, Live, Thrown, Emplacing, TypeOK
  <2> QED BY <1>3, <2>1, <2>2, SameAccounting DEF PushAdmit
<1>4. CASE IncreaseTask(a)
  <2>1. TypeOK' /\ PhasesAgree' /\ Visiting'
    BY <1>4 DEF IncreaseTask, TypeOK, PhasesAgree, Visiting
  <2>2. /\ Live' = Live /\ Thrown' = Thrown
        /\ Emplacing' = Emplacing \cup {a} /\ a \notin Emplacing
    BY <1>4 DEF IncreaseTask, Live, Thrown, Emplacing, TypeOK
  <2>3. Cardinality(Emplacing') = Cardinality(Emplacing) + 1
    BY <2>2, Sets, FS_AddElement
  <2>4. TaskAccounting'
    BY <1>4, <2>2, <2>3, Sets DEF IncreaseTask, TaskAccounting
  <2> QED BY <2>1, <2>4
<1>5. CASE EmplaceTask(a)
  <2> DEFINE s == Out[Head(stack[a])] \o Tail(stack[a])
  <2>1. PICK t \in Task : Pool!Emplace(t) /\ pin' = [pin EXCEPT ![t] = Head(stack[a])]
    BY <1>5 DEF EmplaceTask
  <2>2. Visit(a, s) /\ s \in Seq(Pin) /\ Head(stack[a]) \in Pin
    BY <1>5, Expand DEF EmplaceTask
  <2>3. stage[t] = "new" /\ stage' = [stage EXCEPT ![t] = "queued"]
    BY <2>1 DEF Pool!Emplace
  <2>4. pc[t] = "idle" /\ t # a
    BY <1>5, <2>3 DEF EmplaceTask, PhasesAgree
  <2> HIDE DEF s
  <2>5. TypeOK' /\ Visiting'
    BY <1>5, <2>1, <2>2, <2>3, VisitType DEF EmplaceTask, TypeOK, Pool!Stage
  <2>6. PhasesAgree'
    BY <1>5, <2>2, <2>3, <2>4, VisitType DEF EmplaceTask, PhasesAgree, TypeOK
  <2>7. Live' = Live \cup {t} /\ t \notin Live /\ Thrown' = Thrown
    BY <1>5, <2>2, <2>3, <2>4, VisitType DEF EmplaceTask, Live, Thrown, TypeOK
  <2>8. Emplacing' = Emplacing \ {a} /\ a \in Emplacing
    BY <1>5, <2>2, VisitType DEF EmplaceTask, Emplacing
  <2>9. /\ Cardinality(Live') = Cardinality(Live) + 1
        /\ Cardinality(Emplacing') = Cardinality(Emplacing) - 1
    BY <2>7, <2>8, Sets, FS_AddElement, FS_RemoveElement
  <2>10. TaskAccounting'
    BY <1>5, <2>7, <2>9, Sets DEF EmplaceTask, TaskAccounting
  <2> QED BY <2>5, <2>6, <2>10
<1> QED BY <1>1, <1>2, <1>3, <1>4, <1>5 DEF PushStep

\* notify_all moves nobody but clients, and those from one state of the wait
\* to the other.
LEMMA NotifyType ==
  ASSUME TypeOK, NEW a \in Actor, NEW q \in ClientPC \cup TaskPC, NotifyAll(a, q),
         a \in Client => q \in ClientPC, a \in Task => q \in TaskPC
  PROVE  /\ pc' \in [Actor -> ClientPC \cup TaskPC]
         /\ \A c \in Client : pc'[c] \in ClientPC
         /\ \A t \in Task : pc'[t] \in TaskPC
         /\ pc'[a] = q
         /\ \A b \in Actor : b # a => \/ pc'[b] = pc[b] /\ pc[b] # "waiting"
                                      \/ /\ b \in Client /\ pc[b] = "waiting"
                                         /\ pc'[b] = "woken"
BY DEF NotifyAll, Woken, TypeOK

LEMMA ReturnType ==
  ASSUME TypeOK, NEW c \in Client, calls[c] # <<>>, Return(c)
  PROVE  calls' \in [Client -> Seq(Call)]
<1>1. Tail(calls[c]) \in Seq(Call)
  BY HeadTailProperties DEF TypeOK
<1> QED BY <1>1 DEF Return, TypeOK

\* A client that is inside a call has that call at the head of its script.
InCall == \A c \in Client : pc[c] # "call" => calls[c] # <<>>

LEMMA ClientInv ==
  ASSUME IInv, InCall, NEW c \in Client, ClientStep(c) \/ SpuriousWakeup(c)
  PROVE  IInv'
<1> USE DEF IInv
<1>1. CASE Submit(c)
  <2>1. <<Entry>> \in Seq(Pin) /\ <<Entry>> # <<>>
    OBVIOUS
  <2>2. TypeOK' /\ PhasesAgree' /\ Visiting'
    BY <1>1, <2>1 DEF Submit, Calling, TypeOK, PhasesAgree, Visiting
  <2>3. Live' = Live /\ Thrown' = Thrown /\ Emplacing' = Emplacing
    BY <1>1 DEF Submit, Calling, Live, Thrown, Emplacing, TypeOK
  <2> QED BY <1>1, <2>2, <2>3, SameAccounting DEF Submit
<1>2. CASE Publish(c) \/ Stop(c)
  <2>1. /\ NotifyAll(c, "call") /\ Return(c) /\ calls[c] # <<>>
        /\ pc[c] \in {"call", "publish"}
        /\ UNCHANGED <<taskRemain, fired, stack, stage, pin, sends>>
        /\ status' \in Status
    BY <1>2 DEF Publish, Stop, Calling, InCall, Status
  <2>2. TypeOK'
    BY <2>1, NotifyType, ReturnType DEF TypeOK
  <2>3. PhasesAgree' /\ Visiting'
    <3>1. \A t \in Task : pc'[t] = pc[t]
      BY <2>1, NotifyType
    <3>2. \A b \in Actor : pc'[b] \in PushPC => pc[b] = pc'[b]
      BY <2>1, NotifyType
    <3> QED BY <2>1, <3>1, <3>2 DEF PhasesAgree, Visiting
  <2>4. Live' = Live /\ Thrown' = Thrown /\ Emplacing' = Emplacing
    <3>1. \A t \in Task : pc'[t] = pc[t]
      BY <2>1, NotifyType
    <3>2. \A b \in Actor : pc'[b] = "emplace" <=> pc[b] = "emplace"
      <4>1. /\ pc'[c] = "call"
            /\ \A b \in Actor : b # c => \/ pc'[b] = pc[b]
                                         \/ pc[b] = "waiting" /\ pc'[b] = "woken"
        BY <2>1, NotifyType
      <4> QED BY <2>1, <4>1
    <3> QED BY <2>1, <3>1, <3>2 DEF Live, Thrown, Emplacing
  <2> QED BY <2>1, <2>2, <2>3, <2>4, SameAccounting
<1>3. CASE Join(c) \/ Retest(c) \/ SpuriousWakeup(c)
  <2>1. /\ \E q \in {"call", "waiting", "woken"} : pc' = [pc EXCEPT ![c] = q]
        /\ calls' = calls \/ (Return(c) /\ calls[c] # <<>>)
        /\ pc[c] \in {"call", "waiting", "woken"}
        /\ UNCHANGED <<status, taskRemain, fired, stack, stage, pin, sends>>
    BY <1>3 DEF Join, Retest, SpuriousWakeup, Test, Calling, InCall
  <2>2. TypeOK'
    BY <2>1, ReturnType DEF TypeOK
  <2>3. PhasesAgree' /\ Visiting'
    BY <2>1 DEF PhasesAgree, Visiting, TypeOK
  <2>4. Live' = Live /\ Thrown' = Thrown /\ Emplacing' = Emplacing
    BY <2>1 DEF Live, Thrown, Emplacing, TypeOK
  <2> QED BY <2>1, <2>2, <2>3, <2>4, SameAccounting
<1> QED BY <1>1, <1>2, <1>3 DEF ClientStep

LEMMA TaskInv ==
  ASSUME IInv, NEW t \in Task,
         StartTask(t) \/ ContextPush(t) \/ ProcessThrows(t) \/ TaskStep(t)
  PROVE  IInv'
<1> USE DEF IInv
<1>1. CASE StartTask(t)
  <2>1. stage[t] = "queued" /\ stage' = [stage EXCEPT ![t] = "running"]
    BY <1>1 DEF StartTask, Pool!Start
  <2>2. TypeOK' /\ PhasesAgree' /\ Visiting'
    BY <1>1, <2>1 DEF StartTask, TypeOK, Pool!Stage, PhasesAgree, Visiting
  <2>3. Live' = Live /\ Thrown' = Thrown /\ Emplacing' = Emplacing
    BY <1>1, <2>1 DEF StartTask, Live, Thrown, Emplacing, TypeOK, PhasesAgree
  <2> QED BY <1>1, <2>2, <2>3, SameAccounting DEF StartTask
<1>2. CASE ContextPush(t)
  <2>1. PICK o \in OutPins[pin[t]] : stack' = [stack EXCEPT ![t] = <<o>>]
    BY <1>2 DEF ContextPush
  <2>2. <<o>> \in Seq(Pin) /\ <<o>> # <<>>
    BY <2>1 DEF TypeOK
  <2>3. sends' \in 0..MaxSends
    BY <1>2 DEF ContextPush, TypeOK
  <2>4. TypeOK' /\ PhasesAgree' /\ Visiting'
    BY <1>2, <2>1, <2>2, <2>3 DEF ContextPush, TypeOK, PhasesAgree, Visiting
  <2>5. Live' = Live /\ Thrown' = Thrown /\ Emplacing' = Emplacing
    BY <1>2 DEF ContextPush, Live, Thrown, Emplacing, TypeOK
  <2> QED BY <1>2, <2>4, <2>5, SameAccounting DEF ContextPush
<1>3. CASE ProcessThrows(t)
  <2>1. /\ stage[t] = "running" /\ stage' = [stage EXCEPT ![t] = "done"]
        /\ pc[t] = "body" /\ pc' = [pc EXCEPT ![t] = "thrown"]
    BY <1>3 DEF ProcessThrows, Pool!Complete
  <2>2. TypeOK' /\ PhasesAgree' /\ Visiting'
    BY <1>3, <2>1 DEF ProcessThrows, TypeOK, Pool!Stage, PhasesAgree, Visiting
  <2>3. /\ Live' = Live \ {t} /\ t \in Live
        /\ Thrown' = Thrown \cup {t} /\ t \notin Thrown
        /\ Emplacing' = Emplacing
    BY <1>3, <2>1 DEF ProcessThrows, Live, Thrown, Emplacing, TypeOK
  <2>4. /\ Cardinality(Live') = Cardinality(Live) - 1
        /\ Cardinality(Thrown') = Cardinality(Thrown) + 1
    BY <2>3, Sets, FS_AddElement, FS_RemoveElement
  <2>5. TaskAccounting'
    BY <1>3, <2>3, <2>4, Sets DEF ProcessThrows, TaskAccounting
  <2> QED BY <2>2, <2>5
<1>4. CASE Decrease(t)
  <2>1. stage[t] = "running" /\ t \in Live
    BY <1>4 DEF Decrease, PhasesAgree, TypeOK, Pool!Stage, Live
  <2>2. \/ pc' = [pc EXCEPT ![t] = "trigger"] /\ stage' = stage
        \/ pc' = [pc EXCEPT ![t] = "done"] /\ stage' = [stage EXCEPT ![t] = "done"]
    BY <1>4 DEF Decrease, Pool!Complete
  <2>3. Live' = Live \ {t} /\ Thrown' = Thrown /\ Emplacing' = Emplacing
    BY <1>4, <2>2 DEF Decrease, Live, Thrown, Emplacing, TypeOK
  <2>4. /\ Cardinality(Live') = Cardinality(Live) - 1
        /\ Cardinality(Live) > 0
    <3>1. IsFiniteSet(Live \ {t}) /\ Cardinality(Live \ {t}) = Cardinality(Live) - 1
      BY <2>1, Sets, FS_RemoveElement
    <3>2. Cardinality(Live \ {t}) \in Nat
      BY <3>1, FS_CardinalityType
    <3> QED BY <2>3, <3>1, <3>2, Sets
  <2>5. TaskAccounting' /\ taskRemain' \in Nat
    BY <1>4, <2>3, <2>4, Sets DEF Decrease, TaskAccounting
  <2>6. TypeOK'
    BY <1>4, <2>2, <2>5 DEF Decrease, TypeOK, Pool!Stage
  <2>7. PhasesAgree' /\ Visiting'
    BY <1>4, <2>1, <2>2 DEF Decrease, PhasesAgree, Visiting, TypeOK
  <2> QED BY <2>5, <2>6, <2>7
<1>5. CASE ProcessReturns(t) \/ TriggerOnFinish(t)
  <2>1. /\ \/ pc[t] = "body" /\ pc' = [pc EXCEPT ![t] = "decrease"]
           \/ pc[t] = "trigger" /\ pc' = [pc EXCEPT ![t] = "finish"]
        /\ fired' \in Nat
        /\ UNCHANGED <<status, taskRemain, calls, stack, stage, pin, sends>>
    BY <1>5 DEF ProcessReturns, TriggerOnFinish, TypeOK
  <2>2. TypeOK' /\ PhasesAgree' /\ Visiting'
    BY <2>1 DEF TypeOK, PhasesAgree, Visiting
  <2>3. Live' = Live /\ Thrown' = Thrown /\ Emplacing' = Emplacing
    BY <2>1 DEF Live, Thrown, Emplacing, TypeOK
  <2> QED BY <2>1, <2>2, <2>3, SameAccounting
<1>6. CASE Finish(t)
  <2>1. stage[t] = "running" /\ stage' = [stage EXCEPT ![t] = "done"]
    BY <1>6 DEF Finish, Pool!Complete
  <2>2. NotifyAll(t, "done") /\ pc[t] = "finish"
    BY <1>6 DEF Finish
  <2>3. TypeOK'
    BY <1>6, <2>1, <2>2, NotifyType DEF Finish, TypeOK, Status, Pool!Stage
  <2>4. pc'[t] = "done" /\ \A u \in Task : u # t => pc'[u] = pc[u]
    BY <2>2, NotifyType
  <2>5. \A b \in Actor, p \in PushPC : pc'[b] = p <=> pc[b] = p
    BY <2>2, NotifyType
  <2>6. PhasesAgree' /\ Visiting'
    <3>1. PhasesAgree'
      BY <2>1, <2>2, <2>4 DEF PhasesAgree, TypeOK
    <3>2. Visiting'
      BY <1>6, <2>5 DEF Finish, Visiting
    <3> QED BY <3>1, <3>2
  <2>7. Live' = Live /\ Thrown' = Thrown /\ Emplacing' = Emplacing
    BY <2>1, <2>2, <2>4, <2>5 DEF Live, Thrown, Emplacing, TypeOK
  <2> QED BY <1>6, <2>3, <2>6, <2>7, SameAccounting DEF Finish
<1> QED BY <1>1, <1>2, <1>3, <1>4, <1>5, <1>6 DEF TaskStep

LEMMA InCallNext ==
  ASSUME IInv, InCall, [Next]_vars PROVE InCall'
<1> USE DEF IInv
<1>1. ASSUME NEW a \in Actor, PushStep(a) PROVE InCall'
  <2>1. calls' = calls
    BY <1>1 DEF PushStep, PushRefused, PushRelay, PushAdmit, IncreaseTask, EmplaceTask
  <2>2. pc[a] # "call" /\ \A b \in Actor : b # a => pc'[b] = pc[b]
    BY <1>1 DEF PushStep, PushRefused, PushRelay, PushAdmit, IncreaseTask,
                EmplaceTask, Visit, TypeOK
  <2> QED BY <2>1, <2>2 DEF InCall
<1>2. ASSUME NEW c \in Client, Submit(c) \/ Test(c) \/ SpuriousWakeup(c),
             pc[c] = "call" => calls[c] # <<>>
      PROVE  InCall'
  <2>1. calls[c] # <<>>
    BY <1>2 DEF InCall
  <2>2. \A b \in Client : b # c => pc'[b] = pc[b] /\ calls'[b] = calls[b]
    BY <1>2 DEF Submit, Test, SpuriousWakeup, Return, TypeOK
  <2>3. pc'[c] = "call" \/ calls'[c] = calls[c]
    BY <1>2 DEF Submit, Test, SpuriousWakeup, TypeOK
  <2> QED BY <2>1, <2>2, <2>3 DEF InCall
<1>3. ASSUME NEW c \in Client, Publish(c) \/ Stop(c) PROVE InCall'
  <2>1. NotifyAll(c, "call") /\ Return(c)
    BY <1>3 DEF Publish, Stop
  <2>2. \A b \in Client : /\ b # c => calls'[b] = calls[b]
                          /\ pc'[b] # "call" => pc[b] # "call" /\ b # c
    BY <2>1 DEF NotifyAll, Return, Woken, TypeOK
  <2> QED BY <2>2 DEF InCall
<1>4. ASSUME NEW t \in Task,
             StartTask(t) \/ ContextPush(t) \/ ProcessThrows(t) \/ TaskStep(t)
      PROVE  InCall'
  <2>1. calls' = calls
    BY <1>4 DEF StartTask, ContextPush, ProcessThrows, TaskStep, ProcessReturns,
                Decrease, TriggerOnFinish, Finish
  <2>2. \A b \in Client : pc'[b] # "call" => pc[b] # "call"
    BY <1>4 DEF StartTask, ContextPush, ProcessThrows, TaskStep, ProcessReturns,
                Decrease, TriggerOnFinish, Finish, NotifyAll, Woken, TypeOK
  <2> QED BY <2>1, <2>2 DEF InCall
<1>5. CASE UNCHANGED vars
  BY <1>5 DEF InCall, vars
<1> QED BY <1>1, <1>2, <1>3, <1>4, <1>5
        DEF Next, ClientStep, Submit, Join, Retest, SpuriousWakeup, Calling

LEMMA InvNext == IInv /\ InCall /\ [Next]_vars => IInv' /\ InCall'
<1> SUFFICES ASSUME IInv, InCall, [Next]_vars PROVE IInv'
  BY InCallNext
<1>1. CASE UNCHANGED vars
  BY <1>1 DEF IInv, TypeOK, PhasesAgree, Visiting, TaskAccounting, Live, Thrown,
              Emplacing, vars
<1> QED BY <1>1, PushInv, ClientInv, TaskInv DEF Next

LEMMA InCallInit == Init => InCall
BY DEF Init, InCall

\* Every reachable state of a session is well typed; in particular
\* _task_remain never wraps below zero.
THEOREM TypeCorrect == Spec => []TypeOK
BY InvInit, InCallInit, InvNext, PTL DEF Spec, Safe, IInv

\* The session counts exactly the tasks that are under way, for every pin
\* graph and whatever its clients do.
THEOREM CountIsExact == Spec => []TaskAccounting
BY InvInit, InCallInit, InvNext, PTL DEF Spec, Safe, IInv
-----------------------------------------------------------------------------
LEMMA NoLostWakeupNext ==
  ASSUME TypeOK, NoLostWakeup, [Next]_vars PROVE NoLostWakeup'
<1>1. ASSUME NEW a \in Actor, PushStep(a) PROVE NoLostWakeup'
  <2>1. status' = status /\ \A b \in Actor : pc'[b] = "waiting" => pc[b] = "waiting"
    BY <1>1 DEF PushStep, PushRefused, PushRelay, PushAdmit, IncreaseTask,
                EmplaceTask, Visit, Resume, TypeOK
  <2> QED BY <2>1 DEF NoLostWakeup
<1>2. ASSUME NEW c \in Client, Submit(c) \/ SpuriousWakeup(c) PROVE NoLostWakeup'
  BY <1>2 DEF Submit, SpuriousWakeup, NoLostWakeup, TypeOK
<1>3. ASSUME NEW c \in Client, Test(c) PROVE NoLostWakeup'
  BY <1>3 DEF Test, NoLostWakeup, TypeOK
<1>4. ASSUME NEW c \in Client, Publish(c) \/ Stop(c) PROVE NoLostWakeup'
  BY <1>4 DEF Publish, Stop, NoLostWakeup
<1>5. ASSUME NEW t \in Task, Finish(t) PROVE NoLostWakeup'
  BY <1>5 DEF Finish, NotifyAll, Woken, NoLostWakeup
<1>6. ASSUME NEW t \in Task, \/ StartTask(t) \/ ContextPush(t) \/ ProcessThrows(t)
                             \/ ProcessReturns(t) \/ Decrease(t) \/ TriggerOnFinish(t)
      PROVE  NoLostWakeup'
  BY <1>6 DEF StartTask, ContextPush, ProcessThrows, ProcessReturns, Decrease,
              TriggerOnFinish, NoLostWakeup, TypeOK
<1>7. CASE UNCHANGED vars
  BY <1>7 DEF vars, NoLostWakeup
<1> QED BY <1>1, <1>2, <1>3, <1>4, <1>5, <1>6, <1>7
        DEF Next, ClientStep, Join, Retest, TaskStep

\* No client sleeps in join while the status is Finish.
THEOREM NoSleepPastFinish == Spec => []NoLostWakeup
<1>1. Init => NoLostWakeup
  BY DEF Init, NoLostWakeup
<1>2. IInv => TypeOK
  BY DEF IInv
<1> QED BY <1>1, <1>2, InvInit, InCallInit, InvNext, NoLostWakeupNext, PTL
        DEF Spec, Safe

\* The task that will publish Finish has been through the callback.
CallbackDone == \A t \in Task : pc[t] = "finish" => fired > 0

LEMMA CallbackNext ==
  ASSUME TypeOK, CallbackBeforeFinish, CallbackDone, [Next]_vars
  PROVE  CallbackBeforeFinish' /\ CallbackDone'
<1>1. ASSUME NEW t \in Task, TriggerOnFinish(t)
      PROVE  CallbackBeforeFinish' /\ CallbackDone'
  BY <1>1 DEF TriggerOnFinish, CallbackBeforeFinish, CallbackDone, TypeOK
<1>2. ASSUME NEW t \in Task, Finish(t) PROVE CallbackBeforeFinish' /\ CallbackDone'
  BY <1>2 DEF Finish, NotifyAll, Woken, CallbackBeforeFinish, CallbackDone, TypeOK
<1>3. ASSUME fired' = fired, status' = status \/ status' # "Finish",
             \A t \in Task : pc'[t] = "finish" => pc[t] = "finish"
      PROVE  CallbackBeforeFinish' /\ CallbackDone'
  BY <1>3 DEF CallbackBeforeFinish, CallbackDone
<1>4. ASSUME NEW a \in Actor, PushStep(a) PROVE CallbackBeforeFinish' /\ CallbackDone'
  <2>1. /\ fired' = fired /\ status' = status
        /\ \A t \in Task : pc'[t] = "finish" => pc[t] = "finish"
    BY <1>4 DEF PushStep, PushRefused, PushRelay, PushAdmit, IncreaseTask,
                EmplaceTask, Visit, Resume, TypeOK
  <2> QED BY <1>3, <2>1
<1>5. ASSUME NEW c \in Client, ClientStep(c) \/ SpuriousWakeup(c)
      PROVE  CallbackBeforeFinish' /\ CallbackDone'
  <2>1. /\ fired' = fired /\ (status' = status \/ status' # "Finish")
        /\ \A t \in Task : pc'[t] = "finish" => pc[t] = "finish"
    BY <1>5 DEF ClientStep, Submit, Publish, Stop, Join, Retest, Test,
                SpuriousWakeup, NotifyAll, Woken, TypeOK
  <2> QED BY <1>3, <2>1
<1>6. ASSUME NEW t \in Task, \/ StartTask(t) \/ ContextPush(t) \/ ProcessThrows(t)
                             \/ ProcessReturns(t) \/ Decrease(t)
      PROVE  CallbackBeforeFinish' /\ CallbackDone'
  <2>1. /\ fired' = fired /\ status' = status
        /\ \A u \in Task : pc'[u] = "finish" => pc[u] = "finish"
    BY <1>6 DEF StartTask, ContextPush, ProcessThrows, ProcessReturns, Decrease, TypeOK
  <2> QED BY <1>3, <2>1
<1>7. CASE UNCHANGED vars
  BY <1>3, <1>7 DEF vars
<1> QED BY <1>1, <1>2, <1>4, <1>5, <1>6, <1>7 DEF Next, TaskStep

\* Finish is never published before an onFinish callback has returned.
THEOREM CallbackComesFirst == Spec => []CallbackBeforeFinish
<1>1. Init => CallbackBeforeFinish /\ CallbackDone
  BY DEF Init, CallbackBeforeFinish, CallbackDone
<1>2. IInv => TypeOK
  BY DEF IInv
<1> QED BY <1>1, <1>2, InvInit, InCallInit, InvNext, CallbackNext, PTL
        DEF Spec, Safe
-----------------------------------------------------------------------------
(***************************************************************************)
(* The end of a session to which client c submits one datum, on a graph    *)
(* that does not branch.                                                   *)
(***************************************************************************)

\* Nobody but c submits, and c only as its first call.
OnlyFirst(c) ==
  /\ \A d \in Client : \A i \in DOMAIN calls[d] :
       calls[d][i] = "submit" => d = c /\ i = 1
  /\ \A d \in Client \ {c} : pc[d] \in {"call", "waiting", "woken"}

\* The push of c follows one path.
Follows(c) ==
  /\ Len(stack[c]) <= 1
  /\ pc[c] \in {"count", "emplace"} => Head(stack[c]) \in Processes

\* c has yet to hand its datum to the pool.
Before(c) == pc[c] \in PushPC \/ Calling(c, "submit")

\* Until then nothing has happened.
Untouched(c) == Before(c) => /\ \A t \in Task : stage[t] = "new"
                             /\ status # "Finish"
                             /\ fired = 0

\* Once the count has reached zero it stays there.
Over(c) == status = "Finish" \/ Finishing # {} \/ fired > 0
             => Live = {} /\ Emplacing = {} /\ ~Before(c)

OneInv(c) == OnlyFirst(c) /\ Follows(c) /\ Untouched(c) /\ Over(c) /\ OnFinishOnce

LEMMA OneInit ==
  ASSUME NEW c \in Client, SingleSubmit(c), Init
  PROVE  OneInv(c)
<1>1. OnlyFirst(c)
  BY DEF Init, OnlyFirst, SingleSubmit
<1>2. Follows(c) /\ Untouched(c)
  BY DEF Init, Follows, Untouched
<1>3. Finishing = {} /\ Triggering = {}
  BY DEF Init, Finishing, Triggering
<1>4. Over(c) /\ OnFinishOnce
  <2>1. Cardinality(Triggering) = 0
    BY <1>3, FS_EmptySet
  <2> QED BY <1>3, <2>1 DEF Init, Over, OnFinishOnce
<1> QED BY <1>1, <1>2, <1>4 DEF OneInv

LEMMA OnlyFirstNext ==
  ASSUME NEW c \in Client, IInv, InCall, OnlyFirst(c), [Next]_vars
  PROVE  OnlyFirst(c)'
<1> USE DEF IInv
<1>1. ASSUME NEW a \in Actor, PushStep(a) PROVE OnlyFirst(c)'
  <2>1. calls' = calls /\ pc[a] \in PushPC /\ \A b \in Actor : b # a => pc'[b] = pc[b]
    BY <1>1 DEF PushStep, PushRefused, PushRelay, PushAdmit, IncreaseTask,
                EmplaceTask, Visit, TypeOK
  <2> QED BY <2>1 DEF OnlyFirst
<1>2. ASSUME NEW d \in Client, Submit(d) PROVE OnlyFirst(c)'
  <2>1. d = c
    <3>1. calls[d] \in Seq(Call) /\ calls[d] # <<>> /\ Head(calls[d]) = "submit"
      BY <1>2 DEF Submit, Calling, TypeOK
    <3>2. 1 \in DOMAIN calls[d] /\ calls[d][1] = "submit"
      BY <3>1, LenProperties, EmptySeq
    <3> QED BY <3>2 DEF OnlyFirst
  <2> QED BY <1>2, <2>1 DEF Submit, OnlyFirst, TypeOK
<1>3. ASSUME NEW d \in Client, calls[d] # <<>>, Return(d) \/ calls' = calls,
             \A b \in Client \ {c} : pc'[b] \in {"call", "waiting", "woken"}
      PROVE  OnlyFirst(c)'
  <2>1. CASE calls' = calls
    BY <1>3, <2>1 DEF OnlyFirst
  <2>2. CASE Return(d)
    <3>1. calls[d] \in Seq(Call) /\ \A b \in Client : b # d => calls'[b] = calls[b]
      BY <2>2 DEF TypeOK, Return
    <3>2. calls'[d] = Tail(calls[d])
      BY <2>2 DEF TypeOK, Return
    <3>3. \A i \in DOMAIN calls'[d] : i + 1 \in DOMAIN calls[d] /\ i + 1 # 1
                                      /\ calls'[d][i] = calls[d][i + 1]
      BY <1>3, <3>1, <3>2, HeadTailProperties, LenProperties
    <3>4. ASSUME NEW b \in Client, NEW i \in DOMAIN calls'[b], calls'[b][i] = "submit"
          PROVE  b = c /\ i = 1
      <4>1. CASE b = d
        BY <3>3, <3>4, <4>1 DEF OnlyFirst
      <4>2. CASE b # d
        BY <3>1, <3>4, <4>2 DEF OnlyFirst
      <4> QED BY <4>1, <4>2
    <3> QED BY <1>3, <3>4 DEF OnlyFirst
  <2> QED BY <1>3, <2>1, <2>2
<1>4. ASSUME NEW d \in Client, Publish(d) \/ Stop(d) PROVE OnlyFirst(c)'
  <2>1. calls[d] # <<>> /\ Return(d) /\ NotifyAll(d, "call")
    BY <1>4 DEF Publish, Stop, Calling, InCall
  <2>2. \A b \in Client \ {c} : pc'[b] \in {"call", "waiting", "woken"}
    BY <2>1 DEF NotifyAll, Woken, OnlyFirst
  <2> QED BY <1>3, <2>1, <2>2
<1>5. ASSUME NEW d \in Client, Join(d) \/ Retest(d) \/ SpuriousWakeup(d)
      PROVE  OnlyFirst(c)'
  <2>1. calls[d] # <<>> /\ (Return(d) \/ calls' = calls)
    BY <1>5 DEF Join, Retest, Test, SpuriousWakeup, Calling, InCall
  <2>2. \A b \in Client \ {c} : pc'[b] \in {"call", "waiting", "woken"}
    BY <1>5 DEF Join, Retest, Test, SpuriousWakeup, OnlyFirst, TypeOK
  <2> QED BY <1>3, <2>1, <2>2
<1>6. ASSUME NEW t \in Task,
             StartTask(t) \/ ContextPush(t) \/ ProcessThrows(t) \/ TaskStep(t)
      PROVE  OnlyFirst(c)'
  <2>1. calls' = calls
    BY <1>6 DEF StartTask, ContextPush, ProcessThrows, TaskStep, ProcessReturns,
                Decrease, TriggerOnFinish, Finish
  <2>2. \A b \in Client : pc'[b] = pc[b] \/ pc'[b] = "woken"
    BY <1>6 DEF StartTask, ContextPush, ProcessThrows, TaskStep, ProcessReturns,
                Decrease, TriggerOnFinish, Finish, NotifyAll, Woken, TypeOK
  <2> QED BY <2>1, <2>2 DEF OnlyFirst
<1>7. CASE UNCHANGED vars
  BY <1>7 DEF vars, OnlyFirst
<1> QED BY <1>1, <1>2, <1>4, <1>5, <1>6, <1>7 DEF Next, ClientStep

LEMMA OneIsLeft == ASSUME NEW n \in Nat, n # 0, n <= 1 PROVE n = 1
OBVIOUS

LEMMA FollowsNext ==
  ASSUME NEW c \in Client, OnePath, IInv, OnlyFirst(c), Follows(c), [Next]_vars
  PROVE  /\ Follows(c)'
         /\ pc[c] \in PushPC /\ pc'[c] # pc[c] => pc'[c] \in PushPC \cup {"publish"}
         /\ pc[c] = "emplace" /\ pc'[c] # pc[c] => pc'[c] = "publish"
<1> USE DEF IInv
<1>1. ASSUME NEW a \in Actor, PushStep(a), a # c
      PROVE  pc'[c] = pc[c] /\ stack'[c] = stack[c]
  BY <1>1 DEF PushStep, PushRefused, PushRelay, PushAdmit, IncreaseTask, EmplaceTask,
              Visit, TypeOK
<1>2. ASSUME PushStep(c)
      PROVE  /\ Follows(c)' /\ pc'[c] \in PushPC \cup {"publish"}
             /\ pc[c] = "emplace" => pc'[c] = "publish"
  <2> DEFINE p == Head(stack[c])
             rest == Tail(stack[c])
  <2>1. p \in Pin /\ rest = <<>>
    <3>1. pc[c] \in PushPC /\ stack[c] \in Seq(Pin) /\ stack[c] # <<>>
      BY <1>2 DEF PushStep, PushRefused, PushRelay, PushAdmit, IncreaseTask,
                  EmplaceTask, TypeOK, Visiting
    <3>2. Len(stack[c]) \in Nat /\ Len(stack[c]) # 0
      BY <3>1, LenProperties, EmptySeq
    <3>3. Len(stack[c]) = 1
      <4>1. Len(stack[c]) <= 1
        BY DEF Follows
      <4> QED BY <3>2, <4>1, OneIsLeft
    <3>4. rest \in Seq(Pin) /\ Len(rest) = 0 /\ p \in Pin
      BY <3>1, <3>3, HeadTailProperties
    <3> QED BY <3>4, EmptySeq
  <2>2. Out[p] \o rest = Out[p] /\ Len(Out[p]) <= 1
    BY <2>1, ConcatEmptySeq DEF OnePath
  <2>3. ASSUME NEW s \in Seq(Pin), Len(s) <= 1, Visit(c, s)
        PROVE  /\ Follows(c)' /\ pc'[c] \in {"push", "publish"}
               /\ s = <<>> => pc'[c] = "publish"
    BY <2>3 DEF Visit, Resume, Follows, TypeOK
  <2>4. CASE PushRefused(c)
    <3>1. Visit(c, <<>>) /\ pc[c] = "push"
      BY <2>1, <2>4 DEF PushRefused
    <3>2. <<>> \in Seq(Pin) /\ Len(<<>>) <= 1
      OBVIOUS
    <3> QED BY <2>3, <3>1, <3>2
  <2>5. CASE PushRelay(c)
    <3>1. Visit(c, Out[p]) /\ Out[p] \in Seq(Pin) /\ pc[c] = "push"
      BY <2>1, <2>2, <2>5 DEF PushRelay
    <3> QED BY <2>2, <2>3, <3>1
  <2>6. CASE PushAdmit(c) \/ IncreaseTask(c)
    BY <2>6 DEF PushAdmit, IncreaseTask, Follows, TypeOK
  <2>7. CASE EmplaceTask(c)
    <3>1. p \in Processes /\ Out[p] = <<>>
      BY <2>1, <2>7 DEF EmplaceTask, Follows, OnePath
    <3>2. Visit(c, <<>>) /\ <<>> \in Seq(Pin) /\ Len(<<>>) <= 1
      BY <2>2, <2>7, <3>1 DEF EmplaceTask
    <3> QED BY <2>3, <3>2
  <2> QED BY <1>2, <2>4, <2>5, <2>6, <2>7 DEF PushStep
<1>3. ASSUME Submit(c) PROVE Follows(c)' /\ pc[c] = "call"
  BY <1>3 DEF Submit, Calling, Follows, TypeOK
<1>4. ASSUME NEW d \in Client, ClientStep(d) \/ SpuriousWakeup(d),
             ~(d = c /\ Submit(c))
      PROVE  /\ stack'[c] = stack[c]
             /\ pc'[c] = pc[c] \/ (pc[c] \notin PushPC /\ pc'[c] \notin PushPC)
  BY <1>4 DEF ClientStep, Submit, Publish, Stop, Join, Retest, Test, Calling,
              SpuriousWakeup, NotifyAll, Woken, TypeOK
<1>5. ASSUME NEW t \in Task,
             StartTask(t) \/ ContextPush(t) \/ ProcessThrows(t) \/ TaskStep(t)
      PROVE  /\ stack'[c] = stack[c]
             /\ pc'[c] = pc[c] \/ (pc[c] = "waiting" /\ pc'[c] = "woken")
  BY <1>5 DEF StartTask, ContextPush, ProcessThrows, TaskStep, ProcessReturns,
              Decrease, TriggerOnFinish, Finish, NotifyAll, Woken, TypeOK
<1>6. CASE UNCHANGED vars
  BY <1>6 DEF vars, Follows
<1>7. ASSUME stack'[c] = stack[c],
             pc'[c] = pc[c] \/ (pc[c] \notin PushPC /\ pc'[c] \notin PushPC)
      PROVE  Follows(c)'
  BY <1>7 DEF Follows
<1>8. CASE \E a \in Actor : PushStep(a)
  BY <1>1, <1>2, <1>7, <1>8
<1>9. CASE \E d \in Client : ClientStep(d) \/ SpuriousWakeup(d)
  BY <1>3, <1>4, <1>7, <1>9
<1>10. CASE \E t \in Task :
              StartTask(t) \/ ContextPush(t) \/ ProcessThrows(t) \/ TaskStep(t)
  BY <1>5, <1>7, <1>10
<1> QED BY <1>6, <1>8, <1>9, <1>10 DEF Next

\* c hands its datum over once.
LEMMA BeforeNext ==
  ASSUME NEW c \in Client, IInv, InCall, OnlyFirst(c), [Next]_vars, Before(c)'
  PROVE  Before(c)
<1> USE DEF IInv
<1>1. ASSUME NEW i \in DOMAIN calls[c], i > 1 PROVE calls[c][i] # "submit"
  BY <1>1 DEF OnlyFirst
<1>2. ASSUME Return(c), calls[c] # <<>>
      PROVE  ~(calls'[c] # <<>> /\ Head(calls'[c]) = "submit")
  <2>1. calls[c] \in Seq(Call) /\ calls'[c] = Tail(calls[c])
    BY <1>2 DEF TypeOK, Return
  <2>2. SUFFICES ASSUME Tail(calls[c]) # <<>> PROVE Head(Tail(calls[c])) # "submit"
    BY <2>1
  <2>3. 2 \in DOMAIN calls[c] /\ Head(Tail(calls[c])) = calls[c][2]
    BY <1>2, <2>1, <2>2, HeadTailProperties, LenProperties, EmptySeq
  <2> QED BY <1>1, <2>3
<1>3. ASSUME pc'[c] = pc[c] \/ pc'[c] \in {"publish", "waiting", "woken"} \/ pc[c] \in PushPC,
             calls'[c] = calls[c]
      PROVE  Before(c)
  BY <1>3 DEF Before, Calling
<1>4. ASSUME Return(c), calls[c] # <<>>, pc'[c] = "call" PROVE FALSE
  BY <1>2, <1>4 DEF Before, Calling
<1>5. ASSUME NEW a \in Actor, PushStep(a) PROVE Before(c)
  <2>1. calls' = calls /\ pc[a] \in PushPC /\ \A b \in Actor : b # a => pc'[b] = pc[b]
    BY <1>5 DEF PushStep, PushRefused, PushRelay, PushAdmit, IncreaseTask,
                EmplaceTask, Visit, TypeOK
  <2> QED BY <1>3, <2>1
<1>6. ASSUME NEW d \in Client, Submit(d) PROVE Before(c)
  BY <1>6 DEF Submit, Before, Calling, TypeOK
<1>7. ASSUME NEW d \in Client, Publish(d) \/ Stop(d) PROVE Before(c)
  <2>1. NotifyAll(d, "call") /\ Return(d) /\ calls[d] # <<>>
    BY <1>7 DEF Publish, Stop, Calling, InCall
  <2>2. CASE d = c
    BY <1>4, <2>1, <2>2 DEF NotifyAll
  <2>3. CASE d # c
    <3>1. calls'[c] = calls[c] /\ (pc'[c] = pc[c] \/ pc'[c] = "woken")
      BY <2>1, <2>3 DEF NotifyAll, Woken, Return, TypeOK
    <3> QED BY <1>3, <3>1
  <2> QED BY <2>2, <2>3
<1>8. ASSUME NEW d \in Client, Join(d) \/ Retest(d) \/ SpuriousWakeup(d)
      PROVE  Before(c)
  <2>1. CASE d = c
    <3>1. \/ pc'[c] \in {"waiting", "woken"} /\ calls'[c] = calls[c]
          \/ pc'[c] = "call" /\ Return(c) /\ calls[c] # <<>>
      BY <1>8, <2>1 DEF Join, Retest, Test, SpuriousWakeup, Calling, InCall, TypeOK
    <3> QED BY <1>3, <1>4, <3>1
  <2>2. CASE d # c
    <3>1. calls'[c] = calls[c] /\ pc'[c] = pc[c]
      BY <1>8, <2>2 DEF Join, Retest, Test, SpuriousWakeup, Return, TypeOK
    <3> QED BY <1>3, <3>1
  <2> QED BY <2>1, <2>2
<1>9. ASSUME NEW t \in Task,
             StartTask(t) \/ ContextPush(t) \/ ProcessThrows(t) \/ TaskStep(t)
      PROVE  Before(c)
  <2>1. calls' = calls /\ (pc'[c] = pc[c] \/ pc'[c] = "woken")
    BY <1>9 DEF StartTask, ContextPush, ProcessThrows, TaskStep, ProcessReturns,
                Decrease, TriggerOnFinish, Finish, NotifyAll, Woken, TypeOK
  <2> QED BY <1>3, <2>1
<1>10. CASE UNCHANGED vars
  BY <1>3, <1>10 DEF vars
<1> QED BY <1>5, <1>6, <1>7, <1>8, <1>9, <1>10 DEF Next, ClientStep

\* A task that executes is one the pool has started.
LEMMA TaskRuns ==
  ASSUME IInv, NEW t \in Task, pc[t] \notin {"idle", "thrown", "done"}
  PROVE  stage[t] = "running"
BY DEF IInv, TypeOK, PhasesAgree, Pool!Stage

LEMMA UntouchedNext ==
  ASSUME NEW c \in Client, OnePath, IInv, InCall, OnlyFirst(c), Follows(c),
         Untouched(c), [Next]_vars
  PROVE  Untouched(c)'
<1> USE DEF IInv
<1>1. SUFFICES ASSUME Before(c)'
               PROVE  stage' = stage /\ fired' = fired /\ status' # "Finish"
  BY BeforeNext DEF Untouched
<1>2. Before(c) /\ status # "Finish" /\ \A t \in Task : stage[t] = "new"
  BY <1>1, BeforeNext DEF Untouched
<1>3. ASSUME NEW a \in Actor, PushStep(a)
      PROVE  stage' = stage /\ fired' = fired /\ status' = status
  <2>1. pc[a] \in PushPC
    BY <1>3 DEF PushStep, PushRefused, PushRelay, PushAdmit, IncreaseTask, EmplaceTask
  <2>2. a = c
    BY <1>2, <2>1, TaskRuns DEF OnlyFirst
  <2>3. ~EmplaceTask(a)
    <3>1. SUFFICES ASSUME EmplaceTask(c) PROVE FALSE
      BY <2>2
    <3>2. pc[c] = "emplace" /\ pc'[c] # "emplace"
      BY <3>1 DEF EmplaceTask, Visit, Resume, TypeOK
    <3>3. pc'[c] = "publish"
      BY <3>2, FollowsNext
    <3> QED BY <1>1, <3>3 DEF Before, Calling
  <2> QED BY <1>3, <2>3 DEF PushStep, PushRefused, PushRelay, PushAdmit, IncreaseTask
<1>4. ASSUME NEW d \in Client, ClientStep(d) \/ SpuriousWakeup(d)
      PROVE  stage' = stage /\ fired' = fired /\ status' # "Finish"
  BY <1>2, <1>4 DEF ClientStep, Submit, Publish, Stop, Join, Retest, Test,
                    SpuriousWakeup
<1>5. ASSUME NEW t \in Task,
             StartTask(t) \/ ContextPush(t) \/ ProcessThrows(t) \/ TaskStep(t)
      PROVE  FALSE
  <2>1. stage[t] = "queued" \/ pc[t] \notin {"idle", "thrown", "done"}
    BY <1>5 DEF StartTask, Pool!Start, ContextPush, ProcessThrows, TaskStep,
                ProcessReturns, Decrease, TriggerOnFinish, Finish
  <2> QED BY <1>2, <2>1, TaskRuns
<1>6. CASE UNCHANGED vars
  BY <1>2, <1>6 DEF vars
<1> QED BY <1>2, <1>3, <1>4, <1>5, <1>6 DEF Next
\* The last decrement empties the session; nothing refills it.
LEMMA OverNext ==
  ASSUME NEW c \in Client, OnePath, IInv, InCall, OneInv(c), [Next]_vars
  PROVE  Over(c)' /\ OnFinishOnce'
<1> USE DEF IInv, OneInv
<1> DEFINE Ended == status = "Finish" \/ Finishing # {} \/ fired > 0
           Quiet == Live = {} /\ Emplacing = {} /\ ~Before(c)
<1>1. fired \in Nat /\ (Ended => Quiet)
  BY DEF Over, TypeOK
\* A step that neither ends the session nor adds to it.
<1>2. ASSUME Ended' => Ended, Live' \subseteq Live, Emplacing' \subseteq Emplacing
      PROVE  Over(c)'
  BY <1>1, <1>2, BeforeNext DEF Over
<1>3. ASSUME fired' = fired, Triggering' = Triggering PROVE OnFinishOnce'
  BY <1>3 DEF OnFinishOnce
\* Steps within Pin::push only happen while the session is not over.
<1>4. ASSUME NEW a \in Actor, PushStep(a) PROVE Over(c)' /\ OnFinishOnce'
  <2>1. pc[a] \in PushPC /\ status' = status /\ fired' = fired
    BY <1>4 DEF PushStep, PushRefused, PushRelay, PushAdmit, IncreaseTask, EmplaceTask
  <2>2. /\ \A b \in Actor : b # a => pc'[b] = pc[b]
        /\ pc'[a] \in PushPC \cup {"publish", "body"}
    BY <1>4 DEF PushStep, PushRefused, PushRelay, PushAdmit, IncreaseTask,
                EmplaceTask, Visit, Resume, TypeOK
  <2>3. Finishing' = Finishing /\ Triggering' = Triggering
    BY <2>1, <2>2 DEF Finishing, Triggering
  <2>4. ~Quiet
    <3>1. CASE a \in Task
      BY <2>1, <3>1, TaskRuns DEF Live
    <3>2. CASE a \in Client
      BY <2>1, <3>2 DEF OnlyFirst, Before
    <3> QED BY <3>1, <3>2
  <2>5. ~Ended'
    BY <1>1, <2>1, <2>3, <2>4
  <2> QED BY <1>3, <2>1, <2>3, <2>5 DEF Over
<1>5. ASSUME NEW d \in Client, ClientStep(d) \/ SpuriousWakeup(d)
      PROVE  Over(c)' /\ OnFinishOnce'
  <2>1. /\ fired' = fired /\ stage' = stage /\ (status' = "Finish" => status = "Finish")
        /\ \A t \in Task : pc'[t] = pc[t]
        /\ \A b \in Actor : pc'[b] = "emplace" => pc[b] = "emplace"
    BY <1>5 DEF ClientStep, Submit, Publish, Stop, Join, Retest, Test,
                SpuriousWakeup, NotifyAll, Woken, TypeOK
  <2>2. Finishing' = Finishing /\ Triggering' = Triggering /\ Live' = Live
    BY <2>1 DEF Finishing, Triggering, Live
  <2>3. Emplacing' \subseteq Emplacing
    BY <2>1 DEF Emplacing
  <2> QED BY <1>2, <1>3, <2>1, <2>2, <2>3
<1>6. ASSUME NEW t \in Task, \/ StartTask(t) \/ ContextPush(t) \/ ProcessThrows(t)
                             \/ ProcessReturns(t)
      PROVE  Over(c)' /\ OnFinishOnce'
  <2>1. /\ fired' = fired /\ status' = status
        /\ \A b \in Actor : b # t => pc'[b] = pc[b]
        /\ \A u \in Task : u # t => stage'[u] = stage[u]
        /\ pc'[t] \in {"body", "push", "thrown", "decrease"}
    BY <1>6 DEF StartTask, Pool!Start, ContextPush, ProcessThrows, Pool!Complete,
                ProcessReturns, TypeOK
  <2>2. pc[t] \in {"idle", "body"} /\ stage[t] \in {"queued", "running"}
    BY <1>6, TaskRuns DEF StartTask, Pool!Start, ContextPush, ProcessThrows,
                          ProcessReturns, PhasesAgree
  <2>3. Finishing' = Finishing /\ Triggering' = Triggering
    BY <2>1, <2>2 DEF Finishing, Triggering
  <2>4. Emplacing' \subseteq Emplacing
    BY <2>1 DEF Emplacing
  <2>5. Live' \subseteq Live
    BY <2>1, <2>2 DEF Live
  <2> QED BY <1>2, <1>3, <2>1, <2>3, <2>4, <2>5
<1>7. ASSUME NEW t \in Task, Decrease(t) PROVE Over(c)' /\ OnFinishOnce'
  <2>1. pc[t] = "decrease" /\ status' = status /\ fired' = fired
    BY <1>7 DEF Decrease
  <2>2. stage[t] = "running" /\ t \in Live
    BY <2>1, TaskRuns DEF Live
  <2>3. ~Ended /\ fired = 0
    BY <1>1, <2>2
  <2>4. CASE taskRemain # 1
    <3>1. /\ pc' = [pc EXCEPT ![t] = "done"]
      BY <1>7, <2>4 DEF Decrease
    <3>2. Finishing' = Finishing /\ Triggering' = Triggering
      BY <2>1, <3>1 DEF Finishing, Triggering, TypeOK
    <3> QED BY <1>3, <2>1, <2>3, <3>2 DEF Over
  <2>5. CASE taskRemain = 1
    <3>1. pc' = [pc EXCEPT ![t] = "trigger"] /\ stage' = stage
      BY <1>7, <2>5 DEF Decrease
    <3>2. Live = {t} /\ Emplacing = {}
      <4>1. IsFiniteSet(Live \ {t}) /\ Cardinality(Live \ {t}) = Cardinality(Live) - 1
        BY <2>2, Sets, FS_RemoveElement
      <4>2. Cardinality(Live \ {t}) \in Nat
        BY <4>1, FS_CardinalityType
      <4>3. Cardinality(Live \ {t}) = 0 /\ Cardinality(Emplacing) = 0
        BY <2>5, <4>1, <4>2, Sets DEF TaskAccounting
      <4> QED BY <2>2, <4>1, <4>3, Sets, FS_EmptySet
    <3>3. Live' = {} /\ Emplacing' = {}
      BY <2>1, <3>1, <3>2 DEF Live, Emplacing, TypeOK
    <3>4. ~Before(c)'
      BY <2>2, BeforeNext DEF Untouched
    <3>5. Triggering = {} /\ Triggering' = {t}
      BY <2>1, <2>3, <3>1 DEF Finishing, Triggering, TypeOK
    <3>6. OnFinishOnce'
      <4>1. Cardinality(Triggering') = 1
        BY <3>5, FS_Singleton
      <4>2. fired' = 0
        BY <2>1, <2>3
      <4> QED BY <4>1, <4>2 DEF OnFinishOnce
    <3> QED BY <3>3, <3>4, <3>6 DEF Over
  <2> QED BY <2>4, <2>5
<1>8. ASSUME NEW t \in Task, TriggerOnFinish(t) PROVE Over(c)' /\ OnFinishOnce'
  <2>1. /\ pc[t] = "trigger" /\ pc' = [pc EXCEPT ![t] = "finish"]
        /\ fired' = fired + 1 /\ stage' = stage
    BY <1>8 DEF TriggerOnFinish
  <2>2. Ended /\ Live' = Live /\ Emplacing' = Emplacing
    BY <2>1 DEF Finishing, Live, Emplacing, TypeOK
  <2>3. Triggering' = Triggering \ {t} /\ t \in Triggering /\ IsFiniteSet(Triggering)
    BY <2>1, FS_Subset DEF Triggering, TypeOK
  <2>4. Cardinality(Triggering') = Cardinality(Triggering) - 1
    BY <2>3, FS_RemoveElement
  <2>5. Cardinality(Triggering) \in Nat
    BY <2>3, FS_CardinalityType
  <2>6. OnFinishOnce'
    BY <1>1, <2>1, <2>4, <2>5 DEF OnFinishOnce
  <2> QED BY <1>2, <2>2, <2>6
<1>9. ASSUME NEW t \in Task, Finish(t) PROVE Over(c)' /\ OnFinishOnce'
  <2>1. /\ pc[t] = "finish" /\ NotifyAll(t, "done") /\ fired' = fired
        /\ stage' = [stage EXCEPT ![t] = "done"]
    BY <1>9 DEF Finish, Pool!Complete
  <2>2. /\ pc'[t] = "done"
        /\ \A u \in Task : u # t => pc'[u] = pc[u]
        /\ \A b \in Actor : pc'[b] = "emplace" => pc[b] = "emplace"
    BY <2>1, NotifyType
  <2>3. Live' \subseteq Live
    BY <2>1, <2>2 DEF Live, TypeOK
  <2>4. Ended /\ Emplacing' \subseteq Emplacing /\ Triggering' = Triggering
    BY <2>1, <2>2 DEF Finishing, Emplacing, Triggering
  <2> QED BY <1>2, <1>3, <2>1, <2>3, <2>4
<1>10. CASE UNCHANGED vars
  <2>1. /\ Live' = Live /\ Emplacing' = Emplacing /\ Finishing' = Finishing
        /\ Triggering' = Triggering /\ status' = status /\ fired' = fired
    BY <1>10 DEF vars, Live, Emplacing, Finishing, Triggering
  <2> QED BY <1>2, <1>3, <2>1
<1> QED BY <1>4, <1>5, <1>6, <1>7, <1>8, <1>9, <1>10 DEF Next, TaskStep

LEMMA OneNext ==
  ASSUME NEW c \in Client, OnePath
  PROVE  IInv /\ InCall /\ OneInv(c) /\ [Next]_vars => OneInv(c)'
<1>1. ASSUME IInv, InCall, OneInv(c), [Next]_vars PROVE OneInv(c)'
  <2>1. OnlyFirst(c)'
    BY <1>1, OnlyFirstNext DEF OneInv
  <2>2. Follows(c)'
    BY <1>1, FollowsNext DEF OneInv
  <2>3. Untouched(c)'
    BY <1>1, UntouchedNext DEF OneInv
  <2>4. Over(c)' /\ OnFinishOnce'
    BY <1>1, OverNext
  <2> QED BY <2>1, <2>2, <2>3, <2>4 DEF OneInv
<1> QED BY <1>1

LEMMA OneQuiet ==
  ASSUME NEW c \in Client PROVE OneInv(c) => FinishIsQuiet /\ OnFinishOnce
BY DEF OneInv, Over, OnlyFirst, Before, FinishIsQuiet

\* On a graph that does not branch, a session to which one client submits one
\* datum announces its end only when nothing of it is left or on its way.
THEOREM EndIsQuiet ==
  ASSUME NEW CONSTANT c \in Client, SingleSubmit(c), OnePath
  PROVE  Spec => []FinishIsQuiet
BY InvInit, InCallInit, InvNext, OneInit, OneNext, OneQuiet, PTL DEF Spec, Safe

\* Such a session calls onFinish at most once.
THEOREM CallbackOnce ==
  ASSUME NEW CONSTANT c \in Client, SingleSubmit(c), OnePath
  PROVE  Spec => []OnFinishOnce
BY InvInit, InCallInit, InvNext, OneInit, OneNext, OneQuiet, PTL DEF Spec, Safe
=============================================================================
