----------------------------- MODULE SyncDeque ------------------------------
(***************************************************************************)
(* core/Level0/sync_deque.h: a deque under one mutex with one condition    *)
(* variable, on which both the consumers of an empty and the producers of  *)
(* a full deque wait.  A step is one critical section: from the lock to    *)
(* the unlock, or to the wait that releases it.  notify_one follows a push *)
(* only; a pop wakes nobody.                                               *)
(*                                                                         *)
(* The actions constrain queue, waiting and woken; TaskPool conjoins them  *)
(* with the steps of its threads.  Below them is a harness that lets any   *)
(* number of threads call the operations freely.                           *)
(***************************************************************************)
EXTENDS Naturals, Sequences, FiniteSets

CONSTANTS Producer,  \* threads that push
          Consumer,  \* threads that pop
          Item,      \* bound: what may be pushed, each item once
          Sizes      \* the values of the constructor's argument, an unsigned int

ASSUME SyncDequeAssumption == Sizes \subseteq Nat

VARIABLES queue,     \* data_queue
          waiting,   \* threads blocked in data_cond.wait
          woken,     \* threads notified that have yet to test their predicate
          maxSize,   \* max_size; 0 stands for no limit
          pushed,    \* harness: the items pushed so far
          popped     \* harness: the items popped so far

vars == <<queue, waiting, woken, maxSize, pushed, popped>>

Thread == Producer \cup Consumer

\* Mutated HasRoom: room for one item more than the limit.
HasRoomForOneMore == maxSize = 0 \/ Len(queue) <= maxSize

HasRoom == maxSize = 0 \/ Len(queue) < maxSize

\* Mutated Insert: the ends are mixed up.
InsertOtherEnd(x, fifo) == queue' = IF fifo THEN <<x>> \o queue ELSE Append(queue, x)

Insert(x, fifo) == queue' = IF fifo THEN Append(queue, x) ELSE <<x>> \o queue

\* Mutated NotifyOne: nobody is told of the new item.
NotifyNobody(th) == waiting' = waiting /\ woken' = woken \ {th}

\* notify_one by thread th, which itself holds the mutex.
NotifyOne(th) ==
  IF waiting = {}
    THEN waiting' = waiting /\ woken' = woken \ {th}
    ELSE \E w \in waiting : /\ waiting' = waiting \ {w}
                            /\ woken' = (woken \ {th}) \cup {w}

\* Thread th gives up the mutex and waits on the condition variable.
Wait(th) == /\ th \notin waiting
            /\ waiting' = waiting \cup {th}
            /\ woken' = woken \ {th}
            /\ UNCHANGED queue

\* push, as its first attempt or after a wakeup.
Push(th, x, fifo) == /\ th \notin waiting
                     /\ HasRoom
                     /\ Insert(x, fifo)
                     /\ NotifyOne(th)

BlockPush(th) == ~HasRoom /\ Wait(th)

\* wait_and_pop and the successful try_pop take the front.
Pop(th) == /\ th \notin waiting
           /\ queue # <<>>
           /\ queue' = Tail(queue)
           /\ woken' = woken \ {th}
           /\ UNCHANGED waiting

BlockPop(th) == queue = <<>> /\ Wait(th)

SpuriousWakeup(th) == /\ th \in waiting
                      /\ waiting' = waiting \ {th}
                      /\ woken' = woken \cup {th}
                      /\ UNCHANGED queue
-----------------------------------------------------------------------------
(***************************************************************************)
(* The harness.                                                            *)
(***************************************************************************)

Init == /\ queue = <<>>
        /\ waiting = {}
        /\ woken = {}
        /\ maxSize \in Sizes
        /\ pushed = {}
        /\ popped = {}

ProducerStep(p) ==
  \/ /\ \E x \in Item \ pushed, fifo \in BOOLEAN :
          Push(p, x, fifo) /\ pushed' = pushed \cup {x}
     /\ UNCHANGED <<maxSize, popped>>
  \/ /\ Item # pushed
     /\ BlockPush(p)
     /\ UNCHANGED <<maxSize, pushed, popped>>

ConsumerStep(c) ==
  \/ Pop(c) /\ popped' = popped \cup {Head(queue)} /\ UNCHANGED <<maxSize, pushed>>
  \/ BlockPop(c) /\ UNCHANGED <<maxSize, pushed, popped>>

\* try_pop by a thread that is not in the middle of a wait_and_pop
TryPop(th) == /\ th \notin woken
              /\ Pop(th)
              /\ popped' = popped \cup {Head(queue)}
              /\ UNCHANGED <<maxSize, pushed>>

Wakeup(th) == SpuriousWakeup(th) /\ UNCHANGED <<maxSize, pushed, popped>>

Next == \/ \E p \in Producer : ProducerStep(p)
        \/ \E c \in Consumer : ConsumerStep(c)
        \/ \E th \in Thread : TryPop(th) \/ Wakeup(th)

Fairness == \A c \in Consumer : WF_vars(ConsumerStep(c))

Spec == Init /\ [][Next]_vars /\ Fairness
-----------------------------------------------------------------------------
(***************************************************************************)
(* Properties.                                                             *)
(***************************************************************************)

\* With a limit the deque never exceeds it, whoever was woken in whatever
\* order (the predicate is tested again after every wakeup).
LimitHolds == maxSize > 0 => Len(queue) <= maxSize

\* Without a limit every pushed item is popped by consumers that keep calling
\* wait_and_pop, and it is popped once: it never comes back.
ItemsArrive == \A x \in Item :
  x \in pushed /\ maxSize = 0 ~> [](x \in popped /\ \A i \in DOMAIN queue : queue[i] # x)
=============================================================================
