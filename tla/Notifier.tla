------------------------------ MODULE Notifier ------------------------------
(***************************************************************************)
(* core/Level0/notifier.hpp: threads wait without a lock for a predicate   *)
(* that others make true.  One 64-bit word holds a stack of the threads    *)
(* that sleep, the number of threads in pre-wait, and an epoch; the epoch  *)
(* at which a thread may decide, its turn, gives the threads in pre-wait   *)
(* an order.                                                               *)
(*                                                                         *)
(* The predicate is the harness of the header's comment (32-50): there is  *)
(* work to take, or the work is over.  Loads, stores and compare-exchanges *)
(* are steps of their own.  A spurious failure of compare_exchange_weak    *)
(* repeats the iteration with the word it had and is left out.             *)
(***************************************************************************)
EXTENDS Integers, FiniteSets

CONSTANTS Waiter,   \* the threads that wait
          Caller,   \* the threads that add work and notify
          none,     \* nullptr, and the empty stack, kStackMask
          Epochs,   \* 2^kEpochBits: the epoch is counted modulo this
          MaxWork   \* bound: the pieces of work added

ASSUME NotifierAssumption ==
  /\ IsFiniteSet(Waiter)
  /\ IsFiniteSet(Caller)
  /\ none \notin Waiter
  /\ Epochs \in Nat /\ Epochs > 2 * Cardinality(Waiter) + 1
  /\ MaxWork \in Nat

VARIABLES word,    \* _state: its stack, its waiters and its epoch
          next,    \* next[w]: Waiter::next
          signal,  \* signal[w]: Waiter::state
          ticket,  \* ticket[w]: Waiter::epoch, the word that prepare_wait found
          pc,      \* pc[w]: where waiter w is
          seen,    \* seen[w]: the local state of commit_wait or cancel_wait
          npc,     \* npc[c]: where caller c is
          nseen,   \* nseen[c]: the local state of notify
          all,     \* all[c]: the argument of notify
          link,    \* link[c]: wnext of notify, or next of _unpark
          target,  \* target[c]: the waiter that _unpark is at
          work,    \* the predicate: pieces of work not taken yet
          added,   \* pieces of work added so far
          over     \* no work is going to be added

waiterVars == <<ticket, pc, seen>>
callerVars == <<npc, nseen, all, link, target>>
workVars == <<work, added, over>>
vars == <<word, next, signal, waiterVars, callerVars, workVars>>

Word == [stack : Waiter \cup {none}, waiters : 0..Cardinality(Waiter),
         epoch : 0..(Epochs - 1)]
Signals == {"not signaled", "waiting", "signaled"}
WaiterPC == {"check", "prepare", "recheck", "commit load", "commit",
             "commit cas", "park", "blocked", "cancel load", "cancel", "out"}
CallerPC == {"idle", "load", "decide", "cas", "clear", "unpark", "signal", "wake"}

TypeOK == /\ word \in Word
          /\ next \in [Waiter -> Waiter \cup {none}]
          /\ signal \in [Waiter -> Signals]
          /\ ticket \in [Waiter -> Word]
          /\ pc \in [Waiter -> WaiterPC]
          /\ seen \in [Waiter -> Word]
          /\ npc \in [Caller -> CallerPC]
          /\ nseen \in [Caller -> Word]
          /\ all \in [Caller -> BOOLEAN]
          /\ link \in [Caller -> Waiter \cup {none}]
          /\ target \in [Caller -> Waiter \cup {none}]
          /\ work \in 0..MaxWork
          /\ added \in 0..MaxWork
          /\ over \in BOOLEAN

\* The epoch starts close to its overflow.
Fresh == [stack |-> none, waiters |-> 0,
          epoch |-> Epochs - 1 - 2 * Cardinality(Waiter)]

Init == /\ word = Fresh
        /\ next = [w \in Waiter |-> none]
        /\ signal = [w \in Waiter |-> "not signaled"]
        /\ ticket = [w \in Waiter |-> Fresh]
        /\ pc = [w \in Waiter |-> "check"]
        /\ seen = [w \in Waiter |-> Fresh]
        /\ npc = [c \in Caller |-> "idle"]
        /\ nseen = [c \in Caller |-> Fresh]
        /\ all = [c \in Caller |-> FALSE]
        /\ link = [c \in Caller |-> none]
        /\ target = [c \in Caller |-> none]
        /\ work = 0
        /\ added = 0
        /\ over = FALSE
-----------------------------------------------------------------------------
(***************************************************************************)
(* Words.                                                                  *)
(***************************************************************************)

\* epoch of commit_wait and cancel_wait: when all those that prepared before w
\* have decided, or have been notified, the word's epoch is w's turn.
Turn(w) == (ticket[w].epoch + ticket[w].waiters) % Epochs

\* The sign of the difference of two epochs, in two's complement.
Ahead(s, w) == (s.epoch - Turn(w)) % Epochs \in 1..(Epochs \div 2 - 1)
Behind(s, w) == (s.epoch - Turn(w)) % Epochs >= Epochs \div 2

\* s once n of its waiters have decided.
Decided(s, n) == [stack |-> s.stack, waiters |-> s.waiters - n,
                  epoch |-> (s.epoch + n) % Epochs]

Empty(s) == s.stack = none /\ s.waiters = 0
-----------------------------------------------------------------------------
(***************************************************************************)
(* A waiting thread.                                                       *)
(***************************************************************************)
Goes(w, to) == pc' = [pc EXCEPT ![w] = to]

\* w goes on to a point where what it knew of the word is not read any more.
Leaves(w, to) == /\ Goes(w, to)
                 /\ ticket' = [ticket EXCEPT ![w] = Fresh]
                 /\ seen' = [seen EXCEPT ![w] = Fresh]

\* commit_wait or cancel_wait returns; w looks at the predicate again.
Back(w) == Leaves(w, "check")

Sees(w, s) == seen' = [seen EXCEPT ![w] = s]

\* if(predicate) return act(): the thread takes work, leaves when the work is
\* over, or is going to call prepare_wait.
Check(w) ==
  /\ pc[w] = "check"
  /\ \/ /\ work > 0
        /\ work' = work - 1
        /\ UNCHANGED pc
     \/ /\ work = 0
        /\ Goes(w, IF over THEN "out" ELSE "prepare")
        /\ UNCHANGED work
  /\ UNCHANGED <<word, next, signal, ticket, seen, callerVars, added, over>>

Prepare(w) ==
  /\ pc[w] = "prepare"
  /\ ticket' = [ticket EXCEPT ![w] = word]
  /\ word' = [word EXCEPT !.waiters = @ + 1]
  /\ Goes(w, "recheck")
  /\ UNCHANGED <<next, signal, seen, callerVars, workVars>>

\* The second look at the predicate.
Recheck(w) ==
  /\ pc[w] = "recheck"
  /\ Goes(w, IF work > 0 \/ over THEN "cancel load" ELSE "commit load")
  /\ UNCHANGED <<word, next, signal, ticket, seen, callerVars, workVars>>

CommitLoad(w) ==
  /\ pc[w] = "commit load"
  /\ signal' = [signal EXCEPT ![w] = "not signaled"]
  /\ Sees(w, word)
  /\ Goes(w, "commit")
  /\ UNCHANGED <<word, next, ticket, callerVars, workVars>>

\* The thread before it has not decided: look again.
Await(w, at) ==
  /\ pc[w] = at
  /\ Behind(seen[w], w)
  /\ Sees(w, word)
  /\ UNCHANGED <<word, next, signal, ticket, pc, callerVars, workVars>>

\* It has been notified.
WasNotified(w, at) ==
  /\ pc[w] = at
  /\ Ahead(seen[w], w)
  /\ Back(w)
  /\ UNCHANGED <<word, next, signal, callerVars, workVars>>

\* Mutated MyTurn: a thread that has been notified decides all the same.
MyTurnLate(w, at) == pc[w] = at /\ ~Behind(seen[w], w)

\* Its turn to decide.
MyTurn(w, at) == pc[w] = at /\ seen[w].epoch = Turn(w)

\* Mutated CommitLink: the link is left as it was.
CommitLinkLost(w) ==
  /\ MyTurn(w, "commit")
  /\ Goes(w, "commit cas")
  /\ UNCHANGED <<word, next, signal, ticket, seen, callerVars, workVars>>

CommitLink(w) ==
  /\ MyTurn(w, "commit")
  /\ next' = [next EXCEPT ![w] = seen[w].stack]
  /\ Goes(w, "commit cas")
  /\ UNCHANGED <<word, signal, ticket, seen, callerVars, workVars>>

CommitCas(w) ==
  /\ pc[w] = "commit cas"
  /\ \/ /\ word = seen[w]
        /\ word' = [Decided(word, 1) EXCEPT !.stack = w]
        /\ Leaves(w, "park")
     \/ /\ word # seen[w]
        /\ Sees(w, word)
        /\ Goes(w, "commit")
        /\ UNCHANGED <<word, ticket>>
  /\ UNCHANGED <<next, signal, callerVars, workVars>>

\* _park: under mu, and again after each return of cv.wait.
Park(w) ==
  /\ pc[w] = "park"
  /\ \/ /\ signal[w] = "signaled"
        /\ Back(w)
        /\ UNCHANGED signal
     \/ /\ signal[w] # "signaled"
        /\ signal' = [signal EXCEPT ![w] = "waiting"]
        /\ Goes(w, "blocked")
        /\ UNCHANGED <<ticket, seen>>
  /\ UNCHANGED <<word, next, callerVars, workVars>>

SpuriousWakeup(w) ==
  /\ pc[w] = "blocked"
  /\ Goes(w, "park")
  /\ UNCHANGED <<word, next, signal, ticket, seen, callerVars, workVars>>

CancelLoad(w) ==
  /\ pc[w] = "cancel load"
  /\ Sees(w, word)
  /\ Goes(w, "cancel")
  /\ UNCHANGED <<word, next, signal, ticket, callerVars, workVars>>

\* Mutated CancelCas: the epoch is not moved on.
CancelCasSameEpoch(w) ==
  /\ MyTurn(w, "cancel")
  /\ \/ /\ word = seen[w]
        /\ word' = [word EXCEPT !.waiters = @ - 1]
        /\ Back(w)
     \/ /\ word # seen[w]
        /\ Sees(w, word)
        /\ UNCHANGED <<word, ticket, pc>>
  /\ UNCHANGED <<next, signal, callerVars, workVars>>

CancelCas(w) ==
  /\ MyTurn(w, "cancel")
  /\ \/ /\ word = seen[w]
        /\ word' = Decided(word, 1)
        /\ Back(w)
     \/ /\ word # seen[w]
        /\ Sees(w, word)
        /\ UNCHANGED <<word, ticket, pc>>
  /\ UNCHANGED <<next, signal, callerVars, workVars>>
-----------------------------------------------------------------------------
(***************************************************************************)
(* A thread that notifies.                                                 *)
(***************************************************************************)
Calls(c, to) == npc' = [npc EXCEPT ![c] = to]

\* notify returns.
Done(c) == /\ Calls(c, "idle")
           /\ nseen' = [nseen EXCEPT ![c] = Fresh]
           /\ all' = [all EXCEPT ![c] = FALSE]
           /\ link' = [link EXCEPT ![c] = none]
           /\ target' = [target EXCEPT ![c] = none]

\* predicate = true
AddWork(c) ==
  /\ npc[c] = "idle"
  /\ added < MaxWork
  /\ work' = work + 1
  /\ added' = added + 1
  /\ all' \in {[all EXCEPT ![c] = a] : a \in BOOLEAN}
  /\ Calls(c, "load")
  /\ UNCHANGED <<word, next, signal, waiterVars, nseen, link, target, over>>

\* The last one to add work says so to everyone.
EndWork(c) ==
  /\ npc[c] = "idle"
  /\ added = MaxWork /\ ~over
  /\ over' = TRUE
  /\ all' = [all EXCEPT ![c] = TRUE]
  /\ Calls(c, "load")
  /\ UNCHANGED <<word, next, signal, waiterVars, nseen, link, target, work, added>>

NotifyLoad(c) ==
  /\ npc[c] = "load"
  /\ nseen' = [nseen EXCEPT ![c] = word]
  /\ Calls(c, "decide")
  /\ UNCHANGED <<word, next, signal, waiterVars, all, link, target, workVars>>

\* notify(false) with no thread in pre-wait pops a sleeping one.
Pops(c) == ~all[c] /\ nseen[c].waiters = 0

\* Mutated NotifyDecide: threads in pre-wait do not count.
NotifyDecideStackOnly(c) ==
  /\ npc[c] = "decide"
  /\ \/ /\ nseen[c].stack = none
        /\ Done(c)
     \/ /\ nseen[c].stack # none
        /\ link' = [link EXCEPT ![c] = IF Pops(c) THEN next[nseen[c].stack] ELSE none]
        /\ Calls(c, "cas")
        /\ UNCHANGED <<nseen, all, target>>
  /\ UNCHANGED <<word, next, signal, waiterVars, workVars>>

\* Up to the compare-exchange: wnext is read here.
NotifyDecide(c) ==
  /\ npc[c] = "decide"
  /\ \/ /\ Empty(nseen[c])
        /\ Done(c)
     \/ /\ ~Empty(nseen[c])
        /\ link' = [link EXCEPT ![c] = IF Pops(c) THEN next[nseen[c].stack] ELSE none]
        /\ Calls(c, "cas")
        /\ UNCHANGED <<nseen, all, target>>
  /\ UNCHANGED <<word, next, signal, waiterVars, workVars>>

\* Mutated Notified: the epoch does not pass the turns of those released.
NotifiedEpochKept(c) ==
  IF all[c] THEN [word EXCEPT !.stack = none, !.waiters = 0]
  ELSE IF word.waiters > 0 THEN Decided(word, 1)
  ELSE [word EXCEPT !.stack = link[c]]

\* newstate: everyone is released, or the first in pre-wait, or the stack's top.
Notified(c) ==
  IF all[c] THEN [Decided(word, word.waiters) EXCEPT !.stack = none]
  ELSE IF word.waiters > 0 THEN Decided(word, 1)
  ELSE [word EXCEPT !.stack = link[c]]

NotifyCas(c) ==
  /\ npc[c] = "cas"
  /\ \/ /\ word # nseen[c]
        /\ nseen' = [nseen EXCEPT ![c] = word]
        /\ Calls(c, "decide")
        /\ UNCHANGED <<word, all, link, target>>
     \/ /\ word = nseen[c]
        /\ word' = Notified(c)
        /\ IF word.stack = none \/ (~all[c] /\ word.waiters > 0)
             THEN Done(c)
             ELSE /\ target' = [target EXCEPT ![c] = word.stack]
                  /\ Calls(c, IF all[c] THEN "unpark" ELSE "clear")
                  /\ UNCHANGED <<nseen, all, link>>
  /\ UNCHANGED <<next, signal, waiterVars, workVars>>

NotifyClear(c) ==
  /\ npc[c] = "clear"
  /\ next' = [next EXCEPT ![target[c]] = none]
  /\ Calls(c, "unpark")
  /\ UNCHANGED <<word, signal, waiterVars, nseen, all, link, target, workVars>>

\* _unpark: next is read before the waiter may run, and come back.
UnparkNext(c) ==
  /\ npc[c] = "unpark"
  /\ link' = [link EXCEPT ![c] = next[target[c]]]
  /\ Calls(c, "signal")
  /\ UNCHANGED <<word, next, signal, waiterVars, nseen, all, target, workVars>>

\* On to the waiter that link[c] names.
Follow(c) == IF link[c] = none
               THEN Done(c)
               ELSE /\ target' = [target EXCEPT ![c] = link[c]]
                    /\ Calls(c, "unpark")
                    /\ UNCHANGED <<nseen, all, link>>

\* Mutated UnparkSignal: the state is read after it has been set.
UnparkSignalSilent(c) ==
  /\ npc[c] = "signal"
  /\ signal' = [signal EXCEPT ![target[c]] = "signaled"]
  /\ Follow(c)
  /\ UNCHANGED <<word, next, waiterVars, workVars>>

\* Under mu.
UnparkSignal(c) ==
  /\ npc[c] = "signal"
  /\ signal' = [signal EXCEPT ![target[c]] = "signaled"]
  /\ IF signal[target[c]] = "waiting"
       THEN Calls(c, "wake") /\ UNCHANGED <<nseen, all, link, target>>
       ELSE Follow(c)
  /\ UNCHANGED <<word, next, waiterVars, workVars>>

\* cv.notify_one
UnparkWake(c) ==
  /\ npc[c] = "wake"
  /\ IF pc[target[c]] = "blocked" THEN Goes(target[c], "park") ELSE UNCHANGED pc
  /\ Follow(c)
  /\ UNCHANGED <<word, next, signal, ticket, seen, workVars>>
-----------------------------------------------------------------------------
WaiterStep(w) == \/ Check(w) \/ Prepare(w) \/ Recheck(w)
                 \/ CommitLoad(w) \/ CommitLink(w) \/ CommitCas(w) \/ Park(w)
                 \/ CancelLoad(w) \/ CancelCas(w)
                 \/ \E at \in {"commit", "cancel"} : Await(w, at) \/ WasNotified(w, at)

CallerStep(c) == \/ AddWork(c) \/ EndWork(c)
                 \/ NotifyLoad(c) \/ NotifyDecide(c) \/ NotifyCas(c) \/ NotifyClear(c)
                 \/ UnparkNext(c) \/ UnparkSignal(c) \/ UnparkWake(c)

\* Every thread is through; the Notifier may be destroyed.
AllOut == /\ \A w \in Waiter : pc[w] = "out"
          /\ \A c \in Caller : npc[c] = "idle"
          /\ over

Finished == AllOut /\ UNCHANGED vars

Next == \/ \E w \in Waiter : WaiterStep(w) \/ SpuriousWakeup(w)
        \/ \E c \in Caller : CallerStep(c)
        \/ Finished

\* Threads run.
Fairness == /\ \A w \in Waiter : WF_vars(WaiterStep(w))
            /\ \A c \in Caller : WF_vars(CallerStep(c))

Spec == Init /\ [][Next]_vars /\ Fairness
-----------------------------------------------------------------------------
(***************************************************************************)
(* Properties.                                                             *)
(***************************************************************************)

\* Threads that have announced themselves and not returned yet.
Announced == {w \in Waiter : pc[w] \in {"recheck", "commit load", "commit", "commit cas",
                                         "cancel load", "cancel"}}

\* Those of them that have neither decided nor been notified.
Prewait == {w \in Announced : ~Ahead(word, w)}

\* The waiters in list x: the least set that has x and, with a waiter, its next.
ListOf(x) ==
  {w \in Waiter : \A S \in SUBSET Waiter :
     x \in S \cup {none} /\ (\A v \in S : next[v] \in S \cup {none}) => w \in S}

\* A step does not take back what the epoch said: a thread that has been
\* released does not look as if it had its turn to come, and a stale word does
\* not get its epoch back.
Timely ==
  /\ \A w \in Announced \cap Announced' : Ahead(word, w) => Ahead(word, w)'
  /\ \A c \in Caller : /\ npc[c] = "cas" /\ npc'[c] = "cas"
                       /\ nseen[c].epoch # word.epoch
                       => nseen'[c].epoch # word'.epoch

\* The epoch does not come full circle, or half of it, while a thread is on its
\* way through an operation: what comparing epochs by the sign of their
\* difference, and the comment that there is no ABA (182-185), rely on.  In the
\* code the circle is 2^32 decisions long; here it is short enough to break.
NoFullCircle == [][Timely]_vars

\* The word counts the threads in pre-wait exactly, and their turns are the
\* epochs from the current one on, one each, over the wrap of the epoch too:
\* each gets to decide once those before it have, and none waits for the turn
\* of a thread that has gone.  The assertions at lines 121 and 152 follow.
TurnsInOrder ==
  /\ word.waiters = Cardinality(Prewait)
  /\ {(Turn(w) - word.epoch) % Epochs : w \in Prewait} = 0..(word.waiters - 1)

\* What caller c has taken off the stack and not signaled yet.
Held(c) == CASE npc[c] = "clear" -> {target[c]}
             [] npc[c] = "unpark" -> {target[c]} \cup ListOf(next[target[c]])
             [] npc[c] = "signal" -> {target[c]} \cup ListOf(link[c])
             [] npc[c] = "wake" -> ListOf(link[c])
             [] OTHER -> {}

\* Committed threads that have not been signaled.
Sleeping == {w \in Waiter : pc[w] \in {"park", "blocked"} /\ signal[w] # "signaled"}

\* Every sleeping thread is on the stack or in the hands of a caller that is
\* going to signal it, one of them and no other: no link is lost or taken up
\* twice, though a waiter may come back while another of the list it was on is
\* still to be signaled, and whatever a stale word (the ABA comment at 182-185).
SleepersHeld ==
  /\ Sleeping = ListOf(word.stack) \cup UNION {Held(c) : c \in Caller}
  /\ \A c \in Caller : ListOf(word.stack) \cap Held(c) = {}
  /\ \A c, d \in Caller : c # d => Held(c) \cap Held(d) = {}

\* Threads that look at the predicate again before they sleep.
Watching == {w \in Waiter : pc[w] \in {"check", "prepare", "recheck", "cancel load", "cancel"}}
            \cup {w \in Announced : Ahead(word, w)}
            \cup (Sleeping \ ListOf(word.stack))
            \cup {w \in Waiter : pc[w] \in {"park", "blocked"} /\ signal[w] = "signaled"}

\* Calls of notify that have yet to take effect.
Notifying == {c \in Caller : npc[c] \in {"load", "decide", "cas"}}

\* While a thread sleeps, or is about to, there are threads enough to take the
\* work: "it can't happen that both threads don't see each other changes"
\* (63-65).
NoMissedWork == Watching # Waiter =>
                  work <= Cardinality(Watching) + Cardinality(Notifying)

\* What a waiter is to the others.
PhaseOf(w) ==
  IF w \in Announced THEN IF w \in Prewait THEN "prewait" ELSE "released"
  ELSE IF pc[w] \in {"park", "blocked"}
    THEN IF w \in ListOf(word.stack) THEN "asleep" ELSE "released"
  ELSE "away"

EC == INSTANCE EventCount WITH phase <- [w \in Waiter |-> PhaseOf(w)]

\* Every step is one of EventCount, or none: notify releases one announced
\* waiter, or all, the moment it changes the word, and nobody else.
ImplementsEventCountSafely == EC!Safe

\* And a released waiter returns: it is unparked if it sleeps already, and
\* otherwise finds that its turn has passed.
ImplementsEventCount == EC!Spec
=============================================================================
