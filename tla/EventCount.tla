----------------------------- MODULE EventCount -----------------------------
(***************************************************************************)
(* What Notifier promises to its users (notifier.hpp:32-65, 94-161): a     *)
(* waiter announces itself with prepare_wait, looks at its predicate       *)
(* again, and then cancels or commits.  notify releases one waiter, or     *)
(* all, among those that have announced themselves, whether they sleep     *)
(* already or not; a released waiter does not sleep.                       *)
(*                                                                         *)
(* Notifier implements this specification, and WorkStealingThreadpool uses *)
(* it.                                                                     *)
(***************************************************************************)
CONSTANT Waiter

VARIABLE phase   \* phase[w]: what waiter w is to the others

Phase == {"away",     \* neither waiting nor about to
          "prewait",  \* announced
          "asleep",   \* committed, and not released yet
          "released"} \* released, and yet to return

Waiting == {w \in Waiter : phase[w] \in {"prewait", "asleep"}}

Init == phase = [w \in Waiter |-> "away"]

Moves(w, from, to) == /\ phase[w] \in from
                      /\ phase' = [phase EXCEPT ![w] = to]

Prepare(w) == Moves(w, {"away"}, "prewait")

Commit(w) == Moves(w, {"prewait"}, "asleep")

\* commit_wait returns
Return(w) == Moves(w, {"released"}, "away")

\* cancel_wait returns, whether w was released in the meantime or not
Cancel(w) == Moves(w, {"prewait", "released"}, "away")

NotifyOne ==
  IF Waiting = {} THEN phase' = phase
                  ELSE \E w \in Waiting : phase' = [phase EXCEPT ![w] = "released"]

NotifyAll == phase' = [w \in Waiter |-> IF w \in Waiting THEN "released" ELSE phase[w]]

Next == \/ \E w \in Waiter : Prepare(w) \/ Commit(w) \/ Return(w) \/ Cancel(w)
        \/ NotifyOne
        \/ NotifyAll

\* A released waiter returns.
Fairness == \A w \in Waiter : WF_phase(Return(w))

Safe == Init /\ [][Next]_phase

Spec == Safe /\ Fairness
=============================================================================
