--------------------------- MODULE LockfreeVector ---------------------------
(***************************************************************************)
(* core/Level0/lockfree_vector.hpp, as pins use it: the list of the paths  *)
(* that leave a pin.  Writers add and remove under the lock of the nest;   *)
(* Pin::push walks the list without it, on any thread.  What is removed is *)
(* garbage, which the thread that brings _ref to zero deletes.             *)
(*                                                                         *)
(* A step is one access to what others may touch.  A writer's search for   *)
(* an item is part of the step that unlinks it, since under the lock       *)
(* nobody else changes links.  An item stands for the value it holds: a    *)
(* path is attached once.                                                  *)
(***************************************************************************)
EXTENDS Naturals, FiniteSets

CONSTANTS Item,    \* bound: the items that can be allocated
          Writer,  \* threads that attach and detach paths
          Reader,  \* threads that push data
          none     \* the null pointer, no thread

ASSUME LockfreeVectorAssumption ==
  /\ IsFiniteSet(Writer) /\ IsFiniteSet(Reader)
  /\ Writer \cap Reader = {}
  /\ none \notin Item \cup Writer

VARIABLES next,        \* next[x]: the _next of item x
          head,
          ref,         \* _ref
          needRecycle, \* _need_recycle
          garbage,     \* _garbage
          nest,        \* the writer that holds the lock of the nest, or none
          pc,          \* where each thread is
          at,          \* at[r]: the pItem of reader r
          target,      \* the item to be removed
          freed,       \* ghost: the items that were deleted
          seen,        \* ghost: the items that r has come by in this walk
          owed,        \* ghost: those that were linked when r read head and
                       \* have not been removed since
          late         \* ghost: a thread recycles beside another, see Collect

links == <<next, head>>
walks == <<at, seen, owed>>
vars == <<links, ref, needRecycle, garbage, nest, pc, walks, target, freed, late>>

Thread == Writer \cup Reader
Made == {x \in Item : next[x] # x}   \* a new item has no link to itself

Init == /\ next = [x \in Item |-> x]
        /\ head = none
        /\ ref = 0
        /\ needRecycle = FALSE
        /\ garbage = {}
        /\ nest = none
        /\ pc = [th \in Thread |-> "out"]
        /\ at = [r \in Reader |-> none]
        /\ target = none
        /\ freed = {}
        /\ seen = [r \in Reader |-> {}]
        /\ owed = [r \in Reader |-> {}]
        /\ late = FALSE

Goto(th, from, to) == pc[th] = from /\ pc' = [pc EXCEPT ![th] = to]

\* The items from head on: those in every set that has head and follows links.
Linked == {x \in Made : \A S \in SUBSET Made :
             (/\ head \in S \cup {none}
              /\ \A y \in S : next[y] \in S \cup {none}) => x \in S}
-----------------------------------------------------------------------------
(***************************************************************************)
(* A writer, under the lock.                                               *)
(***************************************************************************)

\* add: what the new item holds is not seen before head is set.
Add(w, x) ==
  /\ nest = none /\ x \notin Made
  /\ next' = [next EXCEPT ![x] = head]
  /\ head' = x
  /\ UNCHANGED <<ref, needRecycle, garbage, nest, pc, walks, target, freed, late>>

Remove(w, x) ==
  /\ nest = none /\ x \in Made
  /\ Goto(w, "out", "unlink")
  /\ nest' = w /\ target' = x
  /\ ref' = ref + 1
  /\ UNCHANGED <<links, needRecycle, garbage, walks, freed, late>>

\* Mutated Skip: the removed item is cut off from those that follow.
SkipAndCut(x) ==
  IF x = head
    THEN head' = none /\ next' = [next EXCEPT ![x] = none]
    ELSE /\ next' = [y \in Item |-> IF y = x THEN none
                                    ELSE IF y \in Linked /\ next[y] = x THEN next[x]
                                    ELSE next[y]]
         /\ UNCHANGED head

\* Without an item in front, all are unlinked.
Skip(x) ==
  IF x = head
    THEN head' = none /\ UNCHANGED next
    ELSE /\ next' = [y \in Item |-> IF y \in Linked /\ next[y] = x THEN next[x]
                                    ELSE next[y]]
         /\ UNCHANGED head

Unlink(w) ==
  /\ IF target \in Linked
       THEN Goto(w, "unlink", "collect") /\ Skip(target)
       ELSE Goto(w, "unlink", "leave") /\ UNCHANGED links
  /\ owed' = [r \in Reader |-> owed[r] \ {target}]
  /\ UNCHANGED <<ref, needRecycle, garbage, nest, at, seen, target, freed, late>>

\* The thread that was the last to leave has not come to the end of recycle.
Ending(th) == pc[th] \in {"check", "delete", "clear"}

\* push_back and store.  A thread that ends would delete this item too, which
\* readers may have reached by now, or walk _garbage while it changes.
Collect(w) ==
  /\ Goto(w, "collect", "leave")
  /\ garbage' = garbage \cup {target}
  /\ needRecycle' = TRUE
  /\ late' = (late \/ \E th \in Thread : Ending(th))
  /\ UNCHANGED <<links, ref, nest, walks, target, freed>>
-----------------------------------------------------------------------------
(***************************************************************************)
(* for_each, without the lock.                                             *)
(***************************************************************************)
Enter(r) ==
  /\ Goto(r, "out", "head")
  /\ ref' = ref + 1
  /\ UNCHANGED <<links, needRecycle, garbage, nest, walks, target, freed, late>>

ReadHead(r) ==
  /\ Goto(r, "head", IF head = none THEN "leave" ELSE "walk")
  /\ at' = [at EXCEPT ![r] = head]
  /\ seen' = [seen EXCEPT ![r] = {}]
  /\ owed' = [owed EXCEPT ![r] = Linked]
  /\ UNCHANGED <<links, ref, needRecycle, garbage, nest, target, freed, late>>

\* func is called with the item, and then its link is read; what a read of a
\* deleted item leads to is not modelled.
Visit(r) ==
  /\ at[r] \notin freed
  /\ Goto(r, "walk", IF next[at[r]] = none THEN "leave" ELSE "walk")
  /\ at' = [at EXCEPT ![r] = next[at[r]]]
  /\ seen' = [seen EXCEPT ![r] = @ \cup {at[r]}]
  /\ UNCHANGED <<links, ref, needRecycle, garbage, nest, owed, target, freed, late>>
-----------------------------------------------------------------------------
(***************************************************************************)
(* The end of remove and of for_each.                                      *)
(***************************************************************************)
Unlock(th) == nest' = IF nest = th THEN none ELSE nest

\* Mutated Leave: whoever leaves recycles.
LeaveAnyway(th) ==
  /\ ref' = ref - 1
  /\ Goto(th, "leave", "check")
  /\ UNCHANGED <<links, needRecycle, garbage, nest, walks, target, freed, late>>

Leave(th) ==
  /\ ref' = ref - 1
  /\ IF ref = 1 THEN Goto(th, "leave", "check") /\ UNCHANGED nest
                ELSE Goto(th, "leave", "out") /\ Unlock(th)
  /\ UNCHANGED <<links, needRecycle, garbage, walks, target, freed, late>>

\* compare_exchange of true by true: the flag is never taken back.
Check(th) ==
  /\ IF needRecycle
       THEN /\ Goto(th, "check", "delete") /\ UNCHANGED nest
            /\ late' = (late \/ \E u \in Thread : pc[u] \in {"delete", "clear"})
       ELSE Goto(th, "check", "out") /\ Unlock(th) /\ UNCHANGED late
  /\ UNCHANGED <<links, ref, needRecycle, garbage, walks, target, freed>>

Delete(th) ==
  /\ Goto(th, "delete", "clear")
  /\ freed' = freed \cup garbage
  /\ UNCHANGED <<links, ref, needRecycle, garbage, nest, walks, target, late>>

Clear(th) ==
  /\ Goto(th, "clear", "out")
  /\ garbage' = {}
  /\ Unlock(th)
  /\ UNCHANGED <<links, ref, needRecycle, walks, target, freed, late>>
-----------------------------------------------------------------------------
Next == \/ \E w \in Writer : \/ \E x \in Item : Add(w, x) \/ Remove(w, x)
                             \/ Unlink(w) \/ Collect(w)
        \/ \E r \in Reader : Enter(r) \/ ReadHead(r) \/ Visit(r)
        \/ \E th \in Thread : Leave(th) \/ Check(th) \/ Delete(th) \/ Clear(th)

Spec == Init /\ [][Next]_vars
-----------------------------------------------------------------------------
(***************************************************************************)
(* Properties.                                                             *)
(***************************************************************************)

\* Data pushed while paths come and go takes every path that was there when
\* the push began and was not removed, even if the reader stands on an item as
\* it is removed, or a removal drops the whole list.
VisitsStable == \A r \in Reader : pc[r] = "leave" => owed[r] \subseteq seen[r]

\* The count of those inside keeps an item until no walk can come to it, and
\* it is deleted once, by the time all are outside.  The code fails in this
\* only if it is late: a thread that has counted itself out last still comes
\* to its recycle when another has removed something, or recycles as well.
RecyclesInTime ==
  ~late =>
    /\ \A r \in Reader : pc[r] = "walk" => at[r] \notin freed
    /\ \A x \in Linked : x \notin freed
    /\ \A th \in Thread : pc[th] = "delete" => garbage \cap freed = {}
    /\ (\A th \in Thread : pc[th] = "out") => garbage = {}
=============================================================================
