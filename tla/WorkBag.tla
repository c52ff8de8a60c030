------------------------------ MODULE WorkBag -------------------------------
(***************************************************************************)
(* What a work stealing queue promises (workstealing_threadpool.hpp:       *)
(* 135-163): an item that has been put in is taken out at most once, by    *)
(* the owner or by a thief, and never disappears.  An attempt to take may  *)
(* fail, and nothing is said of the order.                                 *)
(***************************************************************************)
CONSTANT Item

VARIABLES items,  \* in the bag
          taken   \* taken out of it

vars == <<items, taken>>

Init == items = {} /\ taken = {}

Put(x) == /\ x \notin items \cup taken
          /\ items' = items \cup {x}
          /\ UNCHANGED taken

Take(x) == /\ x \in items
           /\ items' = items \ {x}
           /\ taken' = taken \cup {x}

Next == \E x \in Item : Put(x) \/ Take(x)

Spec == Init /\ [][Next]_vars
=============================================================================
