------------------------- MODULE WorkStealingQueue --------------------------
(***************************************************************************)
(* core/Level0/workstealing_threadpool.hpp, class WorkStealingQueue: the   *)
(* deque of Chase and Lev.  Its owner pushes and pops at the bottom,       *)
(* thieves steal at the top.  A step is one access to _top, _bottom,       *)
(* _array or a slot that another thread may touch; what only the owner     *)
(* writes it reads together with its next access.  Accesses are            *)
(* sequentially consistent: the fences at lines 218, 228 and 256 are there *)
(* to make the order in which the code states them count.                  *)
(***************************************************************************)
EXTENDS Integers, Sequences, FiniteSets

CONSTANTS MaxPush,   \* bound: the items pushed, numbered in that order
          Thief,     \* the threads that steal
          Capacity   \* the capacity of the first array

ASSUME WorkStealingQueueAssumption == MaxPush \in Nat /\ Capacity \in Nat \ {0}

Item == 1..MaxPush
None == 0    \* the content of a slot not yet written

VARIABLES top, bottom,  \* _top and _bottom
          arrays,   \* the arrays, oldest first: _garbage, then _array
          owner,    \* the owner: where it is, its local b, the item it pushes
          thief,    \* thief[th]: where th is, its local t, the array it has
                    \* loaded and the item it has copied
          pushed,   \* history: how many items were pushed
          taken     \* history: the items returned by pop or steal

vars == <<top, bottom, arrays, owner, thief, pushed, taken>>

OwnerPC == {"idle", "resize", "write", "publish", "top", "cas", "restore"}
ThiefPC == {"idle", "bottom", "array", "read", "cas"}

\* between two operations the locals do not exist
OwnerIdle == [pc |-> "idle", b |-> 0, item |-> None]
ThiefIdle == [pc |-> "idle", t |-> 0, a |-> 1, item |-> None]

Current == Len(arrays)
Cap(k) == Cardinality(DOMAIN arrays[k])
Slot(k, i) == arrays[k][i % Cap(k)]

TypeOK ==
  /\ top \in 0..MaxPush
  /\ bottom \in (top - 1)..MaxPush
  /\ arrays \in Seq({arrays[k] : k \in DOMAIN arrays}) /\ arrays # <<>>
  /\ \A k \in 1..Current : arrays[k] \in [0..(Cap(k) - 1) -> Item \cup {None}]
  /\ Cap(1) = Capacity
  /\ \A k \in 1..(Current - 1) : Cap(k + 1) = 2 * Cap(k)
  /\ owner \in [pc : OwnerPC, b : -1..MaxPush, item : Item \cup {None}]
  /\ thief \in [Thief -> [pc : ThiefPC, t : 0..MaxPush, a : 1..Current,
                          item : Item \cup {None}]]
  /\ pushed \in 0..MaxPush
  /\ taken \subseteq 1..pushed

Init == /\ top = 0 /\ bottom = 0
        /\ arrays = << [i \in 0..(Capacity - 1) |-> None] >>
        /\ owner = OwnerIdle
        /\ thief = [th \in Thief |-> ThiefIdle]
        /\ pushed = 0
        /\ taken = {}
-----------------------------------------------------------------------------
(***************************************************************************)
(* push, by the owner.                                                     *)
(***************************************************************************)

\* Mutated Full: the array is replaced one item too late.
FullTooLate == Cap(Current) < bottom - top

Full == Cap(Current) - 1 < bottom - top

\* top is loaded, and compared with the owner's own bottom and array.
PushBegin ==
  /\ owner.pc = "idle" /\ pushed < MaxPush
  /\ pushed' = pushed + 1
  /\ owner' = [pc |-> IF Full THEN "resize" ELSE "write", b |-> bottom, item |-> pushed']
  /\ UNCHANGED <<top, bottom, arrays, thief, taken>>

\* The slots from the loaded top (b - Cap: the array was found full) to b are
\* copied to their places in an array of twice the size.
Resize ==
  /\ owner.pc = "resize"
  /\ LET cap == 2 * Cap(Current)
         live(i) == {j \in (owner.b - Cap(Current))..(owner.b - 1) : j % cap = i}
     IN  arrays' = Append(arrays, [i \in 0..(cap - 1) |->
           IF live(i) = {} THEN None ELSE Slot(Current, CHOOSE j \in live(i) : TRUE)])
  /\ owner' = [owner EXCEPT !.pc = "write"]
  /\ UNCHANGED <<top, bottom, thief, pushed, taken>>

Write ==
  /\ owner.pc = "write"
  /\ arrays' = [arrays EXCEPT ![Current][owner.b % Cap(Current)] = owner.item]
  /\ owner' = [owner EXCEPT !.pc = "publish"]
  /\ UNCHANGED <<top, bottom, thief, pushed, taken>>

Publish ==
  /\ owner.pc = "publish"
  /\ bottom' = owner.b + 1
  /\ owner' = OwnerIdle
  /\ UNCHANGED <<top, arrays, thief, pushed, taken>>
-----------------------------------------------------------------------------
(***************************************************************************)
(* pop, by the owner.                                                      *)
(***************************************************************************)

PopBegin ==
  /\ owner.pc = "idle"
  /\ bottom' = bottom - 1
  /\ owner' = [pc |-> "top", b |-> bottom', item |-> None]
  /\ UNCHANGED <<top, arrays, thief, pushed, taken>>

\* pop returns the item at b
OwnerTakes == /\ owner' = OwnerIdle
              /\ taken' = taken \cup {Slot(Current, owner.b)}

OwnerGoes(to) == owner' = [owner EXCEPT !.pc = to] /\ UNCHANGED taken

\* Mutated PopTop: the last item is left to the thieves.
PopTopLeaveLast ==
  /\ owner.pc = "top"
  /\ IF top < owner.b THEN OwnerTakes ELSE OwnerGoes("restore")
  /\ UNCHANGED <<top, bottom, arrays, thief, pushed>>

\* Mutated PopTop: an empty queue is left with its bottom lowered.
PopTopNoRestore ==
  /\ owner.pc = "top"
  /\ \/ top < owner.b /\ OwnerTakes
     \/ top = owner.b /\ OwnerGoes("cas")
     \/ top > owner.b /\ owner' = OwnerIdle /\ UNCHANGED taken
  /\ UNCHANGED <<top, bottom, arrays, thief, pushed>>

\* top is loaded: there are several items, one, or none.
PopTop ==
  /\ owner.pc = "top"
  /\ \/ top < owner.b /\ OwnerTakes
     \/ top = owner.b /\ OwnerGoes("cas")
     \/ top > owner.b /\ OwnerGoes("restore")
  /\ UNCHANGED <<top, bottom, arrays, thief, pushed>>

\* The last item goes to whoever moves top first.
PopCas ==
  /\ owner.pc = "cas"
  /\ IF top = owner.b THEN top' = top + 1 /\ taken' = taken \cup {Slot(Current, owner.b)}
                      ELSE UNCHANGED <<top, taken>>
  /\ owner' = [owner EXCEPT !.pc = "restore"]
  /\ UNCHANGED <<bottom, arrays, thief, pushed>>

PopRestore ==
  /\ owner.pc = "restore"
  /\ bottom' = owner.b + 1
  /\ owner' = OwnerIdle
  /\ UNCHANGED <<top, arrays, thief, pushed, taken>>
-----------------------------------------------------------------------------
(***************************************************************************)
(* steal, by any thread: top before bottom, the slot before the decision.  *)
(***************************************************************************)

StealTop(th) ==
  /\ thief[th].pc = "idle"
  /\ thief' = [thief EXCEPT ![th].pc = "bottom", ![th].t = top]
  /\ UNCHANGED <<top, bottom, arrays, owner, pushed, taken>>

StealBottom(th) ==
  /\ thief[th].pc = "bottom"
  /\ thief' = [thief EXCEPT ![th] = IF @.t < bottom THEN [@ EXCEPT !.pc = "array"]
                                                    ELSE ThiefIdle]
  /\ UNCHANGED <<top, bottom, arrays, owner, pushed, taken>>

StealArray(th) ==
  /\ thief[th].pc = "array"
  /\ thief' = [thief EXCEPT ![th].pc = "read", ![th].a = Current]
  /\ UNCHANGED <<top, bottom, arrays, owner, pushed, taken>>

StealRead(th) ==
  /\ thief[th].pc = "read"
  /\ thief' = [thief EXCEPT ![th].pc = "cas", ![th].item = Slot(thief[th].a, thief[th].t)]
  /\ UNCHANGED <<top, bottom, arrays, owner, pushed, taken>>

StealCas(th) ==
  /\ thief[th].pc = "cas"
  /\ IF top = thief[th].t THEN top' = top + 1 /\ taken' = taken \cup {thief[th].item}
                          ELSE UNCHANGED <<top, taken>>
  /\ thief' = [thief EXCEPT ![th] = ThiefIdle]
  /\ UNCHANGED <<bottom, arrays, owner, pushed>>

PushStep == PushBegin \/ Resize \/ Write \/ Publish
PopStep == PopBegin \/ PopTop \/ PopCas \/ PopRestore

\* Mutated Steal: bottom is loaded before top.
StealSwapped(th) ==
  \/ /\ thief[th].pc = "idle"
     /\ thief' = [thief EXCEPT ![th].pc = "bottom", ![th].t = bottom]
     /\ UNCHANGED <<top, bottom, arrays, owner, pushed, taken>>
  \/ /\ thief[th].pc = "bottom"
     /\ thief' = [thief EXCEPT ![th] = IF top < @.t THEN [@ EXCEPT !.pc = "array", !.t = top]
                                                     ELSE ThiefIdle]
     /\ UNCHANGED <<top, bottom, arrays, owner, pushed, taken>>
  \/ StealArray(th) \/ StealRead(th) \/ StealCas(th)

Steal(th) ==
  StealTop(th) \/ StealBottom(th) \/ StealArray(th) \/ StealRead(th) \/ StealCas(th)

Next == PushStep \/ PopStep \/ \E th \in Thief : Steal(th)

\* The owner goes on: a worker that has nothing to push pops.  Nothing is
\* assumed of the thieves.
Fairness == WF_vars(PushStep \/ PopStep)

Spec == Init /\ [][Next]_vars /\ Fairness
-----------------------------------------------------------------------------
(***************************************************************************)
(* Properties.                                                             *)
(***************************************************************************)

\* Where the queue ends: an owner that has lowered bottom, but has yet to find
\* out whether the item there is its own, has not taken it.
Limit == IF owner.pc \in {"top", "cas", "restore"} THEN owner.b + 1 ELSE bottom

Bag == INSTANCE WorkBag WITH
         items <- {Slot(Current, i) : i \in top..(Limit - 1)}

\* Every item is taken at most once and none disappears, though the owner and
\* the thieves race for the last one and arrays are replaced under the
\* thieves.
ImplementsBag == Bag!Spec

\* What a thief that will win has copied is the item at the top, even when the
\* array it read was replaced, or its slot reused, in the meantime.
CopiesAreFresh ==
  \A th \in Thief : thief[th].pc = "cas" /\ thief[th].t = top /\ top < Limit
                      => thief[th].item = Slot(Current, top)

\* Every item is taken in the end, by the owner if the thieves leave it.
ItemsTaken == \A x \in Item : x <= pushed ~> x \in taken

\* "Any threads can try to steal an item from the queue" (line 160): then a
\* thief may not copy a slot while the owner assigns to it, since neither
\* access is atomic.
NoTornCopy ==
  ~ \E th \in Thief : /\ owner.pc = "write"
                      /\ thief[th].pc = "read" /\ thief[th].a = Current
                      /\ thief[th].t % Cap(Current) = owner.b % Cap(Current)
=============================================================================
