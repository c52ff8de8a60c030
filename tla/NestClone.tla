----------------------------- MODULE NestClone ------------------------------
(***************************************************************************)
(* Spore::clone (core/Level1/Spore.cpp): a recursion that makes a copy of  *)
(* a spore, of its pins and of its children, and connects the copies of    *)
(* the pins as the originals are, with Path::connect, which finds the      *)
(* holder of a new path from where the pins are by then.  The copies are   *)
(* new objects: the copy of a member or path is the one of the same name   *)
(* in a second graph, built on nothing.  Not every pin has a copy: only    *)
(* DefaultWarpPin overrides Pin::clone, which returns null.                *)
(*                                                                         *)
(* Bounds: the edits of Nest lead to the graph; one spore of it is cloned  *)
(* when none is under way, and nothing is edited any more.  Each spore is  *)
(* then cloned by one call, so a call is known by its spore.               *)
(***************************************************************************)
EXTENDS Nest

CONSTANT Typed \* the pins made by createPin<DataType>: clone returns null

ASSUME CloneAssumption == Typed \subseteq Pin

VARIABLES copy, \* the graph of the copies
          met,  \* the keys of pinmap; the value of a pin without a copy is null
          call, \* the calls of _clone: the loop each is in, the index it is
                \* at, and the spore whose call made it
          at,   \* the spore whose call runs; none: no call does
          root  \* the spore that clone was called for

cloneVars == <<copy, met, call, at, root>>

Call == [loop : {"before", "pins", "childs", "paths", "done"},
         next : Nat \ {0}, caller : Spore \cup {none}]

Blank == [home  |-> [m \in Member |-> none],
          held  |-> [s \in Spore |-> <<>>],
          paths |-> [s \in Spore |-> <<>>],
          ends  |-> [x \in Path |-> none],
          out   |-> [p \in Pin |-> <<>>],
          in    |-> [p \in Pin |-> <<>>]]

CloneInit == /\ Init
             /\ copy = Blank
             /\ met = {}
             /\ call = [s \in Spore |-> [loop |-> "before", next |-> 1, caller |-> none]]
             /\ at = none
             /\ root = none

Enter(s) == [loop |-> "pins", next |-> 1, caller |-> s]

\* Mutated After: the paths are connected before the children are there.
AfterEarlyPaths == [pins |-> "paths", paths |-> "childs", childs |-> "done"]

\* What follows a loop of _clone.
After == [pins |-> "childs", childs |-> "paths", paths |-> "done"]

\* What the loop that is run goes through: getPins, getChilds and getPaths copy
\* the list under the lock, and nobody edits the graph meanwhile.
List == IF call[at].loop = "paths" THEN g.paths[at] ELSE g.held[at]

Clone(s) ==
  /\ root = none /\ ~crashed /\ \A th \in Thread : op[th] = Idle
  /\ root' = s /\ at' = s
  /\ call' = [call EXCEPT ![s] = Enter(none)]
  /\ UNCHANGED <<vars, copy, met>>

\* The call that runs is in the given loop and has not been through it.
InLoop(loop) == /\ at # none /\ call[at].loop = loop
                /\ call[at].next \in DOMAIN List
                /\ UNCHANGED <<vars, root>>

Item == List[call[at].next]

Advance(s) == [call EXCEPT ![s].next = @ + 1]

\* Bound: a member that is met anywhere but at home would be copied twice, and
\* a cycle of spores would be followed for ever.  The model stops there.
AtHome == g.home[Item] = at /\ Item # root

\* The pin is a key of pinmap even if its clone is null, which addPin ignores.
ClonePin ==
  /\ InLoop("pins")
  /\ AtHome
  /\ met' = met \cup ({Item} \cap Pin)
  /\ copy' = IF Item \in Pin \ Typed THEN AddMember(copy, at, Item) ELSE copy
  /\ call' = Advance(at)
  /\ UNCHANGED at

CloneChild ==
  /\ InLoop("childs")
  /\ AtHome
  /\ IF Item \in Spore THEN /\ call' = [call EXCEPT ![Item] = Enter(at)]
                            /\ at' = Item
                       ELSE call' = Advance(at) /\ UNCHANGED at
  /\ UNCHANGED <<copy, met>>

\* The spore that Path::connect, undisturbed, adds the path to; none: it
\* returns null.
Holder(gr, f, t) ==
  LET fs == gr.home[f]
      ts == gr.home[t]
  IN  IF fs = none \/ ts = none THEN none
      ELSE IF gr.home[fs] = gr.home[ts]
        THEN IF f \in OutPin /\ t \in InPin THEN gr.home[fs] ELSE none
      ELSE IF fs = gr.home[ts]
        THEN IF f \in InPin /\ t \in InPin THEN fs ELSE none
      ELSE IF gr.home[fs] = ts /\ f \in OutPin /\ t \in OutPin THEN ts ELSE none

\* Pin::connect of the copies of two pins
ConnectCopies(gr, f, t, x) ==
  LET s == Holder(gr, f, t)
  IN  IF s = none THEN gr ELSE AddPath(gr, s, f, t, x)

\* What the test of the loop over the paths asks: both pins are in pinmap.
BothMet(x) == g.ends[x].from \in met /\ g.ends[x].to \in met

\* A null in the list, which a release may leave, or connect called on the null
\* in pinmap: the program crashes, and nothing follows.
Crashes == Item = none \/ (BothMet(Item) /\ copy.home[g.ends[Item].from] = none)

\* A null for the pin the path ends at is refused by Path::connect.
ClonePath ==
  /\ InLoop("paths")
  /\ ~Crashes
  /\ LET e == g.ends[Item]
     IN  copy' = IF BothMet(Item) /\ copy.home[e.to] # none
                   THEN ConnectCopies(copy, e.from, e.to, Item) ELSE copy
  /\ call' = Advance(at)
  /\ UNCHANGED <<at, met>>

LoopEnds == /\ at # none /\ call[at].next \notin DOMAIN List
            /\ UNCHANGED <<vars, root, met>>

NextLoop ==
  /\ LoopEnds
  /\ After[call[at].loop] # "done"
  /\ call' = [call EXCEPT ![at] = [loop |-> After[call[at].loop], next |-> 1,
                                   caller |-> call[at].caller]]
  /\ UNCHANGED <<copy, at>>

\* To the caller, which adds the child; the first call has none.
Return ==
  LET up == call[at].caller
  IN  /\ LoopEnds
      /\ After[call[at].loop] = "done"
      /\ at' = up
      /\ IF up = none
           THEN call' = [call EXCEPT ![at].loop = "done"] /\ UNCHANGED copy
           ELSE /\ call' = [call EXCEPT ![at].loop = "done", ![up].next = @ + 1]
                /\ copy' = AddMember(copy, up, at)

CloneNext ==
  \/ root = none /\ Next /\ UNCHANGED cloneVars
  \/ \E s \in Spore : Clone(s)
  \/ ClonePin
  \/ CloneChild
  \/ ClonePath
  \/ NextLoop
  \/ Return

CloneSpec == CloneInit /\ [][CloneNext]_<<vars, cloneVars>>
-----------------------------------------------------------------------------
(***************************************************************************)
(* The property.                                                           *)
(***************************************************************************)

Before(q, x, y) == \E i, j \in DOMAIN q : i < j /\ q[i] = x /\ q[j] = y

\* q and r list the same elements of S, in the same order.
Agree(q, r, S) ==
  /\ Range(q) \cap S = Range(r) \cap S
  /\ \A x, y \in Range(q) \cap S : Before(q, x, y) <=> Before(r, x, y)

Copied == {root} \cup {m \in Member : copy.home[m] # none}
Held == UNION {Range(g.paths[c]) : c \in Copied \cap Spore}

\* x is where it was made: nothing was moved since it was connected, and no
\* release of another path took it from a pin.
Placed(x) ==
  /\ x # none
  /\ Holder(g, g.ends[x].from, g.ends[x].to) = g.ends[x].holder
  /\ x \in Range(g.out[g.ends[x].from]) /\ x \in Range(g.in[g.ends[x].to])

InPlace == \A x \in Held : Placed(x)

\* The paths that end at a pin that has a copy.
Kept == {x \in Held : g.ends[x].to \notin Typed}

\* When clone returns, the copy has the shape of the spore but for the pins
\* whose clone is null: the other pins and the children of each spore in it were
\* copied, in the same order.  No path held within the spore starts at a pin
\* without a copy, or clone would not have returned; the paths that end at one
\* are left out, the others were copied, in the same order; on the copy of a pin
\* are the copies of these, and no others, in the order in which data pushed to
\* the pin follows them.
CloneMirrors ==
  root # none /\ at = none =>
    /\ copy.home[root] = none /\ Copied \cap Typed = {}
    /\ \A m \in Copied \ {root} : copy.home[m] = g.home[m]
    /\ \A c \in Copied \cap Spore, S \in {Pin \ Typed, Spore} :
         Agree(g.held[c], copy.held[c], S)
    /\ InPlace =>
         /\ \A x \in Held : g.ends[x].from \notin Typed
         /\ \A c \in Copied \cap Spore : /\ Agree(g.paths[c], copy.paths[c], Kept)
                                         /\ Range(copy.paths[c]) \subseteq Kept
         /\ \A x \in Kept : copy.ends[x] = g.ends[x]
         /\ \A p \in Pin :
              /\ Agree(g.out[p], copy.out[p], Kept)
              /\ Agree(g.in[p], copy.in[p], Kept)
              /\ Range(copy.out[p]) \cup Range(copy.in[p]) \subseteq Kept
=============================================================================
