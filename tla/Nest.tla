-------------------------------- MODULE Nest --------------------------------
(***************************************************************************)
(* The graph of a nest (core/Level1: Spore.cpp, Path.cpp, DefaultNest.h,   *)
(* with the lists of lockfree_vector.hpp): spores hold child spores, pins  *)
(* and paths, and a path joins two pins.  Any thread may edit the graph.   *)
(* Most edits test the graph first without a lock and change it later      *)
(* under the unique lock of the nest; a step is one unlocked read or one   *)
(* locked section, and other threads edit in between.                      *)
(*                                                                         *)
(* addSpore and addPin, remvoeSpore and removePin are the same code over   *)
(* _childs/_parent and over _pins/_spore.  A member is a spore or a pin,   *)
(* its home is the spore it is in, and one list per spore holds both.      *)
(***************************************************************************)
EXTENDS Naturals, Sequences, SequencesExt

CONSTANTS Spore,    \* what createSpore has made
          InPin,    \* what createPin has made, by type
          OutPin,
          Path,     \* bound: the Path objects that can be allocated
          Thread,   \* the threads that edit
          MaxCalls, \* bound: calls begun, in total
          Built,    \* Built[s]: the members of s before the threads start
          none      \* the null pointer

Pin == InPin \cup OutPin
Member == Spore \cup Pin
End == [from : Pin, to : Pin, holder : Spore]   \* what a path knows

ASSUME NestAssumption ==
  /\ none \notin Member \cup Path \cup End
  /\ Spore \cap Pin = {}
  /\ InPin \cap OutPin = {}
  /\ MaxCalls \in Nat
  /\ Built \in [Spore -> Seq(Member)]
  /\ \A s \in Spore : IsInjective(Built[s])
  /\ \A s, u \in Spore : s # u => Range(Built[s]) \cap Range(Built[u]) = {}

VARIABLES g,        \* the graph, see Graph
          op,       \* op[th]: the edit th is in the middle of
          calls,    \* harness: how many calls were begun
          crashed,  \* a null pointer was dereferenced
          released, \* ghost: the paths that release was called for
          raced     \* ghost: the members two edits were about at once

vars == <<g, op, calls, crashed, released, raced>>

Graph == [home  : [Member -> Spore \cup {none}],       \* _parent, _spore
          held  : [Spore -> Seq(Member)],              \* _pchilds, _ppins
          paths : [Spore -> Seq(Path \cup {none})],    \* _ppaths
          ends  : [Path -> End \cup {none}],           \* none: not allocated
          out   : [Pin -> Seq(Path)],                  \* _poutPaths, head first
          in    : [Pin -> Seq(Path)]]                  \* _pinPaths, head first

Idle == [call |-> "idle"]
Edit == [call : {"add", "remove"}, spore : Spore, member : Member]
First == [call : {"to"}, from : Pin, to : Pin,
          fs : Spore \cup {none}, ts : {none}, pf : {none}]
Read == [call : {"parent", "compare", "holder", "inner", "outer"},
         from : Pin, to : Pin, fs : Spore, ts : Spore, pf : Spore \cup {none}]
Join == [call : {"join"}, spore : Spore, from : Pin, to : Pin]

TypeOK == /\ g \in Graph
          /\ op \in [Thread -> {Idle} \cup Edit \cup First \cup Read \cup Join]
          /\ calls \in 0..MaxCalls
          /\ crashed \in BOOLEAN
          /\ released \subseteq Path
          /\ raced \subseteq Member

HomeIn(held, m) == IF \E s \in Spore : m \in Range(held[s])
                     THEN CHOOSE s \in Spore : m \in Range(held[s]) ELSE none

\* One thread has built the tree; the paths are all still to come.
Init == /\ g = [home  |-> [m \in Member |-> HomeIn(Built, m)],
                held  |-> Built,
                paths |-> [s \in Spore |-> <<>>],
                ends  |-> [x \in Path |-> none],
                out   |-> [p \in Pin |-> <<>>],
                in    |-> [p \in Pin |-> <<>>]]
        /\ op = [th \in Thread |-> Idle]
        /\ calls = 0
        /\ crashed = FALSE
        /\ released = {}
        /\ raced = {}
-----------------------------------------------------------------------------
(***************************************************************************)
(* What the locked sections do to the graph.                               *)
(***************************************************************************)

\* Where x is in q; no list holds an element twice.
At(q, x) == CHOOSE i \in DOMAIN q : q[i] = x

\* vector::erase
Erase(q, x) == RemoveAt(q, At(q, x))

\* Mutated RemoveIf: what follows x is overwritten, not moved up.
RemoveIfCut(q, x) == [i \in DOMAIN q |-> IF i < At(q, x) THEN q[i] ELSE none]

\* std::remove_if without erase: what follows x moves up, the last element is
\* left moved-from; if x is the last, nothing moves and it stays.
RemoveIf(q, x) ==
  IF At(q, x) = Len(q) THEN q
  ELSE [i \in DOMAIN q |-> IF i < At(q, x) THEN q[i]
                           ELSE IF i < Len(q) THEN q[i + 1] ELSE none]

\* lockfree_vector::remove: without an item in front, head becomes null, and
\* all the items behind the first are lost with it.
Unlink(q, x) == IF x \notin Range(q) THEN q
                ELSE IF At(q, x) = 1 THEN <<>> ELSE Erase(q, x)

\* Mutated AddMember: the list is not searched again under the lock.
AddMemberTwice(gr, s, m) ==
  [gr EXCEPT !.home[m] = s, !.held[s] = Append(@, m)]

\* addSpore, addPin
AddMember(gr, s, m) ==
  IF m \in Range(gr.held[s]) THEN gr
  ELSE [gr EXCEPT !.home[m] = s, !.held[s] = Append(@, m)]

\* remvoeSpore, removePin
RemoveMember(gr, s, m) ==
  IF m \notin Range(gr.held[s]) THEN gr
  ELSE [gr EXCEPT !.home[m] = none, !.held[s] = Erase(@, m)]

Joins(gr, x, f, t) ==
  x # none /\ gr.ends[x].from = f /\ gr.ends[x].to = t

\* find_if calls a method of each element up to the first that matches, of a
\* null one too.
FindCrashes(gr, s, f, t) ==
  \E i \in DOMAIN gr.paths[s] :
    /\ gr.paths[s][i] = none
    /\ \A j \in 1..i : ~Joins(gr, gr.paths[s][j], f, t)

Free(gr) == {x \in Path : gr.ends[x] = none}

\* lockfree_vector::add, in front of head
Link(q, x) == <<x>> \o q

\* Path::attach
Attach(gr, x) == [gr EXCEPT !.out[gr.ends[x].from] = Link(@, x),
                            !.in[gr.ends[x].to] = Link(@, x)]

\* Mutated Detach: the pin at the end of the path keeps it.
DetachHalf(gr, x) == [gr EXCEPT !.out[gr.ends[x].from] = Unlink(@, x)]

\* Path::detach
Detach(gr, x) == [gr EXCEPT !.out[gr.ends[x].from] = Unlink(@, x),
                            !.in[gr.ends[x].to] = Unlink(@, x)]

\* Mutated AddPath: the paths of the spore are not searched.
AddPathUnsearched(gr, s, f, t, x) ==
  Attach([gr EXCEPT !.ends[x] = [from |-> f, to |-> t, holder |-> s],
                    !.paths[s] = Append(@, x)], x)

\* addPath, x being the new object
AddPath(gr, s, f, t, x) ==
  IF \E y \in Range(gr.paths[s]) : Joins(gr, y, f, t) THEN gr
  ELSE Attach([gr EXCEPT !.ends[x] = [from |-> f, to |-> t, holder |-> s],
                         !.paths[s] = Append(@, x)], x)

RemovePath(gr, x) ==
  LET s == gr.ends[x].holder
  IN  IF x \notin Range(gr.paths[s]) THEN gr
      ELSE Detach([gr EXCEPT !.paths[s] = RemoveIf(@, x)], x)
-----------------------------------------------------------------------------
(***************************************************************************)
(* The steps of the threads.                                               *)
(***************************************************************************)

About(o) == IF o.call \in {"add", "remove"} THEN {o.member} ELSE {}

\* Thread th begins a call and is at o after its first read.
Begin(th, o) ==
  /\ ~crashed /\ op[th] = Idle /\ calls < MaxCalls
  /\ calls' = calls + 1
  /\ op' = [op EXCEPT ![th] = o]
  /\ raced' = raced \cup (About(o) \cap UNION {About(op[u]) : u \in Thread})
  /\ UNCHANGED <<g, crashed, released>>

Goto(th, o) == /\ ~crashed
               /\ op' = [op EXCEPT ![th] = o]
               /\ UNCHANGED <<calls, released, raced>>

\* The unlocked test of addSpore and addPin.
AddTest(th, s, m) ==
  /\ g.home[m] = none
  /\ Begin(th, [call |-> "add", spore |-> s, member |-> m])

\* The unlocked test of remvoeSpore and removePin.
RemoveTest(th, s, m) ==
  /\ g.home[m] = s
  /\ Begin(th, [call |-> "remove", spore |-> s, member |-> m])

AddLocked(th) ==
  /\ op[th].call = "add"
  /\ Goto(th, Idle)
  /\ g' = AddMember(g, op[th].spore, op[th].member)
  /\ UNCHANGED crashed

RemoveLocked(th) ==
  /\ op[th].call = "remove"
  /\ Goto(th, Idle)
  /\ g' = RemoveMember(g, op[th].spore, op[th].member)
  /\ UNCHANGED crashed

\* Path::connect reads the homes of the pins, and then the parents of the
\* spores it has read, as often as they are named.
ConnectFrom(th, f, t) ==
  Begin(th, [call |-> "to", from |-> f, to |-> t,
             fs |-> g.home[f], ts |-> none, pf |-> none])

ReadAt(th, what) == op[th].call = what /\ UNCHANGED <<g, crashed>>

\* Mutated ConnectTo: only the spore read last is tested.
ConnectToUntested(th) ==
  /\ ReadAt(th, "to")
  /\ LET ts == g.home[op[th].to]
     IN  Goto(th, IF ts = none THEN Idle
                  ELSE [op[th] EXCEPT !.call = "parent", !.ts = ts])

ConnectTo(th) ==
  /\ ReadAt(th, "to")
  /\ LET ts == g.home[op[th].to]
     IN  Goto(th, IF op[th].fs = none \/ ts = none THEN Idle
                  ELSE [op[th] EXCEPT !.call = "parent", !.ts = ts])

ConnectParent(th) ==
  /\ ReadAt(th, "parent")
  /\ Goto(th, [op[th] EXCEPT !.call = "compare", !.pf = g.home[op[th].fs]])

ConnectCompare(th) ==
  /\ ReadAt(th, "compare")
  /\ Goto(th, [op[th] EXCEPT !.call = IF op[th].pf = g.home[op[th].ts]
                                        THEN "holder" ELSE "inner"])

\* On to addPath of spore s if the pins are of the types froms and tos.
JoinIf(th, s, froms, tos) ==
  Goto(th, IF op[th].from \in froms /\ op[th].to \in tos
             THEN [call |-> "join", spore |-> s,
                   from |-> op[th].from, to |-> op[th].to]
             ELSE Idle)

\* Siblings: the holder is the parent, read again.
ConnectSiblings(th) ==
  /\ ReadAt(th, "holder")
  /\ LET holder == g.home[op[th].fs]
     IN  IF holder = none THEN Goto(th, Idle)
         ELSE JoinIf(th, holder, OutPin, InPin)

ConnectInner(th) ==
  /\ ReadAt(th, "inner")
  /\ IF op[th].fs = g.home[op[th].ts]
       THEN JoinIf(th, op[th].fs, InPin, InPin)
       ELSE Goto(th, [op[th] EXCEPT !.call = "outer"])

ConnectOuter(th) ==
  /\ ReadAt(th, "outer")
  /\ IF g.home[op[th].fs] = op[th].ts
       THEN JoinIf(th, op[th].ts, OutPin, OutPin)
       ELSE Goto(th, Idle)

ConnectLocked(th) ==
  LET o == op[th]
  IN  /\ o.call = "join"
      /\ Goto(th, Idle)
      /\ IF FindCrashes(g, o.spore, o.from, o.to)
           THEN crashed' = TRUE /\ UNCHANGED g
           ELSE /\ \E x \in Free(g) : g' = AddPath(g, o.spore, o.from, o.to, x)
                /\ UNCHANGED crashed

\* Path::release: the holder of a path never changes, all the rest is locked.
Release(th, x) ==
  /\ ~crashed /\ op[th] = Idle /\ calls < MaxCalls
  /\ g.ends[x] # none
  /\ calls' = calls + 1
  /\ g' = RemovePath(g, x)
  /\ released' = released \cup {x}
  /\ UNCHANGED <<op, crashed, raced>>

ThreadStep(th) ==
  \/ \E s \in Spore, m \in Member : AddTest(th, s, m) \/ RemoveTest(th, s, m)
  \/ \E f, t \in Pin : ConnectFrom(th, f, t)
  \/ \E x \in Path : Release(th, x)
  \/ AddLocked(th)
  \/ RemoveLocked(th)
  \/ ConnectTo(th)
  \/ ConnectParent(th)
  \/ ConnectCompare(th)
  \/ ConnectSiblings(th)
  \/ ConnectInner(th)
  \/ ConnectOuter(th)
  \/ ConnectLocked(th)

Next == \E th \in Thread : ThreadStep(th)

Spec == Init /\ [][Next]_vars
-----------------------------------------------------------------------------
(***************************************************************************)
(* Properties.                                                             *)
(***************************************************************************)

Live(x) == g.ends[x] # none /\ x \notin released

\* A spore or pin that has a home is in the list of that home, once, whatever
\* edits run into each other (the test of addSpore, addPin, remvoeSpore and
\* removePin is made before the lock is taken).  And a list holds only what is
\* at home there, unless two edits were about the same member at once.
HomeLists ==
  /\ \A s \in Spore : IsInjective(g.held[s])
  /\ \A m \in Member : g.home[m] # none => m \in Range(g.held[g.home[m]])
  /\ \A s \in Spore : \A m \in Range(g.held[s]) \ raced : g.home[m] = s

\* Two threads that connect the same pins at once get one path: no holder
\* lists two paths with the same ends, or one path twice.
NoTwins ==
  \A s \in Spore : \A i, j \in DOMAIN g.paths[s] :
    LET x == g.paths[s][i]
        y == g.paths[s][j]
    IN  x # none /\ y # none /\ i # j => ~Joins(g, x, g.ends[y].from, g.ends[y].to)

\* removePath leaves the list at its length and shifts within it: no path that
\* was not released is lost from the list of its holder, and without a release
\* a list has no null for a later search to fall over.
LiveIsListed ==
  /\ \A x \in Path : Live(x) => x \in Range(g.paths[g.ends[x].holder])
  /\ crashed => released # {}

\* Data flow only along the paths that were made and not released: the lists
\* that Pin::push walks hold none that release has been called for, nor one
\* that starts or ends at another pin.
PinsListLive ==
  \A p \in Pin :
    /\ \A x \in Range(g.out[p]) : Live(x) /\ g.ends[x].from = p
    /\ \A x \in Range(g.in[p]) : Live(x) /\ g.ends[x].to = p
=============================================================================
