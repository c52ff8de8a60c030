------------------------ MODULE LockfreeVectorProofs ------------------------
(***************************************************************************)
(* Proofs about LockfreeVector.                                            *)
(***************************************************************************)
EXTENDS LockfreeVector, FiniteSetTheorems, TLAPS

Steps == {"out", "leave", "check", "delete", "clear"}

TypeOK == /\ next \in [Item -> Item \cup {none}]
          /\ head \in Item \cup {none}
          /\ ref \in Nat
          /\ needRecycle \in BOOLEAN
          /\ garbage \subseteq Made
          /\ nest \in Writer \cup {none}
          /\ pc \in [Thread -> Steps \cup {"unlink", "collect", "head", "walk"}]
          /\ \A w \in Writer : pc[w] \in Steps \cup {"unlink", "collect"}
          /\ \A r \in Reader : pc[r] \in Steps \cup {"head", "walk"}
          /\ at \in [Reader -> Item \cup {none}]
          /\ target \in Item \cup {none}
          /\ freed \subseteq Made
          /\ seen \in [Reader -> SUBSET Item]
          /\ owed \in [Reader -> SUBSET Item]
          /\ late \in BOOLEAN

\* S is closed under the links.
Closed(S) == S \subseteq Made /\ \A y \in S : next[y] \in S \cup {none}

\* Links lead from items to items and do not go round in a circle.
LinksInv == /\ head \in Made \cup {none}
            /\ Closed(Made)
            /\ \A S \in SUBSET Made : S # {} => \E y \in S : next[y] \notin S

\* From[a]: the items from a on.
From == [a \in Item \cup {none} |->
          {x \in Made : \A S \in SUBSET Made : Closed(S) /\ a \in S \cup {none} => x \in S}]

\* What a reader owes is still in front of it.
WalkInv ==
  \A r \in Reader :
    /\ pc[r] = "walk" => at[r] \in Made /\ owed[r] \subseteq seen[r] \cup From[at[r]]
    /\ pc[r] = "leave" => owed[r] \subseteq seen[r]

\* One writer at a time.
NestInv ==
  \A w \in Writer : /\ pc[w] # "out" => nest = w
                    /\ pc[w] = "unlink" => target \in Made
                    /\ pc[w] = "collect" => target \in Made \ Linked

Inside == {th \in Thread : pc[th] \in {"unlink", "collect", "head", "walk", "leave"}}

RefInv == /\ ref = Cardinality(Inside)
          /\ garbage # {} => /\ needRecycle
                             /\ Inside # {} \/ \E th \in Thread : Ending(th)

\* What was removed is out of reach: from the head always, and of those who
\* walk from the moment that a thread has counted itself out last.
GarbageInv ==
  ~late =>
    /\ Linked \cap (garbage \cup freed) = {}
    /\ \A r \in Reader : pc[r] = "walk" =>
         /\ From[at[r]] \cap freed = {}
         /\ (\E th \in Thread : Ending(th)) => From[at[r]] \cap garbage = {}
    /\ \A w \in Writer : pc[w] = "collect" => target \notin garbage \cup freed
    /\ \A th, u \in Thread : pc[th] \in {"delete", "clear"} /\ pc[u] \in {"delete", "clear"}
         => th = u
    /\ (\A th \in Thread : pc[th] # "clear") => garbage \cap freed = {}

IInv == TypeOK /\ LinksInv /\ WalkInv /\ NestInv /\ RefInv /\ GarbageInv
-----------------------------------------------------------------------------
LEMMA Apart ==
  /\ none \notin Item /\ none \notin Writer /\ Writer \cap Reader = {}
  /\ Thread = Writer \cup Reader /\ IsFiniteSet(Thread)
  BY LockfreeVectorAssumption, FS_Union DEF Thread

(***************************************************************************)
(* What lies ahead of an item.                                             *)
(***************************************************************************)

\* It is the least closed set with the item in it.
Least == \A a \in Item \cup {none}, S \in SUBSET Item :
           Closed(S) /\ a \in S \cup {none} => From[a] \subseteq S

\* What is in every closed set with the item in it lies ahead of the item.
Member == \A a \in Item \cup {none}, x \in Made :
            (\A S \in SUBSET Item : Closed(S) /\ a \in S \cup {none} => x \in S) => x \in From[a]

LEMMA FromIs == Least /\ Member
  BY DEF Least, Member, From, Closed, Made

LEMMA MadeItems == Made \subseteq Item /\ \A S : Closed(S) => S \subseteq Made
  BY DEF Made, Closed

LEMMA FromClosed ==
  ASSUME LinksInv, NEW a \in Made \cup {none}
  PROVE  Closed(From[a]) /\ a \in From[a] \cup {none} /\ From[a] \subseteq Made
  <1>1. a \in Item \cup {none} /\ From[a] \subseteq Made
    BY DEF Made, From
  <1>2. ASSUME NEW y \in From[a], next[y] # none PROVE next[y] \in From[a]
    <2>1. y \in Made /\ next[y] \in Made
      BY <1>1, <1>2 DEF LinksInv, Closed
    <2>2. ASSUME NEW S \in SUBSET Item, Closed(S), a \in S \cup {none} PROVE next[y] \in S
      BY <1>1, <1>2, <2>2, FromIs DEF Closed, Least
    <2>3. QED
      BY <1>1, <2>1, <2>2, FromIs DEF Member
  <1>3. ASSUME a # none PROVE a \in From[a]
    BY <1>1, <1>3, FromIs DEF Member
  <1>4. QED
    BY <1>1, <1>2, <1>3 DEF Closed

LEMMA FromNone == From[none] = {}
  <1>1. Closed({})
    BY DEF Closed
  <1>2. QED
    BY <1>1, FromIs DEF Least

LEMMA FromNext ==
  ASSUME LinksInv, NEW a \in Made
  PROVE  /\ next[a] \in Made \cup {none}
         /\ From[a] \subseteq {a} \cup From[next[a]] /\ From[next[a]] \subseteq From[a]
  <1>1. a \in Item /\ next[a] \in Made \cup {none} /\ next[a] \in Item \cup {none}
    BY DEF Made, LinksInv, Closed
  <1>2. /\ Closed(From[next[a]]) /\ next[a] \in From[next[a]] \cup {none}
        /\ From[next[a]] \subseteq Made
    BY <1>1, FromClosed
  <1>3. Closed({a} \cup From[next[a]]) /\ {a} \cup From[next[a]] \in SUBSET Item
    BY <1>2, MadeItems DEF Closed
  <1>4. Closed(From[a]) /\ a \in From[a] /\ From[a] \in SUBSET Item
    BY <1>1, FromClosed, Apart, MadeItems
  <1>5. next[a] \in From[a] \cup {none}
    BY <1>4 DEF Closed
  <1>6. QED
    BY <1>1, <1>3, <1>4, <1>5, FromIs DEF Least

HeadOK == head \in Item \cup {none}

LinkedFromHead == HeadOK => Linked = From[head]

LEMMA LinkedIs == LinkedFromHead
  BY DEF LinkedFromHead, HeadOK, Linked, From, Closed

LEMMA AddLinks ==
  ASSUME TypeOK, LinksInv, NEW x \in Item \ Made,
         next' = [next EXCEPT ![x] = head], head' = x
  PROVE  /\ LinksInv' /\ Made' = Made \cup {x}
         /\ \A a \in Made \cup {none} : From'[a] = From[a]
         /\ Linked' = Linked \cup {x}
  <1>1. /\ Made' = Made \cup {x} /\ x \notin Made /\ x # none /\ head # x
        /\ head \in Made \cup {none} /\ Made \subseteq Item
    BY Apart DEF Made, TypeOK, LinksInv
  <1>2. next'[x] = head /\ \A y \in Made : next'[y] = next[y] /\ next[y] # x
    BY <1>1 DEF Made, TypeOK, LinksInv, Closed
  <1>3. \A S \in SUBSET Made : Closed(S)' <=> Closed(S)
    BY <1>1, <1>2 DEF Closed
  <1>4. \A S : Closed(S)' => Closed(S \ {x})
    BY <1>1, <1>2 DEF Closed
  <1>5. LinksInv'
    <2>1. Closed(Made)'
      BY <1>1, <1>2 DEF Closed, LinksInv
    <2>2. ASSUME NEW S \in SUBSET (Made \cup {x}), S # {}, \A y \in S : next'[y] \in S
          PROVE  FALSE
      <3>1. \A y \in S \ {x} : next[y] \in S \ {x}
        BY <1>1, <1>2, <2>2
      <3>2. S \ {x} = {}
        BY <3>1 DEF LinksInv
      <3>3. x \in S /\ head \in S
        BY <1>2, <2>2, <3>2
      <3>4. QED
        BY <1>1, <3>2, <3>3
    <2>3. QED
      BY <1>1, <2>1, <2>2 DEF LinksInv
  <1>6. Least' /\ Member'
    BY FromIs, PTL
  <1>7. ASSUME NEW a \in Made \cup {none} PROVE From'[a] = From[a]
    <2>1. a \in Item \cup {none} /\ a # x
      BY <1>1
    <2>2. PICK F : F = From[a]
      OBVIOUS
    <2>3. Closed(F) /\ a \in F \cup {none} /\ F \in SUBSET Made
      BY <2>2, FromClosed
    <2>4. From'[a] \subseteq F
      BY <1>1, <1>3, <1>6, <2>1, <2>3 DEF Least
    <2>5. ASSUME NEW S \in SUBSET Item, Closed(S)', a \in S \cup {none} PROVE F \subseteq S
      BY <1>4, <2>1, <2>2, <2>5, FromIs DEF Least
    <2>6. F \subseteq From'[a]
      BY <1>1, <1>6, <2>1, <2>3, <2>5 DEF Member
    <2>7. QED
      BY <2>2, <2>4, <2>6
  <1>8. Linked' = Linked \cup {x}
    <2>1. Linked = From[head] /\ Linked' = From'[x]
      <3>1. LinkedFromHead'
        BY LinkedIs, PTL
      <3>2. HeadOK /\ HeadOK'
        BY <1>1 DEF HeadOK
      <3>3. QED
        BY <3>1, <3>2, LinkedIs DEF LinkedFromHead
    <2>2. PICK F : F = From[head]
      OBVIOUS
    <2>3. Closed(F) /\ head \in F \cup {none} /\ F \in SUBSET Made
      BY <1>1, <2>2, FromClosed
    <2>4. Closed(F \cup {x})'
      BY <1>1, <1>2, <2>3 DEF Closed
    <2>5. From'[x] \subseteq F \cup {x}
      BY <1>1, <1>6, <2>3, <2>4 DEF Least
    <2>6. ASSUME NEW S \in SUBSET Item, Closed(S)', x \in S PROVE F \cup {x} \subseteq S
      <3>1. head \in S \cup {none}
        BY <1>2, <2>6 DEF Closed
      <3>2. Closed(S \ {x}) /\ head \in (S \ {x}) \cup {none}
        BY <1>1, <1>4, <2>6, <3>1
      <3>3. F \subseteq S \ {x}
        BY <1>1, <2>2, <3>2, FromIs DEF Least
      <3>4. QED
        BY <2>6, <3>3
    <2>7. F \cup {x} \subseteq From'[x]
      BY <1>1, <1>6, <2>3, <2>6 DEF Member
    <2>8. QED
      BY <2>1, <2>2, <2>5, <2>7
  <1>9. QED
    BY <1>1, <1>5, <1>7, <1>8

\* Removing an item takes nothing else from what lies ahead of the others.
LEMMA SkipLinks ==
  ASSUME TypeOK, LinksInv, NEW x \in Linked, Skip(x)
  PROVE  /\ LinksInv' /\ Made' = Made
         /\ \A a \in Made \cup {none} :
              From'[a] \subseteq From[a] /\ From[a] \ {x} \subseteq From'[a]
         /\ Linked' \subseteq Linked \ {x}
  <1>1. /\ x \in Made /\ x # none /\ x \in Item /\ Made \subseteq Item /\ Linked \subseteq Made
        /\ head \in Made \cup {none}
    BY Apart, MadeItems DEF Linked, LinksInv
  <1>2. /\ LinkedFromHead' /\ Least' /\ Member'
        /\ LinkedFromHead /\ Least /\ Member
    BY FromIs, LinkedIs, PTL
  <1>3. CASE x = head
    <2>1. head' = none /\ next' = next
      BY <1>3 DEF Skip
    <2>2. Made' = Made /\ From' = From
      BY <2>1 DEF Made, From, Closed
    <2>3. LinksInv'
      BY <2>1, <2>2 DEF LinksInv, Closed
    <2>4. Linked' = {}
      <3>1. Linked' = From'[none]
        BY <1>2, <2>1 DEF LinkedFromHead, HeadOK
      <3>2. QED
        BY <2>2, <3>1, FromNone
    <2>5. QED
      BY <2>2, <2>3, <2>4
  <1>4. CASE x # head
    <2>1. /\ head' = head
          /\ \A y \in Item : next'[y] = IF y \in Linked /\ next[y] = x THEN next[x] ELSE next[y]
      BY <1>4 DEF Skip
    <2>2. next[x] \in Made \cup {none} /\ next[x] # x
      BY <1>1 DEF LinksInv, Closed, Made
    <2>3. \A S \in SUBSET Made : S # {} => \E y \in S : next'[y] \notin S
      <3>1. SUFFICES ASSUME NEW S \in SUBSET Made, S # {}, \A y \in S : next'[y] \in S
                     PROVE  FALSE
        OBVIOUS
      <3>2. CASE \E y \in S : y \in Linked /\ next[y] = x
        <4>1. \A y \in S \cup {x} : next[y] \in S \cup {x}
          BY <1>1, <2>1, <3>1, <3>2
        <4>2. S \cup {x} \in SUBSET Made
          BY <1>1
        <4>3. QED
          BY <4>1, <4>2 DEF LinksInv
      <3>3. CASE ~\E y \in S : y \in Linked /\ next[y] = x
        <4>1. \A y \in S : next[y] \in S
          BY <1>1, <2>1, <3>1, <3>3
        <4>2. QED
          BY <3>1, <4>1 DEF LinksInv
      <3>4. QED
        BY <3>2, <3>3
    <2>4. Made' = Made
      <3>1. \A y \in Item : next[y] = x => next[x] # y \/ y = x
        <4>1. SUFFICES ASSUME NEW y \in Item, next[y] = x, next[x] = y, y # x PROVE FALSE
          OBVIOUS
        <4>2. {x, y} \in SUBSET Made
          BY <1>1, <4>1 DEF Made
        <4>3. QED
          BY <4>1, <4>2 DEF LinksInv
      <3>2. QED
        BY <1>1, <2>1, <2>2, <3>1 DEF Made
    <2>5. LinksInv'
      <3>1. Closed(Made)'
        BY <1>1, <2>1, <2>2, <2>4 DEF Closed, LinksInv
      <3>2. QED
        BY <1>1, <2>1, <2>3, <2>4, <3>1 DEF LinksInv
    <2>6. ASSUME NEW a \in Made \cup {none}
          PROVE  From'[a] \subseteq From[a] /\ From[a] \ {x} \subseteq From'[a]
      <3>1. a \in Item \cup {none}
        BY <1>1
      <3>2. PICK F : F = From[a]
        OBVIOUS
      <3>3. Closed(F) /\ a \in F \cup {none} /\ F \in SUBSET Made
        BY <3>2, FromClosed
      <3>4. Closed(F)'
        BY <1>1, <2>1, <2>4, <3>3 DEF Closed
      <3>5. From'[a] \subseteq F
        BY <1>1, <1>2, <3>1, <3>3, <3>4 DEF Least
      <3>6. ASSUME NEW S \in SUBSET Item, Closed(S)', a \in S \cup {none}
            PROVE  F \ {x} \subseteq S
        <4>1. S \in SUBSET Made
          BY <2>4, <3>6 DEF Closed
        <4>2. CASE x \notin S /\ \E y \in S : y \in Linked /\ next[y] = x
          <5>1. Closed(S \cup {x})
            BY <1>1, <2>1, <2>4, <3>6, <4>1, <4>2 DEF Closed
          <5>2. S \cup {x} \in SUBSET Item /\ a \in (S \cup {x}) \cup {none}
            BY <1>1, <3>6
          <5>3. QED
            BY <1>2, <3>1, <3>2, <5>1, <5>2 DEF Least
        <4>3. CASE x \in S \/ ~\E y \in S : y \in Linked /\ next[y] = x
          <5>1. Closed(S)
            BY <1>1, <2>1, <2>4, <3>6, <4>1, <4>3 DEF Closed
          <5>2. QED
            BY <1>2, <3>1, <3>2, <3>6, <5>1 DEF Least
        <4>4. QED
          BY <4>2, <4>3
      <3>7. F \ {x} \subseteq From'[a]
        BY <1>1, <1>2, <2>4, <3>1, <3>3, <3>6 DEF Member
      <3>8. QED
        BY <3>2, <3>5, <3>7
    <2>7. Linked' \subseteq Linked \ {x}
      <3>1. Linked = From[head] /\ Linked' = From'[head]
        BY <1>1, <1>2, <2>1 DEF LinkedFromHead, HeadOK
      <3>2. PICK F : F = Linked
        OBVIOUS
      <3>3. Closed(F) /\ head \in F \cup {none} /\ F \in SUBSET Made
        BY <1>1, <3>1, <3>2, FromClosed
      <3>4. Closed(F \ {x})'
        BY <1>1, <2>1, <2>2, <2>4, <3>2, <3>3 DEF Closed
      <3>5. head \in (F \ {x}) \cup {none} /\ F \ {x} \in SUBSET Item
        BY <1>1, <1>4, <3>3
      <3>6. From'[head] \subseteq F \ {x}
        BY <1>1, <1>2, <3>4, <3>5 DEF Least
      <3>7. QED
        BY <3>1, <3>2, <3>6
    <2>8. QED
      BY <2>4, <2>5, <2>6, <2>7
  <1>5. QED
    BY <1>3, <1>4

LEMMA SameLinks ==
  ASSUME UNCHANGED links
  PROVE  Made' = Made /\ From' = From /\ Linked' = Linked /\ (LinksInv => LinksInv')
  <1>1. UNCHANGED <<next, head>>
    BY DEF links
  <1>2. QED
    BY <1>1 DEF Made, From, Linked, Closed, LinksInv

(***************************************************************************)
(* How many are inside.                                                    *)
(***************************************************************************)
LEMMA FiniteInside == IsFiniteSet(Inside) /\ Cardinality(Inside) \in Nat
  <1>1. Inside \subseteq Thread
    BY DEF Inside
  <1>2. QED
    BY <1>1, Apart, FS_Subset, FS_CardinalityType

LEMMA Entered ==
  ASSUME RefInv, NEW th \in Thread, th \notin Inside, Inside' = Inside \cup {th}, ref' = ref + 1
  PROVE  ref' = Cardinality(Inside') /\ Inside' # {} /\ ref' \in Nat
  BY FiniteInside, FS_AddElement DEF RefInv

LEMMA Left ==
  ASSUME RefInv, NEW th \in Inside, Inside' = Inside \ {th}, ref' = ref - 1
  PROVE  /\ ref' = Cardinality(Inside') /\ ref' \in Nat
         /\ ref = 1 <=> Inside' = {}
  <1>1. IsFiniteSet(Inside \ {th}) /\ Cardinality(Inside \ {th}) = Cardinality(Inside) - 1
    BY FiniteInside, FS_RemoveElement
  <1>2. Cardinality(Inside \ {th}) \in Nat /\ (Cardinality(Inside \ {th}) = 0 <=> Inside \ {th} = {})
    BY <1>1, FS_CardinalityType, FS_EmptySet
  <1>3. QED
    BY <1>1, <1>2, FiniteInside DEF RefInv
-----------------------------------------------------------------------------
(***************************************************************************)
(* Every step keeps the invariant.                                         *)
(***************************************************************************)
LEMMA AddInv ==
  ASSUME IInv, NEW w \in Writer, NEW x \in Item, Add(w, x)
  PROVE  IInv'
  <1>1. /\ TypeOK /\ LinksInv /\ WalkInv /\ NestInv /\ RefInv /\ GarbageInv
        /\ x \in Item \ Made /\ next' = [next EXCEPT ![x] = head] /\ head' = x
        /\ nest = none
        /\ UNCHANGED <<ref, needRecycle, garbage, nest, pc, at, seen, owed, target, freed, late>>
    BY DEF IInv, Add, walks
  <1>2. /\ LinksInv' /\ Made' = Made \cup {x}
        /\ \A a \in Made \cup {none} : From'[a] = From[a]
        /\ Linked' = Linked \cup {x}
    BY <1>1, AddLinks
  <1>3. TypeOK'
    <2>1. next' \in [Item -> Item \cup {none}]
      BY <1>1 DEF TypeOK
    <2>2. QED
      BY <1>1, <1>2, <2>1 DEF TypeOK
  <1>4. WalkInv'
    BY <1>1, <1>2 DEF WalkInv
  <1>5. NestInv'
    BY <1>1, Apart DEF NestInv
  <1>6. RefInv'
    BY <1>1 DEF RefInv, Inside, Ending
  <1>7. GarbageInv'
    <2>1. x \notin garbage \cup freed
      BY <1>1 DEF TypeOK
    <2>2. \A v \in Writer : pc[v] # "collect"
      BY <1>1, Apart DEF NestInv
    <2>3. \A r \in Reader : pc[r] = "walk" => From'[at[r]] = From[at[r]]
      BY <1>1, <1>2 DEF WalkInv
    <2>4. QED
      BY <1>1, <1>2, <2>1, <2>2, <2>3 DEF GarbageInv, Ending
  <1>8. QED
    BY <1>2, <1>3, <1>4, <1>5, <1>6, <1>7 DEF IInv

LEMMA RemoveInv ==
  ASSUME IInv, NEW w \in Writer, NEW x \in Item, Remove(w, x)
  PROVE  IInv'
  <1>1. /\ TypeOK /\ LinksInv /\ WalkInv /\ NestInv /\ RefInv /\ GarbageInv
        /\ x \in Made /\ pc[w] = "out" /\ pc' = [pc EXCEPT ![w] = "unlink"]
        /\ nest = none /\ nest' = w /\ target' = x /\ ref' = ref + 1
        /\ UNCHANGED <<links, needRecycle, garbage, at, seen, owed, freed, late>>
    BY DEF IInv, Remove, Goto, walks
  <1>2. LinksInv' /\ Made' = Made /\ From' = From /\ Linked' = Linked /\ UNCHANGED <<next, head>>
    BY <1>1, SameLinks DEF links
  <1>3. w \in Thread /\ w \notin Reader /\ \A th \in Thread : pc'[th] = IF th = w THEN "unlink" ELSE pc[th]
    BY <1>1, Apart DEF TypeOK
  <1>4. Inside' = Inside \cup {w} /\ w \notin Inside
    BY <1>1, <1>3 DEF Inside
  <1>5. TypeOK'
    BY <1>1, <1>2, <1>3, Apart DEF TypeOK
  <1>6. WalkInv'
    BY <1>1, <1>2, <1>3, Apart DEF WalkInv
  <1>7. NestInv'
    BY <1>1, <1>2, <1>3, Apart DEF NestInv
  <1>8. RefInv'
    BY <1>1, <1>4, <1>3, Entered DEF RefInv
  <1>9. GarbageInv'
    <2>1. /\ \A v \in Writer : pc'[v] # "collect"
          /\ \A th \in Thread : \A q \in {"check", "delete", "clear", "walk"} :
               pc'[th] = q <=> pc[th] = q
      BY <1>1, <1>3, Apart DEF NestInv
    <2>2. (\E th \in Thread : Ending(th)') <=> \E th \in Thread : Ending(th)
      BY <2>1 DEF Ending
    <2>3. QED
      BY <1>1, <1>2, <2>1, <2>2, Apart DEF GarbageInv
  <1>10. QED
    BY <1>2, <1>5, <1>6, <1>7, <1>8, <1>9 DEF IInv

LEMMA UnlinkInv ==
  ASSUME IInv, NEW w \in Writer, Unlink(w)
  PROVE  IInv'
  <1> DEFINE q == IF target \in Linked THEN "collect" ELSE "leave"
  <1>1. /\ TypeOK /\ LinksInv /\ WalkInv /\ NestInv /\ RefInv /\ GarbageInv
        /\ pc[w] = "unlink" /\ pc' = [pc EXCEPT ![w] = q]
        /\ IF target \in Linked THEN Skip(target) ELSE UNCHANGED links
        /\ owed' = [r \in Reader |-> owed[r] \ {target}]
        /\ UNCHANGED <<ref, needRecycle, garbage, nest, at, seen, target, freed, late>>
    BY DEF IInv, Unlink, Goto
  <1>2. /\ LinksInv' /\ Made' = Made
        /\ \A a \in Made \cup {none} :
             From'[a] \subseteq From[a] /\ From[a] \ {target} \subseteq From'[a]
        /\ Linked' \subseteq Linked
        /\ q = "collect" => target \notin Linked'
    <2>1. CASE target \in Linked
      BY <1>1, <2>1, SkipLinks
    <2>2. CASE target \notin Linked
      BY <1>1, <2>2, SameLinks
    <2>3. QED
      BY <2>1, <2>2
  <1>3. w \in Thread /\ w \notin Reader /\ \A th \in Thread : pc'[th] = IF th = w THEN q ELSE pc[th]
    BY <1>1, Apart DEF TypeOK
  <1>4. nest = w /\ target \in Made /\ \A v \in Writer : v # w => pc[v] = "out"
    BY <1>1 DEF NestInv
  <1>5. q \in {"collect", "leave"} /\ (q = "collect" => target \in Linked)
    OBVIOUS
  <1>6. TypeOK'
    <2>1. next' \in [Item -> Item \cup {none}] /\ head' \in Item \cup {none}
      <3>1. CASE target \in Linked /\ target # head
        <4>1. target \in Item
          BY <1>4, MadeItems
        <4>2. /\ head' = head
              /\ next' = [y \in Item |-> IF y \in Linked /\ next[y] = target THEN next[target]
                                        ELSE next[y]]
          BY <1>1, <3>1 DEF Skip
        <4>3. QED
          BY <1>1, <4>1, <4>2 DEF TypeOK
      <3>2. CASE target \in Linked /\ target = head
        BY <1>1, <3>2 DEF Skip, TypeOK
      <3>3. CASE target \notin Linked
        BY <1>1, <3>3 DEF links, TypeOK
      <3>4. QED
        BY <3>1, <3>2, <3>3
    <2>2. owed' \in [Reader -> SUBSET Item]
      BY <1>1 DEF TypeOK
    <2>3. pc' \in [Thread -> Steps \cup {"unlink", "collect", "head", "walk"}]
      BY <1>1, <1>5 DEF TypeOK, Steps
    <2>4. /\ \A v \in Writer : pc'[v] \in Steps \cup {"unlink", "collect"}
          /\ \A r \in Reader : pc'[r] \in Steps \cup {"head", "walk"}
      BY <1>1, <1>3, <1>5, Apart DEF TypeOK, Steps
    <2>5. QED
      BY <1>1, <1>2, <2>1, <2>2, <2>3, <2>4 DEF TypeOK
  <1> HIDE DEF q
  <1>7. WalkInv'
    <2>1. \A r \in Reader : pc'[r] = pc[r] /\ owed'[r] = owed[r] \ {target}
      BY <1>1, <1>3, Apart
    <2>2. QED
      BY <1>1, <1>2, <2>1 DEF WalkInv
  <1>8. NestInv'
    BY <1>1, <1>2, <1>3, <1>4, <1>5 DEF NestInv
  <1>9. Inside' = Inside /\ \A th \in Thread : Ending(th)' <=> Ending(th)
    BY <1>1, <1>3, <1>5 DEF Inside, Ending
  <1>10. RefInv'
    BY <1>1, <1>9 DEF RefInv
  <1>11. GarbageInv'
    <2>1. \A th \in Thread : \A p \in {"delete", "clear", "walk"} : pc'[th] = p <=> pc[th] = p
      BY <1>1, <1>3, <1>5
    <2>2. \A r \in Reader : pc[r] = "walk" => From'[at[r]] \subseteq From[at[r]]
      BY <1>1, <1>2 DEF WalkInv
    <2>3. \A v \in Writer : pc'[v] = "collect" => target \in Linked
      BY <1>3, <1>4, <1>5, Apart
    <2>4. QED
      BY <1>1, <1>2, <1>9, <2>1, <2>2, <2>3, Apart DEF GarbageInv
  <1>12. QED
    BY <1>2, <1>6, <1>7, <1>8, <1>10, <1>11 DEF IInv

LEMMA CollectInv ==
  ASSUME IInv, NEW w \in Writer, Collect(w)
  PROVE  IInv'
  <1>1. /\ TypeOK /\ LinksInv /\ WalkInv /\ NestInv /\ RefInv /\ GarbageInv
        /\ pc[w] = "collect" /\ pc' = [pc EXCEPT ![w] = "leave"]
        /\ garbage' = garbage \cup {target} /\ needRecycle' = TRUE
        /\ late' = (late \/ \E th \in Thread : Ending(th))
        /\ UNCHANGED <<links, ref, nest, at, seen, owed, target, freed>>
    BY DEF IInv, Collect, Goto, walks
  <1>2. LinksInv' /\ Made' = Made /\ From' = From /\ Linked' = Linked /\ UNCHANGED <<next, head>>
    BY <1>1, SameLinks DEF links
  <1>3. w \in Thread /\ w \notin Reader /\ \A th \in Thread : pc'[th] = IF th = w THEN "leave" ELSE pc[th]
    BY <1>1, Apart DEF TypeOK
  <1>4. nest = w /\ target \in Made \ Linked /\ \A v \in Writer : v # w => pc[v] = "out"
    BY <1>1 DEF NestInv
  <1>5. TypeOK'
    <2>1. pc' \in [Thread -> Steps \cup {"unlink", "collect", "head", "walk"}]
      BY <1>1 DEF TypeOK, Steps
    <2>2. /\ \A v \in Writer : pc'[v] \in Steps \cup {"unlink", "collect"}
          /\ \A r \in Reader : pc'[r] \in Steps \cup {"head", "walk"}
      BY <1>1, <1>3, Apart DEF TypeOK, Steps
    <2>3. late' \in BOOLEAN
      BY <1>1 DEF TypeOK
    <2>4. QED
      BY <1>1, <1>2, <1>4, <2>1, <2>2, <2>3 DEF TypeOK
  <1>6. WalkInv'
    BY <1>1, <1>2, <1>3, Apart DEF WalkInv
  <1>7. NestInv'
    BY <1>1, <1>3, <1>4, Apart DEF NestInv
  <1>8. RefInv'
    <2>1. Inside' = Inside /\ w \in Inside
      BY <1>1, <1>3 DEF Inside
    <2>2. QED
      BY <1>1, <2>1 DEF RefInv
  <1>9. GarbageInv'
    <2>1. SUFFICES ASSUME ~late' PROVE GarbageInv'
      BY DEF GarbageInv
    <2>2. ~late /\ \A th \in Thread : pc[th] \notin {"check", "delete", "clear"}
      BY <1>1, <2>1 DEF TypeOK, Ending
    <2>3. \A th \in Thread : pc'[th] \notin {"check", "delete", "clear"}
      BY <1>3, <2>2
    <2>4. target \notin garbage \cup freed /\ garbage \cap freed = {}
      BY <1>1, <2>2 DEF GarbageInv
    <2>5. \A v \in Writer : pc'[v] # "collect"
      BY <1>3, <1>4, Apart
    <2>6. \A r \in Reader : pc'[r] = pc[r]
      BY <1>3, Apart
    <2>7. QED
      BY <1>1, <1>2, <1>4, <2>2, <2>3, <2>4, <2>5, <2>6 DEF GarbageInv, Ending
  <1>10. QED
    BY <1>2, <1>5, <1>6, <1>7, <1>8, <1>9 DEF IInv

\* The steps of a reader change nothing but where it is.
LEMMA EnterInv ==
  ASSUME IInv, NEW r \in Reader, Enter(r)
  PROVE  IInv'
  <1>1. /\ TypeOK /\ LinksInv /\ WalkInv /\ NestInv /\ RefInv /\ GarbageInv
        /\ pc[r] = "out" /\ pc' = [pc EXCEPT ![r] = "head"] /\ ref' = ref + 1
        /\ UNCHANGED <<links, needRecycle, garbage, nest, at, seen, owed, target, freed, late>>
    BY DEF IInv, Enter, Goto, walks
  <1>2. LinksInv' /\ Made' = Made /\ From' = From /\ Linked' = Linked /\ UNCHANGED <<next, head>>
    BY <1>1, SameLinks DEF links
  <1>3. r \in Thread /\ r \notin Writer /\ \A th \in Thread : pc'[th] = IF th = r THEN "head" ELSE pc[th]
    BY <1>1, Apart DEF TypeOK
  <1>4. Inside' = Inside \cup {r} /\ r \notin Inside
    BY <1>1, <1>3 DEF Inside
  <1>5. /\ ref' = Cardinality(Inside') /\ Inside' # {} /\ ref' \in Nat
    BY <1>1, <1>3, <1>4, Entered
  <1>6. TypeOK'
    BY <1>1, <1>2, <1>3, <1>5, Apart DEF TypeOK
  <1>7. WalkInv'
    BY <1>1, <1>2, <1>3, Apart DEF WalkInv
  <1>8. NestInv'
    BY <1>1, <1>2, <1>3, Apart DEF NestInv
  <1>9. RefInv'
    BY <1>1, <1>5 DEF RefInv
  <1>10. GarbageInv'
    <2>1. \A th \in Thread : /\ Ending(th)' <=> Ending(th)
                             /\ \A q \in {"collect", "delete", "clear", "walk"} :
                                  pc'[th] = q <=> pc[th] = q
      BY <1>1, <1>3 DEF Ending
    <2>2. QED
      BY <1>1, <1>2, <2>1, Apart DEF GarbageInv
  <1>11. QED
    BY <1>2, <1>6, <1>7, <1>8, <1>9, <1>10 DEF IInv

LEMMA ReadHeadInv ==
  ASSUME IInv, NEW r \in Reader, ReadHead(r)
  PROVE  IInv'
  <1> DEFINE q == IF head = none THEN "leave" ELSE "walk"
  <1>1. /\ TypeOK /\ LinksInv /\ WalkInv /\ NestInv /\ RefInv /\ GarbageInv
        /\ pc[r] = "head" /\ pc' = [pc EXCEPT ![r] = q]
        /\ at' = [at EXCEPT ![r] = head]
        /\ seen' = [seen EXCEPT ![r] = {}]
        /\ owed' = [owed EXCEPT ![r] = Linked]
        /\ UNCHANGED <<links, ref, needRecycle, garbage, nest, target, freed, late>>
    BY DEF IInv, ReadHead, Goto
  <1>2. LinksInv' /\ Made' = Made /\ From' = From /\ Linked' = Linked /\ UNCHANGED <<next, head>>
    BY <1>1, SameLinks DEF links
  <1>3. /\ r \in Thread /\ r \notin Writer /\ q \in {"leave", "walk"}
        /\ \A th \in Thread : pc'[th] = IF th = r THEN q ELSE pc[th]
    BY <1>1, Apart DEF TypeOK
  <1>4. /\ \A u \in Reader :
             /\ at'[u] = IF u = r THEN head ELSE at[u]
             /\ seen'[u] = IF u = r THEN {} ELSE seen[u]
             /\ owed'[u] = IF u = r THEN Linked ELSE owed[u]
        /\ Linked = From[head]
        /\ q = "walk" => head \in Made
        /\ q = "leave" => Linked = {}
    <2>1. Linked = From[head]
      BY <1>1, LinkedIs DEF TypeOK, LinkedFromHead, HeadOK
    <2>2. /\ q = "walk" => head \in Made
          /\ q = "leave" => Linked = {}
      BY <1>1, <2>1, FromNone DEF LinksInv
    <2>3. QED
      BY <1>1, <2>1, <2>2 DEF TypeOK
  <1> HIDE DEF q
  <1>5. Inside' = Inside /\ \A th \in Thread : Ending(th)' <=> Ending(th)
    BY <1>1, <1>3 DEF Inside, Ending
  <1>6. TypeOK'
    <2>1. pc' \in [Thread -> Steps \cup {"unlink", "collect", "head", "walk"}]
      BY <1>1, <1>3 DEF TypeOK, Steps
    <2>2. /\ \A v \in Writer : pc'[v] \in Steps \cup {"unlink", "collect"}
          /\ \A u \in Reader : pc'[u] \in Steps \cup {"head", "walk"}
      BY <1>1, <1>3, Apart DEF TypeOK, Steps
    <2>3. /\ at' \in [Reader -> Item \cup {none}] /\ seen' \in [Reader -> SUBSET Item]
          /\ owed' \in [Reader -> SUBSET Item]
      BY <1>1, MadeItems DEF TypeOK, Linked
    <2>4. QED
      BY <1>1, <1>2, <2>1, <2>2, <2>3 DEF TypeOK
  <1>7. WalkInv'
    BY <1>1, <1>2, <1>3, <1>4, Apart DEF WalkInv
  <1>8. NestInv'
    BY <1>1, <1>2, <1>3, Apart DEF NestInv
  <1>9. RefInv'
    BY <1>1, <1>5 DEF RefInv
  <1>10. GarbageInv'
    <2>1. \A th \in Thread : \A p \in {"collect", "delete", "clear"} : pc'[th] = p <=> pc[th] = p
      BY <1>1, <1>3
    <2>2. ASSUME ~late, NEW u \in Reader, pc'[u] = "walk"
          PROVE  /\ From[at'[u]] \cap freed = {}
                 /\ (\E th \in Thread : Ending(th)) => From[at'[u]] \cap garbage = {}
      BY <1>1, <1>3, <1>4, <2>2, Apart DEF GarbageInv
    <2>3. QED
      BY <1>1, <1>2, <1>5, <2>1, <2>2, Apart DEF GarbageInv
  <1>11. QED
    BY <1>2, <1>6, <1>7, <1>8, <1>9, <1>10 DEF IInv

LEMMA VisitInv ==
  ASSUME IInv, NEW r \in Reader, Visit(r)
  PROVE  IInv'
  <1> DEFINE q == IF next[at[r]] = none THEN "leave" ELSE "walk"
  <1>1. /\ TypeOK /\ LinksInv /\ WalkInv /\ NestInv /\ RefInv /\ GarbageInv
        /\ pc[r] = "walk" /\ pc' = [pc EXCEPT ![r] = q]
        /\ at' = [at EXCEPT ![r] = next[at[r]]]
        /\ seen' = [seen EXCEPT ![r] = @ \cup {at[r]}]
        /\ UNCHANGED <<links, ref, needRecycle, garbage, nest, owed, target, freed, late>>
    BY DEF IInv, Visit, Goto
  <1>2. LinksInv' /\ Made' = Made /\ From' = From /\ Linked' = Linked /\ UNCHANGED <<next, head>>
    BY <1>1, SameLinks DEF links
  <1>3. /\ r \in Thread /\ r \notin Writer /\ q \in {"leave", "walk"}
        /\ \A th \in Thread : pc'[th] = IF th = r THEN q ELSE pc[th]
    BY <1>1, Apart DEF TypeOK
  <1>4. /\ at[r] \in Made /\ next[at[r]] \in Made \cup {none}
        /\ From[at[r]] \subseteq {at[r]} \cup From[next[at[r]]]
        /\ From[next[at[r]]] \subseteq From[at[r]]
        /\ q = "walk" => next[at[r]] \in Made
        /\ q = "leave" => From[next[at[r]]] = {}
    BY <1>1, FromNext, FromNone DEF WalkInv
  <1>5. \A u \in Reader : /\ at'[u] = IF u = r THEN next[at[r]] ELSE at[u]
                          /\ seen'[u] = IF u = r THEN seen[u] \cup {at[r]} ELSE seen[u]
    BY <1>1 DEF TypeOK
  <1> HIDE DEF q
  <1>6. Inside' = Inside /\ \A th \in Thread : Ending(th)' <=> Ending(th)
    BY <1>1, <1>3 DEF Inside, Ending
  <1>7. TypeOK'
    <2>1. pc' \in [Thread -> Steps \cup {"unlink", "collect", "head", "walk"}]
      BY <1>1, <1>3 DEF TypeOK, Steps
    <2>2. /\ \A v \in Writer : pc'[v] \in Steps \cup {"unlink", "collect"}
          /\ \A u \in Reader : pc'[u] \in Steps \cup {"head", "walk"}
      BY <1>1, <1>3, Apart DEF TypeOK, Steps
    <2>3. at' \in [Reader -> Item \cup {none}] /\ seen' \in [Reader -> SUBSET Item]
      BY <1>1, <1>4, MadeItems DEF TypeOK
    <2>4. QED
      BY <1>1, <1>2, <2>1, <2>2, <2>3 DEF TypeOK
  <1>8. WalkInv'
    BY <1>1, <1>2, <1>3, <1>4, <1>5, Apart DEF WalkInv
  <1>9. NestInv'
    BY <1>1, <1>2, <1>3, Apart DEF NestInv
  <1>10. RefInv'
    BY <1>1, <1>6 DEF RefInv
  <1>11. GarbageInv'
    <2>1. \A th \in Thread : \A p \in {"collect", "delete", "clear"} : pc'[th] = p <=> pc[th] = p
      BY <1>1, <1>3
    <2>2. ASSUME ~late, NEW u \in Reader, pc'[u] = "walk"
          PROVE  /\ From[at'[u]] \cap freed = {}
                 /\ (\E th \in Thread : Ending(th)) => From[at'[u]] \cap garbage = {}
      BY <1>1, <1>3, <1>4, <1>5, <2>2, Apart DEF GarbageInv
    <2>3. QED
      BY <1>1, <1>2, <1>6, <2>1, <2>2, Apart DEF GarbageInv
  <1>12. QED
    BY <1>2, <1>7, <1>8, <1>9, <1>10, <1>11 DEF IInv

\* The end of remove and of for_each, of writers and readers: links and walks
\* stay, and the thread goes on to p, which is not where it walks.
LEMMA Ends ==
  ASSUME IInv, NEW th \in Thread, NEW p \in Steps \ {"leave"},
         pc' = [pc EXCEPT ![th] = p], pc[th] \in {"leave", "check", "delete", "clear"},
         IF p = "out" THEN Unlock(th) ELSE UNCHANGED nest,
         UNCHANGED <<links, walks, target>>
  PROVE  /\ LinksInv' /\ WalkInv' /\ NestInv' /\ Made' = Made /\ From' = From /\ Linked' = Linked
         /\ nest' \in Writer \cup {none}
         /\ pc' \in [Thread -> Steps \cup {"unlink", "collect", "head", "walk"}]
         /\ \A w \in Writer : pc'[w] \in Steps \cup {"unlink", "collect"}
         /\ \A r \in Reader : pc'[r] \in Steps \cup {"head", "walk"}
         /\ \A u \in Thread : pc'[u] = IF u = th THEN p ELSE pc[u]
         /\ UNCHANGED <<next, head, at, seen, owed>>
  <1>1. /\ TypeOK /\ LinksInv /\ WalkInv /\ NestInv
        /\ UNCHANGED <<next, head, at, seen, owed, target>>
    BY DEF IInv, links, walks
  <1>2. LinksInv' /\ Made' = Made /\ From' = From /\ Linked' = Linked
    BY <1>1, SameLinks
  <1>3. \A u \in Thread : pc'[u] = IF u = th THEN p ELSE pc[u]
    BY <1>1 DEF TypeOK
  <1>4. /\ pc' \in [Thread -> Steps \cup {"unlink", "collect", "head", "walk"}]
        /\ \A w \in Writer : pc'[w] \in Steps \cup {"unlink", "collect"}
        /\ \A r \in Reader : pc'[r] \in Steps \cup {"head", "walk"}
    BY <1>1, <1>3, Apart DEF TypeOK
  <1>5. p \notin {"walk", "leave", "unlink", "collect"}
    BY DEF Steps
  <1>6. WalkInv'
    BY <1>1, <1>2, <1>3, <1>5, Apart DEF WalkInv
  <1>7. NestInv' /\ nest' \in Writer \cup {none}
    <2>1. nest \in Writer \cup {none} /\ \A w \in Writer : pc[w] # "out" => nest = w
      BY <1>1 DEF TypeOK, NestInv
    <2>2. nest' \in Writer \cup {none}
      BY <2>1 DEF Unlock
    <2>3. ASSUME NEW w \in Writer, pc'[w] # "out" PROVE nest' = w
      BY <1>3, <2>1, <2>3, Apart DEF Unlock
    <2>4. ASSUME NEW w \in Writer
          PROVE  /\ pc'[w] = "unlink" => target \in Made
                 /\ pc'[w] = "collect" => target \in Made \ Linked
      BY <1>1, <1>3, <1>5, Apart DEF NestInv
    <2>5. QED
      BY <1>1, <1>2, <2>2, <2>3, <2>4 DEF NestInv
  <1>8. QED
    BY <1>1, <1>2, <1>3, <1>4, <1>6, <1>7

LEMMA LeaveInv ==
  ASSUME IInv, NEW th \in Thread, Leave(th)
  PROVE  IInv'
  <1> DEFINE p == IF ref = 1 THEN "check" ELSE "out"
  <1>1. /\ TypeOK /\ RefInv /\ GarbageInv
        /\ pc[th] = "leave" /\ pc' = [pc EXCEPT ![th] = p] /\ ref' = ref - 1
        /\ IF p = "out" THEN Unlock(th) ELSE UNCHANGED nest
        /\ UNCHANGED <<links, needRecycle, garbage, walks, target, freed, late>>
    BY DEF IInv, Leave, Goto
  <1>2. p \in Steps /\ p \in {"out", "check"} /\ (p = "check" <=> ref = 1)
    BY DEF Steps
  <1> HIDE DEF p
  <1>3. /\ LinksInv' /\ WalkInv' /\ NestInv' /\ Made' = Made /\ From' = From /\ Linked' = Linked
        /\ nest' \in Writer \cup {none}
        /\ pc' \in [Thread -> Steps \cup {"unlink", "collect", "head", "walk"}]
        /\ \A w \in Writer : pc'[w] \in Steps \cup {"unlink", "collect"}
        /\ \A r \in Reader : pc'[r] \in Steps \cup {"head", "walk"}
        /\ \A u \in Thread : pc'[u] = IF u = th THEN p ELSE pc[u]
        /\ UNCHANGED <<next, head, at, seen, owed>>
    BY <1>1, <1>2, Ends
  <1>4. Inside' = Inside \ {th} /\ th \in Inside
    BY <1>1, <1>2, <1>3 DEF Inside
  <1>5. ref' = Cardinality(Inside') /\ ref' \in Nat /\ (ref = 1 <=> Inside' = {})
    BY <1>1, <1>4, Left
  <1>6. TypeOK'
    BY <1>1, <1>3, <1>5 DEF TypeOK
  <1>7. RefInv'
    <2>1. Inside' # {} \/ pc'[th] = "check"
      BY <1>2, <1>3, <1>5
    <2>2. QED
      BY <1>1, <1>5, <2>1 DEF RefInv, Ending
  <1>8. GarbageInv'
    <2>1. \A u \in Thread : \A q \in {"collect", "delete", "clear", "walk"} : pc'[u] = q <=> pc[u] = q
      BY <1>1, <1>2, <1>3
    <2>2. CASE ref = 1
      <3>1. \A r \in Reader : pc'[r] # "walk"
        BY <1>5, <2>2, Apart DEF Inside
      <3>2. QED
        BY <1>1, <1>3, <2>1, <3>1, Apart DEF GarbageInv
    <2>3. CASE ref # 1
      <3>1. \A u \in Thread : Ending(u)' <=> Ending(u)
        BY <1>1, <1>2, <1>3, <2>3 DEF Ending
      <3>2. QED
        BY <1>1, <1>3, <2>1, <3>1, Apart DEF GarbageInv
    <2>4. QED
      BY <2>2, <2>3
  <1>9. QED
    BY <1>3, <1>6, <1>7, <1>8 DEF IInv

LEMMA CheckInv ==
  ASSUME IInv, NEW th \in Thread, Check(th)
  PROVE  IInv'
  <1> DEFINE p == IF needRecycle THEN "delete" ELSE "out"
  <1>1. /\ TypeOK /\ RefInv /\ GarbageInv
        /\ pc[th] = "check" /\ pc' = [pc EXCEPT ![th] = p]
        /\ IF p = "out" THEN Unlock(th) ELSE UNCHANGED nest
        /\ IF p = "delete" THEN late' = (late \/ \E u \in Thread : pc[u] \in {"delete", "clear"})
                           ELSE late' = late
        /\ UNCHANGED <<links, ref, needRecycle, garbage, walks, target, freed>>
    BY DEF IInv, Check, Goto
  <1>2. p \in Steps /\ p \in {"out", "delete"} /\ (p = "out" => ~needRecycle)
    BY DEF Steps
  <1> HIDE DEF p
  <1>3. /\ LinksInv' /\ WalkInv' /\ NestInv' /\ Made' = Made /\ From' = From /\ Linked' = Linked
        /\ nest' \in Writer \cup {none}
        /\ pc' \in [Thread -> Steps \cup {"unlink", "collect", "head", "walk"}]
        /\ \A w \in Writer : pc'[w] \in Steps \cup {"unlink", "collect"}
        /\ \A r \in Reader : pc'[r] \in Steps \cup {"head", "walk"}
        /\ \A u \in Thread : pc'[u] = IF u = th THEN p ELSE pc[u]
        /\ UNCHANGED <<next, head, at, seen, owed>>
    BY <1>1, <1>2, Ends
  <1>4. TypeOK'
    <2>1. late' \in BOOLEAN
      BY <1>1 DEF TypeOK
    <2>2. QED
      BY <1>1, <1>3, <2>1 DEF TypeOK
  <1>5. RefInv'
    <2>1. Inside' = Inside
      BY <1>1, <1>2, <1>3 DEF Inside
    <2>2. garbage # {} => pc'[th] = "delete"
      BY <1>1, <1>2, <1>3 DEF RefInv
    <2>3. QED
      BY <1>1, <2>1, <2>2 DEF RefInv, Ending
  <1>6. GarbageInv'
    <2>1. SUFFICES ASSUME ~late' PROVE GarbageInv'
      BY DEF GarbageInv
    <2>2. ~late
      BY <1>1, <2>1 DEF TypeOK
    <2>3. \A u \in Thread : Ending(u)' => Ending(u)
      BY <1>1, <1>2, <1>3 DEF Ending
    <2>4. \A u \in Thread : \A q \in {"collect", "clear", "walk"} : pc'[u] = q <=> pc[u] = q
      BY <1>1, <1>2, <1>3
    <2>5. \A u, v \in Thread : pc'[u] \in {"delete", "clear"} /\ pc'[v] \in {"delete", "clear"} => u = v
      <3>1. CASE p = "delete"
        BY <1>1, <1>3, <2>1, <3>1 DEF TypeOK
      <3>2. CASE p = "out"
        BY <1>1, <1>3, <2>2, <3>2 DEF GarbageInv
      <3>3. QED
        BY <1>2, <3>1, <3>2
    <2>6. QED
      BY <1>1, <1>3, <2>2, <2>3, <2>4, <2>5, Apart DEF GarbageInv
  <1>7. QED
    BY <1>3, <1>4, <1>5, <1>6 DEF IInv

LEMMA DeleteInv ==
  ASSUME IInv, NEW th \in Thread, Delete(th)
  PROVE  IInv'
  <1>1. /\ TypeOK /\ RefInv /\ GarbageInv
        /\ pc[th] = "delete" /\ pc' = [pc EXCEPT ![th] = "clear"]
        /\ freed' = freed \cup garbage
        /\ UNCHANGED <<links, ref, needRecycle, garbage, nest, walks, target, late>>
    BY DEF IInv, Delete, Goto
  <1>2. "clear" \in Steps
    BY DEF Steps
  <1>3. /\ LinksInv' /\ WalkInv' /\ NestInv' /\ Made' = Made /\ From' = From /\ Linked' = Linked
        /\ nest' \in Writer \cup {none}
        /\ pc' \in [Thread -> Steps \cup {"unlink", "collect", "head", "walk"}]
        /\ \A w \in Writer : pc'[w] \in Steps \cup {"unlink", "collect"}
        /\ \A r \in Reader : pc'[r] \in Steps \cup {"head", "walk"}
        /\ \A u \in Thread : pc'[u] = IF u = th THEN "clear" ELSE pc[u]
        /\ UNCHANGED <<next, head, at, seen, owed>>
    BY <1>1, <1>2, Ends
  <1>4. TypeOK'
    BY <1>1, <1>3 DEF TypeOK
  <1>5. Inside' = Inside /\ \A u \in Thread : Ending(u)' <=> Ending(u)
    BY <1>1, <1>3 DEF Inside, Ending
  <1>6. RefInv'
    BY <1>1, <1>5 DEF RefInv
  <1>7. GarbageInv'
    <2>1. Ending(th) /\ pc'[th] = "clear"
      BY <1>1, <1>3 DEF Ending
    <2>2. \A u \in Thread : /\ \A q \in {"collect", "walk"} : pc'[u] = q <=> pc[u] = q
                            /\ pc'[u] \in {"delete", "clear"} <=> pc[u] \in {"delete", "clear"}
      BY <1>1, <1>3
    <2>3. QED
      BY <1>1, <1>3, <2>1, <2>2, Apart DEF GarbageInv
  <1>8. QED
    BY <1>3, <1>4, <1>6, <1>7 DEF IInv

LEMMA ClearInv ==
  ASSUME IInv, NEW th \in Thread, Clear(th)
  PROVE  IInv'
  <1>1. /\ TypeOK /\ RefInv /\ GarbageInv
        /\ pc[th] = "clear" /\ pc' = [pc EXCEPT ![th] = "out"]
        /\ garbage' = {} /\ Unlock(th)
        /\ UNCHANGED <<links, ref, needRecycle, walks, target, freed, late>>
    BY DEF IInv, Clear, Goto
  <1>2. "out" \in Steps
    BY DEF Steps
  <1>3. /\ LinksInv' /\ WalkInv' /\ NestInv' /\ Made' = Made /\ From' = From /\ Linked' = Linked
        /\ nest' \in Writer \cup {none}
        /\ pc' \in [Thread -> Steps \cup {"unlink", "collect", "head", "walk"}]
        /\ \A w \in Writer : pc'[w] \in Steps \cup {"unlink", "collect"}
        /\ \A r \in Reader : pc'[r] \in Steps \cup {"head", "walk"}
        /\ \A u \in Thread : pc'[u] = IF u = th THEN "out" ELSE pc[u]
        /\ UNCHANGED <<next, head, at, seen, owed>>
    BY <1>1, <1>2, Ends
  <1>4. TypeOK'
    BY <1>1, <1>3 DEF TypeOK
  <1>5. Inside' = Inside
    BY <1>1, <1>3 DEF Inside
  <1>6. RefInv'
    BY <1>1, <1>5 DEF RefInv
  <1>7. GarbageInv'
    <2>1. \A u \in Thread : \A q \in {"collect", "walk", "delete", "clear"} : pc'[u] = q => pc[u] = q
      BY <1>3
    <2>2. QED
      BY <1>1, <1>3, <2>1, Apart DEF GarbageInv
  <1>8. QED
    BY <1>3, <1>4, <1>6, <1>7 DEF IInv
-----------------------------------------------------------------------------
LEMMA InitInv == Init => IInv
  <1> SUFFICES ASSUME Init PROVE IInv
    OBVIOUS
  <1>1. Made = {} /\ head = none /\ \A th \in Thread : pc[th] = "out"
    BY DEF Init, Made
  <1>2. TypeOK
    BY <1>1, Apart DEF Init, TypeOK, Steps
  <1>3. LinksInv
    BY <1>1 DEF LinksInv, Closed
  <1>4. WalkInv /\ NestInv
    BY <1>1, Apart DEF WalkInv, NestInv
  <1>5. RefInv
    <2>1. Inside = {}
      BY <1>1 DEF Inside
    <2>2. QED
      BY <2>1, FS_EmptySet DEF Init, RefInv
  <1>6. GarbageInv
    BY <1>1, Apart DEF Init, GarbageInv
  <1>7. QED
    BY <1>2, <1>3, <1>4, <1>5, <1>6 DEF IInv

LEMMA NextInv == IInv /\ [Next]_vars => IInv'
  <1> SUFFICES ASSUME IInv, [Next]_vars PROVE IInv'
    OBVIOUS
  <1>1. CASE UNCHANGED vars
    <2>1. /\ UNCHANGED <<links, next, head, ref, needRecycle, garbage, nest, pc, at, seen, owed, target, freed, late>>
      BY <1>1 DEF vars, links, walks
    <2>2. LinksInv' /\ Made' = Made /\ From' = From /\ Linked' = Linked
      BY <2>1, SameLinks DEF IInv
    <2>3. TypeOK'
      BY <2>1, <2>2 DEF IInv, TypeOK
    <2>4. WalkInv' /\ NestInv'
      BY <2>1, <2>2 DEF IInv, WalkInv, NestInv
    <2>5. RefInv'
      BY <2>1 DEF IInv, RefInv, Inside, Ending
    <2>6. GarbageInv'
      BY <2>1, <2>2 DEF IInv, GarbageInv, Ending
    <2>7. QED
      BY <2>2, <2>3, <2>4, <2>5, <2>6 DEF IInv
  <1>2. QED
    BY <1>1, AddInv, RemoveInv, UnlinkInv, CollectInv, EnterInv, ReadHeadInv, VisitInv,
       LeaveInv, CheckInv, DeleteInv, ClearInv DEF Next

\* The invariant that the theorems below rest on.
THEOREM Invariance == Spec => []IInv
  BY InitInv, NextInv, PTL DEF Spec

\* A reader that comes to the end has called its function for all that was
\* there when it began and was not removed, however many threads edit and
\* however long the list is.
THEOREM WalksAreComplete == Spec => []VisitsStable
  <1>1. IInv => VisitsStable
    BY DEF IInv, WalkInv, VisitsStable
  <1>2. QED
    BY <1>1, Invariance, PTL

\* No thread that comes to its recycle too late means: what walks may come to
\* is not deleted, nothing is deleted twice, and no garbage stays behind.
THEOREM RecycleIsSafe == Spec => []RecyclesInTime
  <1>1. IInv => RecyclesInTime
    <2> SUFFICES ASSUME IInv, ~late
                 PROVE  /\ \A r \in Reader : pc[r] = "walk" => at[r] \notin freed
                        /\ \A x \in Linked : x \notin freed
                        /\ \A th \in Thread : pc[th] = "delete" => garbage \cap freed = {}
                        /\ (\A th \in Thread : pc[th] = "out") => garbage = {}
      BY DEF RecyclesInTime
    <2>1. ASSUME NEW r \in Reader, pc[r] = "walk" PROVE at[r] \notin freed
      <3>1. at[r] \in Made /\ at[r] # none
        BY <2>1, MadeItems, Apart DEF IInv, WalkInv
      <3>2. at[r] \in From[at[r]]
        BY <3>1, FromClosed DEF IInv
      <3>3. QED
        BY <2>1, <3>2 DEF IInv, GarbageInv
    <2>2. \A x \in Linked : x \notin freed
      BY DEF IInv, GarbageInv
    <2>3. ASSUME NEW th \in Thread, pc[th] = "delete" PROVE garbage \cap freed = {}
      <3>1. \A u \in Thread : pc[u] # "clear"
        BY <2>3 DEF IInv, GarbageInv
      <3>2. QED
        BY <3>1 DEF IInv, GarbageInv
    <2>4. ASSUME \A th \in Thread : pc[th] = "out" PROVE garbage = {}
      BY <2>4 DEF IInv, RefInv, Inside, Ending
    <2>5. QED
      BY <2>1, <2>2, <2>3, <2>4
  <1>2. QED
    BY <1>1, Invariance, PTL
=============================================================================
