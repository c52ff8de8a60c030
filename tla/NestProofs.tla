----------------------------- MODULE NestProofs -----------------------------
(***************************************************************************)
(* Proofs about Nest, for every tree of spores and any number of threads:  *)
(* what the lists of the graph hold while edits run into each other.  And  *)
(* about NestClone: that the copy of a spore has its shape.                *)
(***************************************************************************)
EXTENDS NestClone, SequenceTheorems, TLAPS

\* A list without repetition knows the place of what it holds.
LEMMA AtPlace ==
  ASSUME NEW q, NEW x \in Range(q)
  PROVE  At(q, x) \in DOMAIN q /\ q[At(q, x)] = x
BY DEF At, Range

LEMMA AppendAt ==
  ASSUME NEW S, NEW q \in Seq(S), NEW x \in S
  PROVE  /\ Append(q, x) \in Seq(S)
         /\ Len(q) \in Nat /\ DOMAIN q = 1..Len(q)
         /\ DOMAIN Append(q, x) = 1..(Len(q) + 1)
         /\ \A i \in 1..Len(q) : Append(q, x)[i] = q[i]
         /\ Append(q, x)[Len(q) + 1] = x
BY AppendProperties, LenProperties

LEMMA AppendList ==
  ASSUME NEW S, NEW q \in Seq(S), NEW x \in S
  PROVE  /\ Append(q, x) \in Seq(S)
         /\ Range(Append(q, x)) = Range(q) \cup {x}
         /\ IsInjective(q) /\ x \notin Range(q) => IsInjective(Append(q, x))
<1>1. /\ Append(q, x) \in Seq(S)
      /\ \A i \in 1..Len(q) : Append(q, x)[i] = q[i]
      /\ Append(q, x)[Len(q) + 1] = x
  BY AppendAt
<1>2. /\ Len(q) \in Nat /\ DOMAIN q = 1..Len(q)
      /\ DOMAIN Append(q, x) = 1..(Len(q) + 1)
  BY AppendAt
<1>3. Range(Append(q, x)) = Range(q) \cup {x}
  BY <1>1, <1>2 DEF Range
<1>4. IsInjective(q) /\ x \notin Range(q) => IsInjective(Append(q, x))
  BY <1>1, <1>2 DEF Range, IsInjective
<1> QED BY <1>1, <1>3, <1>4

\* What is there keeps its order, and x comes after it.
LEMMA AppendBefore ==
  ASSUME NEW S, NEW q \in Seq(S), NEW x \in S, NEW y, NEW z
  PROVE  /\ Before(q, y, z) => Before(Append(q, x), y, z)
         /\ y \in Range(q) => Before(Append(q, x), y, x)
         /\ Before(Append(q, x), y, z) =>
              Before(q, y, z) \/ (y \in Range(q) /\ z = x)
<1> DEFINE a == Append(q, x)
           n == Len(q)
<1>1. /\ n \in Nat /\ DOMAIN q = 1..n /\ DOMAIN a = 1..(n + 1)
      /\ \A i \in 1..n : a[i] = q[i]
      /\ a[n + 1] = x
  BY AppendAt
<1> HIDE DEF a, n
<1>2. Before(q, y, z) => Before(a, y, z)
  BY <1>1 DEF Before
<1>3. ASSUME y \in Range(q) PROVE Before(a, y, x)
  <2>1. PICK i \in 1..n : q[i] = y
    BY <1>1, <1>3 DEF Range
  <2>2. i \in DOMAIN a /\ n + 1 \in DOMAIN a /\ i < n + 1 /\ a[i] = y
    BY <1>1, <2>1
  <2> QED BY <1>1, <2>2 DEF Before
<1>4. ASSUME Before(a, y, z) PROVE Before(q, y, z) \/ (y \in Range(q) /\ z = x)
  <2>1. PICK i \in DOMAIN a, j \in DOMAIN a : i < j /\ a[i] = y /\ a[j] = z
    BY <1>4 DEF Before
  <2>2. i \in DOMAIN q /\ q[i] = y
    BY <1>1, <2>1
  <2>3. CASE j = n + 1
    BY <1>1, <2>1, <2>2, <2>3 DEF Range
  <2>4. CASE j # n + 1
    <3>1. j \in DOMAIN q /\ q[j] = z
      BY <1>1, <2>1, <2>4
    <3> QED BY <3>1, <2>1, <2>2 DEF Before
  <2> QED BY <2>3, <2>4
<1> QED BY <1>2, <1>3, <1>4 DEF a

\* What is there keeps its order, and x comes before it.
LEMMA LinkList ==
  ASSUME NEW S, NEW q \in Seq(S), NEW x \in S
  PROVE  /\ Link(q, x) \in Seq(S)
         /\ Range(Link(q, x)) = Range(q) \cup {x}
         /\ IsInjective(q) /\ x \notin Range(q) => IsInjective(Link(q, x))
         /\ \A y, z : Before(q, y, z) => Before(Link(q, x), y, z)
         /\ \A y \in Range(q) : Before(Link(q, x), x, y)
         /\ \A y, z : Before(Link(q, x), y, z) =>
                         Before(q, y, z) \/ (y = x /\ z \in Range(q))
<1>1. <<x>> \in Seq(S) /\ Len(<<x>>) = 1 /\ <<x>>[1] = x
  OBVIOUS
<1>2. /\ Link(q, x) \in Seq(S)
      /\ Len(Link(q, x)) = 1 + Len(q)
      /\ \A i \in 1..(1 + Len(q)) :
           Link(q, x)[i] = IF i <= 1 THEN <<x>>[i] ELSE q[i - 1]
  BY <1>1, ConcatProperties DEF Link
<1>3. /\ Len(q) \in Nat /\ DOMAIN q = 1..Len(q)
      /\ DOMAIN Link(q, x) = 1..(1 + Len(q))
  BY <1>2, LenProperties
<1>4. /\ Link(q, x)[1] = x
      /\ \A i \in 1..Len(q) : Link(q, x)[i + 1] = q[i]
      /\ \A i \in 1..(1 + Len(q)) : i # 1 => i - 1 \in 1..Len(q) /\ Link(q, x)[i] = q[i - 1]
  BY <1>1, <1>2, <1>3
<1>5. Range(Link(q, x)) = Range(q) \cup {x}
  <2>1. ASSUME NEW y \in Range(Link(q, x)) PROVE y \in Range(q) \cup {x}
    <3>1. PICK i \in 1..(1 + Len(q)) : y = Link(q, x)[i]
      BY <1>3 DEF Range
    <3> QED BY <3>1, <1>3, <1>4 DEF Range
  <2>2. ASSUME NEW y \in Range(q) PROVE y \in Range(Link(q, x))
    <3>1. PICK i \in 1..Len(q) : y = q[i]
      BY <1>3 DEF Range
    <3>2. y = Link(q, x)[i + 1] /\ i + 1 \in 1..(1 + Len(q))
      BY <3>1, <1>3, <1>4
    <3> QED BY <3>2, <1>3 DEF Range
  <2>3. x \in Range(Link(q, x))
    <3>1. 1 \in 1..(1 + Len(q))
      BY <1>3
    <3> QED BY <3>1, <1>3, <1>4 DEF Range
  <2> QED BY <2>1, <2>2, <2>3
<1>6. ASSUME IsInjective(q), x \notin Range(q)
      PROVE  IsInjective(Link(q, x))
  <2>1. \A i \in 1..(1 + Len(q)) : i # 1 => Link(q, x)[i] # x
    BY <1>3, <1>4, <1>6 DEF Range
  <2>2. ASSUME NEW i \in 1..(1 + Len(q)), NEW j \in 1..(1 + Len(q)),
               i # 1, j # 1, Link(q, x)[i] = Link(q, x)[j]
        PROVE  i = j
    <3>1. i - 1 \in 1..Len(q) /\ j - 1 \in 1..Len(q) /\ q[i - 1] = q[j - 1]
      BY <1>4, <2>2
    <3>2. i - 1 = j - 1
      BY <3>1, <1>3, <1>6 DEF IsInjective
    <3> QED BY <3>2, <1>3
  <2> QED BY <1>3, <1>4, <2>1, <2>2 DEF IsInjective
<1> DEFINE a == Link(q, x)
           n == Len(q)
<1>7. /\ n \in Nat /\ DOMAIN q = 1..n /\ DOMAIN a = 1..(1 + n)
      /\ a[1] = x
      /\ \A i \in 1..n : a[i + 1] = q[i]
      /\ \A i \in 1..(1 + n) : i # 1 => i - 1 \in 1..n /\ a[i] = q[i - 1]
  BY <1>3, <1>4
<1> HIDE DEF a, n
<1>8. ASSUME NEW y, NEW z, Before(q, y, z) PROVE Before(a, y, z)
  <2>1. PICK i \in 1..n, j \in 1..n : i < j /\ q[i] = y /\ q[j] = z
    BY <1>7, <1>8 DEF Before
  <2>2. /\ i + 1 \in DOMAIN a /\ j + 1 \in DOMAIN a /\ i + 1 < j + 1
        /\ a[i + 1] = y /\ a[j + 1] = z
    BY <1>7, <2>1
  <2> QED BY <2>2 DEF Before
<1>9. ASSUME NEW y \in Range(q) PROVE Before(a, x, y)
  <2>1. PICK i \in 1..n : q[i] = y
    BY <1>7 DEF Range
  <2>2. 1 \in DOMAIN a /\ i + 1 \in DOMAIN a /\ 1 < i + 1 /\ a[i + 1] = y
    BY <1>7, <2>1
  <2> QED BY <1>7, <2>2 DEF Before
<1>10. ASSUME NEW y, NEW z, Before(a, y, z)
       PROVE  Before(q, y, z) \/ (y = x /\ z \in Range(q))
  <2>1. PICK i \in 1..(1 + n), j \in 1..(1 + n) : i < j /\ a[i] = y /\ a[j] = z
    BY <1>7, <1>10 DEF Before
  <2>2. j - 1 \in DOMAIN q /\ q[j - 1] = z
    BY <1>7, <2>1
  <2>3. CASE i = 1
    BY <1>7, <2>1, <2>2, <2>3 DEF Range
  <2>4. CASE i # 1
    <3>1. i - 1 \in DOMAIN q /\ q[i - 1] = y /\ i - 1 < j - 1
      BY <1>7, <2>1, <2>4
    <3> QED BY <3>1, <2>2 DEF Before
  <2> QED BY <2>3, <2>4
<1> QED BY <1>2, <1>5, <1>6, <1>8, <1>9, <1>10 DEF a

LEMMA EraseList ==
  ASSUME NEW S, NEW q \in Seq(S), IsInjective(q), NEW x \in Range(q)
  PROVE  /\ Erase(q, x) \in Seq(S)
         /\ Range(Erase(q, x)) = Range(q) \ {x}
         /\ IsInjective(Erase(q, x))
         /\ \A y, z : Before(q, y, z) /\ y # x /\ z # x => Before(Erase(q, x), y, z)
<1> DEFINE k == At(q, x)
           n == Len(q)
           a == SubSeq(q, 1, k - 1)
           b == SubSeq(q, k + 1, n)
<1>1. k \in 1..n /\ q[k] = x /\ n \in Nat /\ DOMAIN q = 1..n
  BY AtPlace, LenProperties
<1>2. \A i \in 1..n : q[i] \in S
  BY ElementOfSeq
<1> HIDE DEF k, n
<1>3. a \in Seq(S) /\ Len(a) = k - 1 /\ \A i \in 1..(k - 1) : a[i] = q[i]
  <2>1. 1 \in Int /\ k - 1 \in Int /\ \A i \in 1..(k - 1) : q[i] \in S
    BY <1>1, <1>2
  <2>2. /\ a \in Seq(S)
        /\ Len(a) = IF 1 <= k - 1 THEN (k - 1) - 1 + 1 ELSE 0
        /\ \A i \in 1..((k - 1) - 1 + 1) : a[i] = q[1 + i - 1]
    BY <2>1, SubSeqProperties
  <2> QED BY <2>2, <1>1
<1>4. b \in Seq(S) /\ Len(b) = n - k /\ \A i \in 1..(n - k) : b[i] = q[k + i]
  <2>1. k + 1 \in Int /\ n \in Int /\ \A i \in (k + 1)..n : q[i] \in S
    BY <1>1, <1>2
  <2>2. /\ b \in Seq(S)
        /\ Len(b) = IF k + 1 <= n THEN n - (k + 1) + 1 ELSE 0
        /\ \A i \in 1..(n - (k + 1) + 1) : b[i] = q[(k + 1) + i - 1]
    BY <2>1, SubSeqProperties
  <2> QED BY <2>2, <1>1
<1>5. Erase(q, x) = a \o b
  BY DEF Erase, RemoveAt, k, n
<1> DEFINE e == Erase(q, x)
<1>6. /\ e \in Seq(S) /\ Len(e) = n - 1
      /\ \A i \in 1..(n - 1) : e[i] = IF i < k THEN q[i] ELSE q[i + 1]
  <2>1. /\ a \o b \in Seq(S) /\ Len(a \o b) = Len(a) + Len(b)
        /\ \A i \in 1..(Len(a) + Len(b)) :
             (a \o b)[i] = IF i <= Len(a) THEN a[i] ELSE b[i - Len(a)]
    BY <1>3, <1>4, ConcatProperties
  <2> HIDE DEF a, b, e
  <2>2. Len(a) + Len(b) = n - 1
    BY <1>1, <1>3, <1>4
  <2>3. ASSUME NEW i \in 1..(n - 1)
        PROVE  (a \o b)[i] = IF i < k THEN q[i] ELSE q[i + 1]
    <3>1. CASE i < k
      BY <3>1, <2>1, <2>2, <1>1, <1>3
    <3>2. CASE ~(i < k)
      <4>1. i - (k - 1) \in 1..(n - k) /\ k + (i - (k - 1)) = i + 1 /\ ~(i <= k - 1)
        BY <3>2, <1>1
      <4> QED BY <4>1, <3>2, <2>1, <2>2, <1>3, <1>4
    <3> QED BY <3>1, <3>2
  <2> QED BY <1>5, <2>1, <2>2, <2>3 DEF e
<1> HIDE DEF e
<1>7. DOMAIN e = 1..(n - 1)
  BY <1>6, LenProperties
<1>8. IsInjective(e)
  <2> SUFFICES ASSUME NEW i \in 1..(n - 1), NEW j \in 1..(n - 1), e[i] = e[j]
               PROVE  i = j
    BY <1>7 DEF IsInjective
  <2> DEFINE src(l) == IF l < k THEN l ELSE l + 1
  <2>1. /\ src(i) \in DOMAIN q /\ e[i] = q[src(i)]
        /\ src(j) \in DOMAIN q /\ e[j] = q[src(j)]
        /\ src(i) = src(j) => i = j
    BY <1>1, <1>6
  <2> HIDE DEF src
  <2> QED BY <2>1 DEF IsInjective
<1>9. Range(e) = Range(q) \ {x}
  <2>1. ASSUME NEW y \in Range(e) PROVE y \in Range(q) \ {x}
    <3>1. PICK i \in 1..(n - 1) : y = e[i]
      BY <1>7 DEF Range
    <3>2. PICK j \in 1..n : y = q[j] /\ j # k
      <4>1. CASE i < k
        BY <4>1, <3>1, <1>1, <1>6
      <4>2. CASE ~(i < k)
        BY <4>2, <3>1, <1>1, <1>6
      <4> QED BY <4>1, <4>2
    <3> QED BY <3>2, <1>1 DEF Range, IsInjective
  <2>2. ASSUME NEW y \in Range(q) \ {x} PROVE y \in Range(e)
    <3>1. PICK i \in 1..n : q[i] = y /\ i # k
      BY <1>1 DEF Range
    <3>2. CASE i < k
      BY <3>1, <3>2, <1>1, <1>6, <1>7 DEF Range
    <3>3. CASE i > k
      <4>1. i - 1 \in 1..(n - 1) /\ ~(i - 1 < k) /\ (i - 1) + 1 = i
        BY <3>1, <3>3, <1>1
      <4>2. e[i - 1] = y
        BY <4>1, <3>1, <1>6
      <4> QED BY <4>1, <4>2, <1>7 DEF Range
    <3> QED BY <3>1, <3>2, <3>3, <1>1
  <2> QED BY <2>1, <2>2
<1>10. ASSUME NEW y, NEW z, Before(q, y, z), y # x, z # x
       PROVE  Before(e, y, z)
  <2>1. PICK i \in 1..n, j \in 1..n : i < j /\ q[i] = y /\ q[j] = z
    BY <1>1, <1>10 DEF Before
  <2>2. i # k /\ j # k
    BY <1>1, <1>10, <2>1
  <2> DEFINE to(l) == IF l < k THEN l ELSE l - 1
  <2>3. \A l \in 1..n : l # k => to(l) \in 1..(n - 1) /\ e[to(l)] = q[l]
    BY <1>1, <1>6
  <2>4. to(i) < to(j)
    BY <1>1, <2>1, <2>2
  <2> HIDE DEF to
  <2>5. to(i) \in DOMAIN e /\ to(j) \in DOMAIN e /\ e[to(i)] = y /\ e[to(j)] = z
    BY <1>7, <2>1, <2>2, <2>3
  <2> QED BY <2>4, <2>5 DEF Before
<1> QED BY <1>6, <1>8, <1>9, <1>10 DEF e

\* Whatever Unlink drops, it takes x out and brings nothing in.
LEMMA UnlinkList ==
  ASSUME NEW S, NEW q \in Seq(S), IsInjective(q), NEW x
  PROVE  /\ Unlink(q, x) \in Seq(S)
         /\ Range(Unlink(q, x)) \subseteq Range(q) \ {x}
         /\ IsInjective(Unlink(q, x))
         /\ \A y, z \in Range(Unlink(q, x)) :
              Before(q, y, z) => Before(Unlink(q, x), y, z)
<1>1. CASE x \notin Range(q)
  BY <1>1 DEF Unlink
<1>2. CASE x \in Range(q) /\ At(q, x) = 1
  BY <1>2 DEF Unlink, Range, IsInjective
<1>3. CASE x \in Range(q) /\ At(q, x) # 1
  <2>1. Unlink(q, x) = Erase(q, x)
    BY <1>3 DEF Unlink
  <2> QED BY <1>3, <2>1, EraseList
<1> QED BY <1>1, <1>2, <1>3

\* RemoveIf keeps all but x, and of two entries it makes no third.
LEMMA RemoveIfList ==
  ASSUME NEW q \in Seq(Path \cup {none}), NEW x \in Range(q)
  PROVE  LET r == RemoveIf(q, x)
         IN  /\ r \in Seq(Path \cup {none})
             /\ Range(r) \subseteq Range(q) \cup {none}
             /\ Range(q) \ {x} \subseteq Range(r)
             /\ DOMAIN r = DOMAIN q
             /\ \A i, j \in DOMAIN r : i # j /\ r[i] # none /\ r[j] # none =>
                  \E k, l \in DOMAIN q : k # l /\ r[i] = q[k] /\ r[j] = q[l]
             /\ \A y, z : Before(r, y, z) /\ y # none /\ z # none => Before(q, y, z)
<1> DEFINE r == RemoveIf(q, x)
           a == At(q, x)
           n == Len(q)
<1>1. /\ n \in Nat /\ DOMAIN q = 1..n /\ q \in [1..n -> Path \cup {none}]
      /\ a \in 1..n /\ q[a] = x
  BY AtPlace, LenProperties
<1>2. CASE a = n
  BY <1>1, <1>2 DEF RemoveIf
<1>3. CASE a # n
  <2>1. r = [i \in 1..n |-> IF i < a THEN q[i]
                            ELSE IF i < n THEN q[i + 1] ELSE none]
    BY <1>1, <1>3 DEF RemoveIf
  <2> HIDE DEF r, a, n
  <2>2. DOMAIN r = 1..n /\ \A i \in 1..n : r[i] \in Path \cup {none}
    BY <2>1, <1>1
  <2>3. r \in Seq(Path \cup {none})
    <3>1. r \in [1..n -> Path \cup {none}]
      BY <2>1, <2>2
    <3> QED BY <3>1, <1>1, SeqDef
  <2>4. Range(r) \subseteq Range(q) \cup {none}
    BY <2>1, <1>1 DEF Range
  <2>5. ASSUME NEW y \in Range(q) \ {x} PROVE y \in Range(r)
    <3>1. PICK i \in 1..n : q[i] = y /\ i # a
      BY <1>1 DEF Range
    <3>2. CASE i < a
      BY <3>1, <3>2, <2>1 DEF Range
    <3>3. CASE i > a
      <4>1. i - 1 \in 1..n /\ ~(i - 1 < a) /\ i - 1 < n /\ (i - 1) + 1 = i
        BY <3>1, <3>3, <1>1
      <4>2. r[i - 1] = y
        BY <4>1, <3>1, <2>1
      <4> QED BY <4>1, <4>2, <2>2 DEF Range
    <3> QED BY <3>1, <3>2, <3>3, <1>1
  <2>6. ASSUME NEW i \in 1..n, NEW j \in 1..n, i # j, r[i] # none, r[j] # none
        PROVE  \E k, l \in 1..n : k # l /\ r[i] = q[k] /\ r[j] = q[l]
    <3> DEFINE src(m) == IF m < a THEN m ELSE m + 1
    <3>1. \A m \in 1..n : r[m] # none => src(m) \in 1..n /\ r[m] = q[src(m)]
      BY <2>1, <1>1
    <3>2. src(i) # src(j)
      BY <2>6, <1>1
    <3> HIDE DEF src
    <3> QED BY <3>1, <3>2, <2>6
  <2>7. ASSUME NEW y, NEW z, Before(r, y, z), y # none, z # none
        PROVE  Before(q, y, z)
    <3>1. PICK i \in 1..n, j \in 1..n : i < j /\ r[i] = y /\ r[j] = z
      BY <2>2, <2>7 DEF Before
    <3> DEFINE src(m) == IF m < a THEN m ELSE m + 1
    <3>2. \A m \in 1..n : r[m] # none => src(m) \in 1..n /\ r[m] = q[src(m)]
      BY <2>1, <1>1
    <3>3. src(i) < src(j)
      BY <3>1, <1>1
    <3> HIDE DEF src
    <3>4. src(i) \in DOMAIN q /\ src(j) \in DOMAIN q /\ q[src(i)] = y /\ q[src(j)] = z
      BY <3>1, <3>2, <2>7, <1>1
    <3> QED BY <3>3, <3>4 DEF Before
  <2> QED BY <1>1, <2>2, <2>3, <2>4, <2>5, <2>6, <2>7 DEF r
<1> QED BY <1>2, <1>3

\* Of two paths of the list ps that are both in qs, the later is first in qs.
Ordered(ps, qs) == \A x, y \in Range(qs) : Before(ps, x, y) => Before(qs, y, x)

LEMMA BeforeRange ==
  ASSUME NEW q, NEW x, NEW y, Before(q, x, y)
  PROVE  x \in Range(q) /\ y \in Range(q)
BY DEF Before, Range

LEMMA OrderedConnect ==
  ASSUME NEW ps \in Seq(Path \cup {none}), NEW qs \in Seq(Path), NEW x \in Path,
         x \notin Range(ps), x \notin Range(qs), Ordered(ps, qs)
  PROVE  /\ Ordered(Append(ps, x), qs)
         /\ Ordered(ps, Link(qs, x))
         /\ Ordered(Append(ps, x), Link(qs, x))
<1>1. \A y, z : Before(Append(ps, x), y, z) =>
                  Before(ps, y, z) \/ (y \in Range(ps) /\ z = x)
  BY AppendBefore
<1>2. /\ Range(Link(qs, x)) = Range(qs) \cup {x}
      /\ \A y, z : Before(qs, y, z) => Before(Link(qs, x), y, z)
      /\ \A y \in Range(qs) : Before(Link(qs, x), x, y)
  BY LinkList
<1>3. Ordered(Append(ps, x), qs)
  BY <1>1 DEF Ordered
<1>4. \A y, z \in Range(Link(qs, x)) : Before(ps, y, z) => Before(Link(qs, x), z, y)
  <2> SUFFICES ASSUME NEW y \in Range(Link(qs, x)), NEW z \in Range(Link(qs, x)),
                      Before(ps, y, z)
               PROVE  Before(Link(qs, x), z, y)
    OBVIOUS
  <2>1. y \in Range(qs) /\ z \in Range(qs)
    BY <1>2, BeforeRange
  <2> QED BY <2>1, <1>2 DEF Ordered
<1>5. \A y, z \in Range(Link(qs, x)) :
        Before(Append(ps, x), y, z) => Before(Link(qs, x), z, y)
  <2> SUFFICES ASSUME NEW y \in Range(Link(qs, x)), NEW z \in Range(Link(qs, x)),
                      Before(Append(ps, x), y, z)
               PROVE  Before(Link(qs, x), z, y)
    OBVIOUS
  <2>1. CASE Before(ps, y, z)
    BY <2>1, <1>4
  <2>2. CASE y \in Range(ps) /\ z = x
    BY <2>2, <1>2
  <2> QED BY <2>1, <2>2, <1>1
<1> QED BY <1>3, <1>4, <1>5 DEF Ordered

LEMMA OrderedRelease ==
  ASSUME NEW ps \in Seq(Path \cup {none}), NEW qs \in Seq(Path), NEW x,
         none \notin Path, IsInjective(qs), Ordered(ps, qs)
  PROVE  /\ Ordered(ps, Unlink(qs, x))
         /\ x \in Range(ps) => /\ Ordered(RemoveIf(ps, x), qs)
                               /\ Ordered(RemoveIf(ps, x), Unlink(qs, x))
<1>1. x \in Range(ps) => \A y, z : Before(RemoveIf(ps, x), y, z) /\ y # none /\ z # none
                                     => Before(ps, y, z)
  BY RemoveIfList
<1>2. none \notin Range(qs)
  BY RangeOfSeq
<1>3. /\ Range(Unlink(qs, x)) \subseteq Range(qs)
      /\ \A y, z \in Range(Unlink(qs, x)) : Before(qs, y, z) => Before(Unlink(qs, x), y, z)
  BY UnlinkList
<1> QED BY <1>1, <1>2, <1>3 DEF Ordered
-----------------------------------------------------------------------------
(***************************************************************************)
(* What the locked sections do to the fields of the graph.                 *)
(***************************************************************************)

LEMMA Apart == /\ Spore \subseteq Member /\ Pin \subseteq Member
               /\ none \notin Spore /\ none \notin Path /\ none \notin End
BY NestAssumption DEF Member

LEMMA RemoveMemberEffect ==
  ASSUME NEW gr \in Graph, NEW s \in Spore, NEW m \in Member,
         IsInjective(gr.held[s]), m \in Range(gr.held[s])
  PROVE  LET n == RemoveMember(gr, s, m)
         IN  /\ n \in Graph
             /\ n.home = [gr.home EXCEPT ![m] = none]
             /\ n.held = [gr.held EXCEPT ![s] = Erase(@, m)]
             /\ n.paths = gr.paths /\ n.ends = gr.ends
             /\ n.out = gr.out /\ n.in = gr.in
<1>1. Erase(gr.held[s], m) \in Seq(Member)
  BY EraseList DEF Graph
<1> QED BY <1>1 DEF RemoveMember, Graph

LEMMA AddPathEffect ==
  ASSUME NEW gr \in Graph, NEW s \in Spore, NEW f \in Pin, NEW t \in Pin,
         NEW x \in Path,
         ~ \E y \in Range(gr.paths[s]) : Joins(gr, y, f, t)
  PROVE  LET n == AddPath(gr, s, f, t, x)
         IN  /\ n \in Graph
             /\ n.home = gr.home /\ n.held = gr.held
             /\ n.paths = [gr.paths EXCEPT ![s] = Append(@, x)]
             /\ n.ends = [gr.ends EXCEPT ![x] = [from |-> f, to |-> t, holder |-> s]]
             /\ n.out = [gr.out EXCEPT ![f] = Link(@, x)]
             /\ n.in = [gr.in EXCEPT ![t] = Link(@, x)]
<1> DEFINE e == [from |-> f, to |-> t, holder |-> s]
           h == [gr EXCEPT !.ends[x] = e, !.paths[s] = Append(@, x)]
<1>1. /\ e \in End /\ e.from = f /\ e.to = t
      /\ Append(gr.paths[s], x) \in Seq(Path \cup {none})
      /\ Link(gr.out[f], x) \in Seq(Path)
      /\ Link(gr.in[t], x) \in Seq(Path)
  BY AppendList, LinkList DEF Graph, End
<1> HIDE DEF e
<1>2. /\ h \in Graph
      /\ h.home = gr.home /\ h.held = gr.held
      /\ h.paths = [gr.paths EXCEPT ![s] = Append(@, x)]
      /\ h.ends = [gr.ends EXCEPT ![x] = e]
      /\ h.out = gr.out /\ h.in = gr.in
  BY <1>1 DEF Graph
<1>3. h.ends[x] = e
  BY <1>2 DEF Graph
<1>4. AddPath(gr, s, f, t, x) = Attach(h, x)
  BY DEF AddPath, e
<1> HIDE DEF h
<1> DEFINE n == [h EXCEPT !.out[f] = Link(@, x), !.in[t] = Link(@, x)]
<1>5. Attach(h, x) = n
  BY <1>1, <1>3 DEF Attach
<1>6. /\ Link(h.out[f], x) \in Seq(Path)
      /\ Link(h.in[t], x) \in Seq(Path)
  BY <1>1, <1>2
<1>7. /\ n \in Graph
      /\ n.home = h.home /\ n.held = h.held
      /\ n.paths = h.paths /\ n.ends = h.ends
      /\ n.out = [h.out EXCEPT ![f] = Link(@, x)]
      /\ n.in = [h.in EXCEPT ![t] = Link(@, x)]
  BY <1>2, <1>6 DEF Graph
<1> HIDE DEF n
<1> QED BY <1>2, <1>4, <1>5, <1>7 DEF e

LEMMA RemovePathEffect ==
  ASSUME NEW gr \in Graph, NEW x \in Path, gr.ends[x] # none,
         \A p \in Pin : IsInjective(gr.out[p]) /\ IsInjective(gr.in[p]),
         x \in Range(gr.paths[gr.ends[x].holder])
  PROVE  LET n == RemovePath(gr, x)
             e == gr.ends[x]
         IN  /\ n \in Graph
             /\ n.home = gr.home /\ n.held = gr.held /\ n.ends = gr.ends
             /\ n.paths = [gr.paths EXCEPT ![e.holder] = RemoveIf(@, x)]
             /\ n.out = [gr.out EXCEPT ![e.from] = Unlink(@, x)]
             /\ n.in = [gr.in EXCEPT ![e.to] = Unlink(@, x)]
<1> DEFINE e == gr.ends[x]
           s == e.holder
           h == [gr EXCEPT !.paths[s] = RemoveIf(@, x)]
<1>1. /\ e \in End /\ s \in Spore /\ e.from \in Pin /\ e.to \in Pin
  BY DEF Graph, End
<1>2. /\ RemoveIf(gr.paths[s], x) \in Seq(Path \cup {none})
      /\ Unlink(gr.out[e.from], x) \in Seq(Path)
      /\ Unlink(gr.in[e.to], x) \in Seq(Path)
  <2>1. /\ gr.paths[s] \in Seq(Path \cup {none})
        /\ gr.out[e.from] \in Seq(Path) /\ IsInjective(gr.out[e.from])
        /\ gr.in[e.to] \in Seq(Path) /\ IsInjective(gr.in[e.to])
    BY <1>1 DEF Graph
  <2>2. RemoveIf(gr.paths[s], x) \in Seq(Path \cup {none})
    BY <2>1, RemoveIfList
  <2>3. /\ Unlink(gr.out[e.from], x) \in Seq(Path)
        /\ Unlink(gr.in[e.to], x) \in Seq(Path)
    BY <2>1, UnlinkList
  <2> QED BY <2>2, <2>3
<1> HIDE DEF e
<1>3. /\ h \in Graph
      /\ h.home = gr.home /\ h.held = gr.held /\ h.ends = gr.ends
      /\ h.paths = [gr.paths EXCEPT ![s] = RemoveIf(@, x)]
      /\ h.out = gr.out /\ h.in = gr.in
  BY <1>1, <1>2 DEF Graph
<1>4. RemovePath(gr, x) = Detach(h, x)
  BY DEF RemovePath, e
<1>5. h.ends[x] = e
  BY <1>3 DEF e
<1> HIDE DEF h
<1> DEFINE n == [h EXCEPT !.out[e.from] = Unlink(@, x),
                          !.in[e.to] = Unlink(@, x)]
<1>6. Detach(h, x) = n
  BY <1>5 DEF Detach
<1>7. /\ Unlink(h.out[e.from], x) \in Seq(Path)
      /\ Unlink(h.in[e.to], x) \in Seq(Path)
  BY <1>2, <1>3
<1>8. /\ n \in Graph
      /\ n.home = h.home /\ n.held = h.held
      /\ n.paths = h.paths /\ n.ends = h.ends
      /\ n.out = [h.out EXCEPT ![e.from] = Unlink(@, x)]
      /\ n.in = [h.in EXCEPT ![e.to] = Unlink(@, x)]
  BY <1>1, <1>3, <1>7 DEF Graph
<1> HIDE DEF n
<1> QED BY <1>3, <1>4, <1>6, <1>8 DEF e
-----------------------------------------------------------------------------
(***************************************************************************)
(* The inductive invariant.  HomeLists speaks of members that are raced;   *)
(* what makes it inductive is that an edit in flight of any other member   *)
(* still finds the member where its unlocked test found it.                *)
(***************************************************************************)

InFlight ==
  \A th \in Thread : \A m \in About(op[th]) \ raced :
    /\ op[th].call = "add" => g.home[m] = none
    /\ op[th].call = "remove" => g.home[m] = op[th].spore
    /\ \A u \in Thread : u # th => m \notin About(op[u])

\* What a spore lists was made by it, and it lists a null only after a release;
\* what was released has been made.
ListsOwn ==
  /\ \A s \in Spore : \A x \in Range(g.paths[s]) :
       IF x = none THEN released # {}
       ELSE g.ends[x] # none /\ g.ends[x].holder = s
  /\ \A x \in released : g.ends[x] # none

\* A pin lists a path once.
PinsListOnce == \A p \in Pin : IsInjective(g.out[p]) /\ IsInjective(g.in[p])

\* The list of a holder has its paths in the order they were made in, the lists
\* of the pins in the reverse one.
ListsOrdered ==
  \A s \in Spore, p \in Pin :
    Ordered(g.paths[s], g.out[p]) /\ Ordered(g.paths[s], g.in[p])

HomeInv == HomeLists /\ InFlight

PathInv == /\ ListsOwn /\ NoTwins /\ LiveIsListed
           /\ PinsListOnce /\ PinsListLive /\ ListsOrdered

IInv == TypeOK /\ HomeInv /\ PathInv

LEMMA InitInv == Init => IInv
<1> USE NestAssumption, Apart
<1> SUFFICES ASSUME Init PROVE IInv
  OBVIOUS
<1>1. g.home = [m \in Member |-> HomeIn(Built, m)] /\ g.held = Built
  BY DEF Init
<1>2. /\ g.paths = [s \in Spore |-> <<>>] /\ g.ends = [x \in Path |-> none]
      /\ g.out = [p \in Pin |-> <<>>] /\ g.in = [p \in Pin |-> <<>>]
  BY DEF Init
<1>3. \A m \in Member :
        /\ HomeIn(Built, m) \in Spore \cup {none}
        /\ HomeIn(Built, m) # none => m \in Range(Built[HomeIn(Built, m)])
        /\ \A s \in Spore : m \in Range(Built[s]) => HomeIn(Built, m) = s
  BY DEF HomeIn
<1>4. \A s \in Spore : Range(Built[s]) \subseteq Member
  BY RangeOfSeq
<1>5. TypeOK
  <2>1. g.home \in [Member -> Spore \cup {none}]
    BY <1>1, <1>3
  <2>2. g.paths \in [Spore -> Seq(Path \cup {none})] /\ g.ends \in [Path -> End \cup {none}]
    BY <1>2
  <2>3. g.out \in [Pin -> Seq(Path)] /\ g.in \in [Pin -> Seq(Path)]
    BY <1>2
  <2>4. g \in Graph
    BY <2>1, <2>2, <2>3, <1>1 DEF Graph, Init
  <2>5. /\ op = [th \in Thread |-> Idle] /\ calls = 0 /\ crashed = FALSE
        /\ released = {} /\ raced = {}
    BY DEF Init
  <2>6. 0 \in 0..MaxCalls
    OBVIOUS
  <2> QED BY <2>4, <2>5, <2>6 DEF TypeOK
<1>6. HomeLists
  BY <1>1, <1>3, <1>4 DEF HomeLists
<1>7. InFlight
  BY DEF InFlight, Init, About, Idle
<1>8. \A q : q = <<>> => Range(q) = {} /\ DOMAIN q = {} /\ IsInjective(q)
  BY DEF Range, IsInjective
<1>9. ListsOrdered
  BY <1>2, <1>8 DEF ListsOrdered, Ordered
<1>10. PathInv
  BY <1>2, <1>8, <1>9 DEF PathInv, ListsOwn, NoTwins, LiveIsListed, Live,
                          PinsListOnce, PinsListLive, Init
<1> QED BY <1>5, <1>6, <1>7, <1>10 DEF IInv, HomeInv

\* The paths are as they were if no section has changed them.
LEMMA PathsKept ==
  ASSUME PathInv, UNCHANGED <<crashed, released>>,
         g'.paths = g.paths, g'.ends = g.ends, g'.out = g.out, g'.in = g.in
  PROVE  PathInv'
<1>1. ListsOwn'
  BY DEF PathInv, ListsOwn
<1>2. NoTwins'
  BY DEF PathInv, NoTwins, Joins
<1>3. LiveIsListed'
  BY DEF PathInv, LiveIsListed, Live
<1>4. PinsListOnce' /\ PinsListLive'
  BY DEF PathInv, PinsListOnce, PinsListLive, Live
<1>5. ListsOrdered'
  BY DEF PathInv, ListsOrdered
<1> QED BY <1>1, <1>2, <1>3, <1>4, <1>5 DEF PathInv

USE DEF Idle, Edit, First, Read, Join

\* A call begins: what its unlocked test has found holds of the member.
LEMMA BeginStep ==
  ASSUME IInv, NEW th \in Thread, NEW o \in Edit \cup First, Begin(th, o),
         o.call = "add" => g.home[o.member] = none,
         o.call = "remove" => g.home[o.member] = o.spore
  PROVE  IInv'
<1> USE DEF IInv, HomeInv
<1>1. TypeOK'
  <2>1. MaxCalls \in Nat
    BY NestAssumption
  <2>2. calls' \in 0..MaxCalls
    BY <2>1 DEF TypeOK, Begin
  <2>3. raced' \subseteq Member
    BY DEF TypeOK, Begin, About
  <2> QED BY <2>2, <2>3 DEF TypeOK, Begin
<1>2. HomeLists'
  BY DEF HomeLists, Begin
<1>3. InFlight'
  <2> SUFFICES ASSUME NEW u \in Thread, NEW m \in About(op'[u]) \ raced'
               PROVE  /\ op'[u].call = "add" => g.home[m] = none
                      /\ op'[u].call = "remove" => g.home[m] = op'[u].spore
                      /\ \A v \in Thread : v # u => m \notin About(op'[v])
    BY DEF InFlight, Begin, About
  <2>1. op' = [op EXCEPT ![th] = o] /\ op[th] = Idle /\ raced \subseteq raced'
    BY DEF Begin
  <2>2. \A v \in Thread : op'[v] = IF v = th THEN o ELSE op[v]
    BY <2>1 DEF TypeOK
  <2>3. \A v \in Thread : About(o) \cap About(op[v]) \subseteq raced'
    BY DEF Begin
  <2>4. CASE u = th
    BY <2>2, <2>3, <2>4 DEF About
  <2>5. CASE u # th
    BY <2>1, <2>2, <2>3, <2>5 DEF InFlight
  <2> QED BY <2>4, <2>5
<1>4. PathInv'
  BY PathsKept DEF Begin
<1> QED BY <1>1, <1>2, <1>3, <1>4

\* A thread moves on within connect, or out of it.
LEMMA ReadStep ==
  ASSUME IInv, NEW th \in Thread, NEW o \in {Idle} \cup Read \cup Join,
         Goto(th, o), UNCHANGED <<g, crashed>>
  PROVE  IInv'
<1> USE DEF IInv, HomeInv
<1>1. TypeOK'
  BY DEF TypeOK, Goto
<1>2. HomeLists'
  BY DEF HomeLists, Goto
<1>3. InFlight'
  <2>1. /\ \A v \in Thread : op'[v] = IF v = th THEN o ELSE op[v]
        /\ About(o) = {}
    BY DEF TypeOK, Goto, About
  <2>2. \A v \in Thread : About(op'[v]) \subseteq About(op[v])
    BY <2>1
  <2>3. raced' = raced /\ g' = g
    BY DEF Goto
  <2> QED BY <2>1, <2>2, <2>3 DEF InFlight
<1>4. PathInv'
  BY PathsKept DEF Goto
<1> QED BY <1>1, <1>2, <1>3, <1>4

\* The locked section of addSpore, addPin.
LEMMA AddStep ==
  ASSUME IInv, NEW th \in Thread, AddLocked(th)
  PROVE  IInv'
<1> DEFINE s == op[th].spore
           m == op[th].member
<1> USE DEF IInv, HomeInv
<1>1. /\ s \in Spore /\ m \in Member /\ op[th].call = "add"
      /\ g \in Graph /\ g' = AddMember(g, s, m)
      /\ About(op[th]) = {m}
      /\ UNCHANGED <<calls, crashed, released, raced>>
  BY DEF TypeOK, AddLocked, Goto, About
<1>2. /\ op' = [op EXCEPT ![th] = Idle]
      /\ \A u \in Thread : op'[u] = IF u = th THEN Idle ELSE op[u]
  BY DEF AddLocked, Goto, TypeOK
<1>3. CASE m \in Range(g.held[s])
  <2>1. g' = g
    BY <1>1, <1>3 DEF AddMember
  <2>2. Goto(th, Idle) /\ UNCHANGED <<g, crashed>>
    BY <2>1, <1>1 DEF AddLocked
  <2> QED BY <2>2, ReadStep
<1>4. CASE m \notin Range(g.held[s])
  <2>1. /\ g' \in Graph
        /\ g'.home = [g.home EXCEPT ![m] = s]
        /\ \A u \in Spore : u # s => g'.held[u] = g.held[u]
        /\ Range(g'.held[s]) = Range(g.held[s]) \cup {m}
        /\ IsInjective(g'.held[s])
        /\ g'.paths = g.paths /\ g'.ends = g.ends
        /\ g'.out = g.out /\ g'.in = g.in
    <3> DEFINE q == Append(g.held[s], m)
               n == [g EXCEPT !.home[m] = s, !.held[s] = q]
    <3>1. g.held[s] \in Seq(Member)
      BY <1>1 DEF Graph
    <3>2. IsInjective(g.held[s])
      BY <1>1 DEF HomeLists
    <3>3. /\ q \in Seq(Member) /\ IsInjective(q)
          /\ Range(q) = Range(g.held[s]) \cup {m}
      BY <3>1, <3>2, <1>1, <1>4, AppendList
    <3>4. g' = n
      BY <1>1, <1>4 DEF AddMember
    <3> HIDE DEF s, m, q
    <3>5. /\ n \in Graph
          /\ n.home = [g.home EXCEPT ![m] = s]
          /\ n.held = [g.held EXCEPT ![s] = q]
          /\ n.paths = g.paths /\ n.ends = g.ends
          /\ n.out = g.out /\ n.in = g.in
      BY <1>1, <3>3 DEF Graph
    <3> HIDE DEF n
    <3>6. \A u \in Spore : n.held[u] = IF u = s THEN q ELSE g.held[u]
      BY <3>5, <1>1 DEF Graph
    <3> QED BY <3>3, <3>4, <3>5, <3>6, <1>1
  <2>2. TypeOK'
    BY <1>1, <1>2, <2>1 DEF TypeOK
  <2>3. \A k \in Member : g'.home[k] = IF k = m THEN s ELSE g.home[k]
    BY <1>1, <2>1 DEF Graph
  <2>5. HomeLists'
    <3>1. m \notin raced => \A u \in Spore : m \notin Range(g.held[u])
      <4> SUFFICES ASSUME m \notin raced, NEW u \in Spore, m \in Range(g.held[u])
                   PROVE  FALSE
        OBVIOUS
      <4>1. g.home[m] = none
        BY <1>1 DEF InFlight
      <4>2. g.home[m] = u
        BY DEF HomeLists
      <4> QED BY <4>1, <4>2, Apart
    <3>2. \A u \in Spore : IsInjective(g'.held[u])
      BY <2>1 DEF HomeLists
    <3>3. \A k \in Member : g'.home[k] # none => k \in Range(g'.held[g'.home[k]])
      <4> SUFFICES ASSUME NEW k \in Member, g'.home[k] # none
                   PROVE  k \in Range(g'.held[g'.home[k]])
        OBVIOUS
      <4>1. CASE k = m
        BY <4>1, <2>1, <2>3, <1>1
      <4>2. CASE k # m
        <5>1. g.home[k] \in Spore /\ k \in Range(g.held[g.home[k]])
          BY <4>2, <2>3, <1>1 DEF HomeLists, Graph
        <5> QED BY <5>1, <4>2, <2>1, <2>3
      <4> QED BY <4>1, <4>2
    <3>4. \A u \in Spore : \A k \in Range(g'.held[u]) \ raced : g'.home[k] = u
      <4> SUFFICES ASSUME NEW u \in Spore, NEW k \in Range(g'.held[u]), k \notin raced
                   PROVE  g'.home[k] = u
        OBVIOUS
      <4>1. k \in Member
        <5>1. g'.held[u] \in Seq(Member)
          BY <2>1 DEF Graph
        <5> QED BY <5>1, RangeOfSeq
      <4>2. CASE k = m
        BY <4>1, <4>2, <2>1, <2>3, <3>1
      <4>3. CASE k # m
        <5>1. k \in Range(g.held[u])
          BY <4>3, <2>1, <2>3
        <5> QED BY <5>1, <4>1, <4>3, <2>3 DEF HomeLists
      <4> QED BY <4>2, <4>3
    <3> QED BY <3>2, <3>3, <3>4, <1>1 DEF HomeLists
  <2>6. InFlight'
    <3> SUFFICES ASSUME NEW u \in Thread, NEW k \in About(op'[u]) \ raced
                 PROVE  /\ op'[u].call = "add" => g'.home[k] = none
                        /\ op'[u].call = "remove" => g'.home[k] = op'[u].spore
                        /\ \A v \in Thread : v # u => k \notin About(op'[v])
      BY <1>1 DEF InFlight
    <3>1. u # th /\ op'[u] = op[u]
      BY <1>2 DEF About
    <3>2. k # m /\ k \in Member
      BY <3>1, <1>1 DEF InFlight, About, TypeOK
    <3>3. \A v \in Thread : About(op'[v]) \subseteq About(op[v])
      BY <1>2 DEF About
    <3> QED BY <3>1, <3>2, <3>3, <2>3 DEF InFlight
  <2>7. PathInv'
    BY <1>1, <2>1, PathsKept
  <2> QED BY <2>2, <2>5, <2>6, <2>7
<1> QED BY <1>3, <1>4

\* The locked section of remvoeSpore, removePin.
LEMMA RemoveStep ==
  ASSUME IInv, NEW th \in Thread, RemoveLocked(th)
  PROVE  IInv'
<1> DEFINE s == op[th].spore
           m == op[th].member
<1> USE DEF IInv, HomeInv
<1>1. /\ s \in Spore /\ m \in Member /\ op[th].call = "remove"
      /\ g \in Graph /\ g' = RemoveMember(g, s, m)
      /\ About(op[th]) = {m}
      /\ UNCHANGED <<calls, crashed, released, raced>>
  BY DEF TypeOK, RemoveLocked, Goto, About
<1>2. /\ op' = [op EXCEPT ![th] = Idle]
      /\ \A u \in Thread : op'[u] = IF u = th THEN Idle ELSE op[u]
  BY DEF RemoveLocked, Goto, TypeOK
<1>3. CASE m \notin Range(g.held[s])
  <2>1. g' = g
    BY <1>1, <1>3 DEF RemoveMember
  <2>2. Goto(th, Idle) /\ UNCHANGED <<g, crashed>>
    BY <2>1, <1>1 DEF RemoveLocked
  <2> QED BY <2>2, ReadStep
<1>4. CASE m \in Range(g.held[s])
  <2>0. IsInjective(g.held[s])
    BY <1>1 DEF HomeLists
  <2>1. /\ g' \in Graph
        /\ g'.home = [g.home EXCEPT ![m] = none]
        /\ g'.held = [g.held EXCEPT ![s] = Erase(@, m)]
        /\ g'.paths = g.paths /\ g'.ends = g.ends
        /\ g'.out = g.out /\ g'.in = g.in
    <3> DEFINE n == RemoveMember(g, s, m)
    <3> HIDE DEF s, m
    <3>1. /\ n \in Graph
          /\ n.home = [g.home EXCEPT ![m] = none]
          /\ n.held = [g.held EXCEPT ![s] = Erase(@, m)]
          /\ n.paths = g.paths /\ n.ends = g.ends
          /\ n.out = g.out /\ n.in = g.in
      BY <1>1, <1>4, <2>0, RemoveMemberEffect
    <3> HIDE DEF n
    <3> QED BY <3>1, <1>1 DEF n
  <2>2. TypeOK'
    BY <1>1, <1>2, <2>1 DEF TypeOK
  <2>3. /\ \A k \in Member : g'.home[k] = IF k = m THEN none ELSE g.home[k]
        /\ \A u \in Spore : g'.held[u] = IF u = s THEN Erase(g.held[s], m) ELSE g.held[u]
    BY <1>1, <2>1 DEF Graph
  <2>4. /\ Range(Erase(g.held[s], m)) = Range(g.held[s]) \ {m}
        /\ IsInjective(Erase(g.held[s], m))
    <3>1. g.held[s] \in Seq(Member)
      BY <1>1 DEF Graph
    <3> QED BY <3>1, <1>4, <2>0, EraseList
  <2>5. HomeLists'
    <3>1. m \notin raced => \A u \in Spore \ {s} : m \notin Range(g.held[u])
      <4> SUFFICES ASSUME m \notin raced, NEW u \in Spore \ {s}, m \in Range(g.held[u])
                   PROVE  FALSE
        OBVIOUS
      <4>1. g.home[m] = s
        BY <1>1 DEF InFlight
      <4>2. g.home[m] = u
        BY DEF HomeLists
      <4> QED BY <4>1, <4>2
    <3>2. \A u \in Spore : IsInjective(g'.held[u])
      BY <2>3, <2>4 DEF HomeLists
    <3>3. \A k \in Member : g'.home[k] # none => k \in Range(g'.held[g'.home[k]])
      <4> SUFFICES ASSUME NEW k \in Member, g'.home[k] # none
                   PROVE  k \in Range(g'.held[g'.home[k]])
        OBVIOUS
      <4>1. k # m /\ g.home[k] \in Spore /\ k \in Range(g.held[g.home[k]])
        BY <2>3, <1>1 DEF HomeLists, Graph
      <4> QED BY <4>1, <2>3, <2>4
    <3>4. \A u \in Spore : \A k \in Range(g'.held[u]) \ raced : g'.home[k] = u
      <4> SUFFICES ASSUME NEW u \in Spore, NEW k \in Range(g'.held[u]), k \notin raced
                   PROVE  g'.home[k] = u
        OBVIOUS
      <4>1. k \in Range(g.held[u]) /\ (u = s => k # m)
        BY <2>3, <2>4
      <4>2. k \in Member
        <5>1. g.held[u] \in Seq(Member)
          BY <1>1 DEF Graph
        <5> QED BY <5>1, <4>1, RangeOfSeq
      <4>3. k # m
        BY <4>1, <3>1
      <4> QED BY <4>1, <4>2, <4>3, <2>3 DEF HomeLists
    <3> QED BY <3>2, <3>3, <3>4, <1>1 DEF HomeLists
  <2>6. InFlight'
    <3> SUFFICES ASSUME NEW u \in Thread, NEW k \in About(op'[u]) \ raced
                 PROVE  /\ op'[u].call = "add" => g'.home[k] = none
                        /\ op'[u].call = "remove" => g'.home[k] = op'[u].spore
                        /\ \A v \in Thread : v # u => k \notin About(op'[v])
      BY <1>1 DEF InFlight
    <3>1. u # th /\ op'[u] = op[u]
      BY <1>2 DEF About
    <3>2. k # m /\ k \in Member
      BY <3>1, <1>1 DEF InFlight, About, TypeOK
    <3>3. \A v \in Thread : About(op'[v]) \subseteq About(op[v])
      BY <1>2 DEF About
    <3> QED BY <3>1, <3>2, <3>3, <2>3 DEF InFlight
  <2>7. PathInv'
    BY <1>1, <2>1, PathsKept
  <2> QED BY <2>2, <2>5, <2>6, <2>7
<1> QED BY <1>3, <1>4

\* Spores and pins are where they were if no section has moved one.
LEMMA HomeKept ==
  ASSUME HomeInv, raced' = raced, g'.home = g.home, g'.held = g.held,
         \A v \in Thread : op'[v] = op[v] \/ About(op'[v]) = {}
  PROVE  HomeInv'
<1>1. HomeLists'
  BY DEF HomeInv, HomeLists
<1>2. InFlight'
  <2>1. \A v \in Thread : About(op'[v]) \subseteq About(op[v])
    BY DEF About
  <2> QED BY <2>1 DEF HomeInv, InFlight
<1> QED BY <1>1, <1>2 DEF HomeInv

\* The locked section of addPath.
LEMMA ConnectStep ==
  ASSUME IInv, NEW th \in Thread, ConnectLocked(th)
  PROVE  IInv'
<1> DEFINE s == op[th].spore
           f == op[th].from
           t == op[th].to
<1>1. /\ s \in Spore /\ f \in Pin /\ t \in Pin
      /\ g \in Graph /\ HomeInv /\ PathInv
  BY DEF IInv, TypeOK, ConnectLocked
<1>2. /\ op' = [op EXCEPT ![th] = Idle]
      /\ \A u \in Thread : op'[u] = op[u] \/ About(op'[u]) = {}
      /\ UNCHANGED <<calls, released, raced>>
  BY DEF ConnectLocked, Goto, IInv, TypeOK, About
<1>3. CASE FindCrashes(g, s, f, t)
  <2>1. crashed' = TRUE /\ g' = g
    BY <1>3 DEF ConnectLocked
  <2>2. TypeOK'
    BY <1>2, <2>1 DEF IInv, TypeOK
  <2>3. HomeInv'
    BY <1>1, <1>2, <2>1, HomeKept
  <2>4. released # {}
    <3>1. \E i \in DOMAIN g.paths[s] : g.paths[s][i] = none
      BY <1>3 DEF FindCrashes
    <3>2. none \in Range(g.paths[s])
      BY <3>1 DEF Range
    <3> QED BY <3>2, <1>1 DEF PathInv, ListsOwn
  <2>5. PathInv'
    BY <1>1, <1>2, <2>1, <2>4 DEF PathInv, ListsOwn, NoTwins, LiveIsListed, Live,
                                  PinsListOnce, PinsListLive, ListsOrdered, Joins
  <2> QED BY <2>2, <2>3, <2>5 DEF IInv
<1>4. CASE ~FindCrashes(g, s, f, t)
  <2>1. PICK x \in Path : g.ends[x] = none /\ g' = AddPath(g, s, f, t, x)
    BY <1>4 DEF ConnectLocked, Free
  <2>2. crashed' = crashed
    BY <1>4 DEF ConnectLocked
  <2>3. CASE \E y \in Range(g.paths[s]) : Joins(g, y, f, t)
    <3>1. g' = g
      BY <2>1, <2>3 DEF AddPath
    <3>2. Goto(th, Idle)
      BY DEF ConnectLocked
    <3> QED BY <2>2, <3>1, <3>2, ReadStep
  <2>4. CASE ~ \E y \in Range(g.paths[s]) : Joins(g, y, f, t)
    <3> DEFINE e == [from |-> f, to |-> t, holder |-> s]
               n == AddPath(g, s, f, t, x)
    <3> HIDE DEF s, f, t
    <3>1. /\ n \in Graph
          /\ n.home = g.home /\ n.held = g.held
          /\ n.paths = [g.paths EXCEPT ![s] = Append(@, x)]
          /\ n.ends = [g.ends EXCEPT ![x] = e]
          /\ n.out = [g.out EXCEPT ![f] = Link(@, x)]
          /\ n.in = [g.in EXCEPT ![t] = Link(@, x)]
      BY <1>1, <2>4, AddPathEffect
    <3> HIDE DEF n
    <3>2. g' = n
      BY <2>1 DEF n
    <3>3. TypeOK'
      BY <1>2, <2>2, <3>1, <3>2 DEF IInv, TypeOK
    <3>4. HomeInv'
      BY <1>1, <1>2, <3>1, <3>2, HomeKept
    <3>5. /\ e # none /\ e.from = f /\ e.to = t /\ e.holder = s
          /\ \A y \in Path : g'.ends[y] = IF y = x THEN e ELSE g.ends[y]
      <4>1. e \in End /\ e.from = f /\ e.to = t /\ e.holder = s
        BY <1>1 DEF End
      <4> HIDE DEF e
      <4> QED BY <4>1, <3>1, <3>2, <1>1, Apart DEF Graph
    <3> HIDE DEF e
    <3> DEFINE q == Append(g.paths[s], x)
    <3>6. \A u \in Spore : g'.paths[u] = IF u = s THEN q ELSE g.paths[u]
      BY <3>1, <3>2, <1>1 DEF Graph
    <3>7. /\ \A p \in Pin : g'.out[p] = IF p = f THEN Link(g.out[f], x) ELSE g.out[p]
          /\ \A p \in Pin : g'.in[p] = IF p = t THEN Link(g.in[t], x) ELSE g.in[p]
      BY <3>1, <3>2, <1>1 DEF Graph
    <3>8. /\ g.paths[s] \in Seq(Path \cup {none})
          /\ Range(q) = Range(g.paths[s]) \cup {x}
      <4>1. g.paths[s] \in Seq(Path \cup {none}) /\ x \in Path \cup {none}
        BY <1>1 DEF Graph
      <4> QED BY <4>1, AppendList
    <3>9. \A u \in Spore : \A y \in Range(g.paths[u]) :
            y # x /\ (y # none => y \in Path /\ g'.ends[y] = g.ends[y])
      <4> SUFFICES ASSUME NEW u \in Spore, NEW y \in Range(g.paths[u])
                   PROVE  y # x /\ (y # none => y \in Path /\ g'.ends[y] = g.ends[y])
        OBVIOUS
      <4>1. y \in Path \cup {none}
        <5>1. g.paths[u] \in Seq(Path \cup {none})
          BY <1>1 DEF Graph
        <5> QED BY <5>1, RangeOfSeq
      <4>2. y # x
        BY <1>1, <2>1, Apart DEF PathInv, ListsOwn
      <4> QED BY <4>1, <4>2, <3>5
    <3>10. ListsOwn'
      <4>1. \A u \in Spore : \A y \in Range(g'.paths[u]) :
              IF y = none THEN released # {}
              ELSE g'.ends[y] # none /\ g'.ends[y].holder = u
        <5> SUFFICES ASSUME NEW u \in Spore, NEW y \in Range(g'.paths[u])
                     PROVE  IF y = none THEN released # {}
                            ELSE g'.ends[y] # none /\ g'.ends[y].holder = u
          OBVIOUS
        <5>1. CASE y \in Range(g.paths[u])
          BY <5>1, <1>1, <3>9 DEF PathInv, ListsOwn
        <5>2. CASE u = s /\ y = x
          BY <5>2, <3>5, Apart
        <5> HIDE DEF q
        <5> QED BY <5>1, <5>2, <3>6, <3>8
      <4>2. \A y \in released : g'.ends[y] # none
        BY <1>1, <2>1, <3>5 DEF PathInv, ListsOwn, IInv, TypeOK
      <4> QED BY <4>1, <4>2, <1>2 DEF ListsOwn
    <3>11. NoTwins'
      <4> DEFINE k == Len(g.paths[s])
      <4>1. /\ DOMAIN g.paths[s] = 1..k /\ DOMAIN q = 1..(k + 1)
            /\ \A i \in 1..k : q[i] = g.paths[s][i]
            /\ q[k + 1] = x /\ k \in Nat
        BY <3>8, AppendProperties, LenProperties
      <4> HIDE DEF k, q
      <4> SUFFICES ASSUME NEW u \in Spore, NEW i \in DOMAIN g'.paths[u],
                          NEW j \in DOMAIN g'.paths[u], i # j,
                          g'.paths[u][i] # none, g'.paths[u][j] # none
                   PROVE  LET y == g'.paths[u][i]
                              z == g'.paths[u][j]
                          IN  ~Joins(g', y, g'.ends[z].from, g'.ends[z].to)
        BY DEF NoTwins
      <4> DEFINE y == g'.paths[u][i]
                 z == g'.paths[u][j]
      <4>2. CASE /\ i \in DOMAIN g.paths[u] /\ y = g.paths[u][i]
                 /\ j \in DOMAIN g.paths[u] /\ z = g.paths[u][j]
        <5>1. y \in Range(g.paths[u]) /\ z \in Range(g.paths[u])
          BY <4>2 DEF Range
        <5>2. ~Joins(g, y, g.ends[z].from, g.ends[z].to)
          BY <4>2, <1>1 DEF PathInv, NoTwins
        <5> HIDE DEF y, z
        <5>3. g'.ends[y] = g.ends[y] /\ g'.ends[z] = g.ends[z]
          BY <5>1, <3>9 DEF y, z
        <5>4. ~Joins(g', y, g'.ends[z].from, g'.ends[z].to)
          BY <5>2, <5>3 DEF Joins
        <5> QED BY <5>4 DEF y, z
      <4>3. CASE u = s /\ y = x /\ z \in Range(g.paths[s])
        <5>1. ~Joins(g, z, f, t)
          BY <4>3, <2>4
        <5> HIDE DEF y, z
        <5>2. g'.ends[y] = e /\ g'.ends[z] = g.ends[z] /\ z # none
          BY <4>3, <3>5, <3>9 DEF y, z
        <5>3. ~Joins(g', y, g'.ends[z].from, g'.ends[z].to)
          BY <5>1, <5>2, <3>5 DEF Joins
        <5> QED BY <5>3 DEF y, z
      <4>4. CASE u = s /\ z = x /\ y \in Range(g.paths[s])
        <5>1. ~Joins(g, y, f, t)
          BY <4>4, <2>4
        <5> HIDE DEF y, z
        <5>2. g'.ends[z] = e /\ g'.ends[y] = g.ends[y] /\ y # none
          BY <4>4, <3>5, <3>9 DEF y, z
        <5>3. ~Joins(g', y, g'.ends[z].from, g'.ends[z].to)
          BY <5>1, <5>2, <3>5 DEF Joins
        <5> QED BY <5>3 DEF y, z
      <4>5. CASE u # s
        BY <4>5, <4>2, <3>6
      <4>6. CASE u = s
        <5>1. i \in 1..(k + 1) /\ j \in 1..(k + 1) /\ y = q[i] /\ z = q[j]
          BY <4>6, <4>1, <3>6
        <5> HIDE DEF y, z
        <5>2. CASE i # k + 1 /\ j # k + 1
          <6>1. i \in 1..k /\ j \in 1..k
            BY <5>1, <5>2, <4>1
          <6> QED BY <6>1, <5>1, <4>1, <4>2, <4>6
        <5>3. CASE i = k + 1
          <6>1. j \in 1..k
            BY <5>1, <5>3, <4>1
          <6>2. y = x /\ z \in Range(g.paths[s])
            BY <6>1, <5>1, <5>3, <4>1 DEF Range
          <6> QED BY <6>2, <4>3, <4>6
        <5>4. CASE j = k + 1
          <6>1. i \in 1..k
            BY <5>1, <5>4, <4>1
          <6>2. z = x /\ y \in Range(g.paths[s])
            BY <6>1, <5>1, <5>4, <4>1 DEF Range
          <6> QED BY <6>2, <4>4, <4>6
        <5> QED BY <5>2, <5>3, <5>4
      <4> QED BY <4>5, <4>6
    <3> HIDE DEF q
    <3>12. LiveIsListed'
      <4> SUFFICES ASSUME NEW y \in Path, g'.ends[y] # none, y \notin released
                   PROVE  y \in Range(g'.paths[g'.ends[y].holder])
        BY <1>1, <1>2, <2>2 DEF PathInv, LiveIsListed, Live
      <4>1. CASE y = x
        BY <4>1, <1>1, <3>5, <3>6, <3>8
      <4>2. CASE y # x
        <5>1. /\ g'.ends[y] = g.ends[y] /\ g.ends[y].holder \in Spore
              /\ y \in Range(g.paths[g.ends[y].holder])
          BY <4>2, <1>1, <3>5 DEF PathInv, LiveIsListed, Live, Graph, End
        <5> QED BY <5>1, <3>6, <3>8
      <4> QED BY <4>1, <4>2
    <3>13. ASSUME NEW p \in Pin
           PROVE  /\ x \notin Range(g.out[p]) /\ g.out[p] \in Seq(Path)
                  /\ x \notin Range(g.in[p]) /\ g.in[p] \in Seq(Path)
      BY <1>1, <2>1 DEF PathInv, PinsListLive, Live, Graph
    <3>14. /\ Range(Link(g.out[f], x)) = Range(g.out[f]) \cup {x}
           /\ IsInjective(Link(g.out[f], x))
           /\ Range(Link(g.in[t], x)) = Range(g.in[t]) \cup {x}
           /\ IsInjective(Link(g.in[t], x))
      <4>1. IsInjective(g.out[f]) /\ IsInjective(g.in[t])
        BY <1>1 DEF PathInv, PinsListOnce
      <4> QED BY <4>1, <1>1, <3>13, LinkList
    <3>15. PinsListOnce'
      BY <1>1, <3>7, <3>14 DEF PathInv, PinsListOnce
    <3>16. PinsListLive'
      <4>1. x \notin released /\ \A y \in Path : Live(y) => Live(y)'
        BY <1>1, <1>2, <2>1, <3>5 DEF PathInv, ListsOwn, Live
      <4>2. Live(x)'
        BY <4>1, <1>2, <3>5, Apart DEF Live
      <4>3. ASSUME NEW p \in Pin, NEW y \in Range(g'.out[p])
            PROVE  Live(y)' /\ g'.ends[y].from = p
        <5>1. CASE y = x /\ p = f
          BY <5>1, <4>2, <3>5
        <5>2. CASE y \in Range(g.out[p])
          <6>1. y \in Path /\ y # x
            BY <5>2, <3>13, RangeOfSeq
          <6> QED BY <6>1, <5>2, <4>1, <1>1, <3>5 DEF PathInv, PinsListLive
        <5> QED BY <5>1, <5>2, <3>7, <3>14
      <4>4. ASSUME NEW p \in Pin, NEW y \in Range(g'.in[p])
            PROVE  Live(y)' /\ g'.ends[y].to = p
        <5>1. CASE y = x /\ p = t
          BY <5>1, <4>2, <3>5
        <5>2. CASE y \in Range(g.in[p])
          <6>1. y \in Path /\ y # x
            BY <5>2, <3>13, RangeOfSeq
          <6> QED BY <6>1, <5>2, <4>1, <1>1, <3>5 DEF PathInv, PinsListLive
        <5> QED BY <5>1, <5>2, <3>7, <3>14
      <4> QED BY <4>3, <4>4 DEF PinsListLive
    <3>17. ListsOrdered'
      <4> SUFFICES ASSUME NEW u \in Spore, NEW p \in Pin
                   PROVE  Ordered(g'.paths[u], g'.out[p]) /\ Ordered(g'.paths[u], g'.in[p])
        BY DEF ListsOrdered
      <4>1. /\ g.paths[u] \in Seq(Path \cup {none}) /\ x \notin Range(g.paths[u])
            /\ Ordered(g.paths[u], g.out[p]) /\ Ordered(g.paths[u], g.in[p])
        BY <1>1, <3>9 DEF Graph, PathInv, ListsOrdered
      <4>2. /\ Ordered(Append(g.paths[u], x), g.out[p])
            /\ Ordered(g.paths[u], Link(g.out[p], x))
            /\ Ordered(Append(g.paths[u], x), Link(g.out[p], x))
        BY <4>1, <3>13, OrderedConnect
      <4>3. /\ Ordered(Append(g.paths[u], x), g.in[p])
            /\ Ordered(g.paths[u], Link(g.in[p], x))
            /\ Ordered(Append(g.paths[u], x), Link(g.in[p], x))
        BY <4>1, <3>13, OrderedConnect
      <4> QED BY <4>1, <4>2, <4>3, <3>6, <3>7 DEF q
    <3>18. PathInv'
      BY <3>10, <3>11, <3>12, <3>15, <3>16, <3>17 DEF PathInv
    <3> QED BY <3>3, <3>4, <3>18 DEF IInv
  <2> QED BY <2>3, <2>4
<1> QED BY <1>3, <1>4

\* Path::release.
LEMMA ReleaseStep ==
  ASSUME IInv, NEW th \in Thread, NEW x \in Path, Release(th, x)
  PROVE  IInv'
<1> DEFINE e == g.ends[x]
           s == e.holder
<1>1. /\ e \in End /\ s \in Spore /\ e.from \in Pin /\ e.to \in Pin
      /\ g \in Graph /\ HomeInv /\ PathInv
      /\ g' = RemovePath(g, x) /\ released' = released \cup {x}
      /\ UNCHANGED <<op, crashed, raced>> /\ crashed = FALSE
  BY DEF IInv, TypeOK, Release, Graph, End
<1>2. calls' \in 0..MaxCalls
  <2>1. MaxCalls \in Nat
    BY NestAssumption
  <2> QED BY <2>1 DEF Release, IInv, TypeOK
<1>3. CASE x \notin Range(g.paths[s])
  <2>1. g' = g
    BY <1>1, <1>3 DEF RemovePath
  <2>2. TypeOK'
    BY <1>1, <1>2, <2>1 DEF IInv, TypeOK
  <2>3. HomeInv'
    BY <1>1, <2>1, HomeKept
  <2>4. ~Live(x)
    BY <1>1, <1>3 DEF PathInv, LiveIsListed
  <2>5. ListsOwn' /\ NoTwins' /\ LiveIsListed' /\ PinsListOnce'
    <3>1. ListsOwn'
      <4>1. released' # {} /\ \A y \in released' : g.ends[y] # none
        BY <1>1, Apart DEF PathInv, ListsOwn
      <4> QED BY <4>1, <1>1, <2>1 DEF PathInv, ListsOwn
    <3>2. NoTwins'
      BY <1>1, <2>1 DEF PathInv, NoTwins, Joins
    <3>3. LiveIsListed'
      BY <1>1, <2>1 DEF PathInv, LiveIsListed, Live
    <3>4. PinsListOnce'
      BY <1>1, <2>1 DEF PathInv, PinsListOnce
    <3> QED BY <3>1, <3>2, <3>3, <3>4
  <2>6. PinsListLive'
    BY <1>1, <2>1, <2>4 DEF PathInv, PinsListLive, Live
  <2>7. ListsOrdered'
    BY <1>1, <2>1 DEF PathInv, ListsOrdered
  <2> QED BY <2>2, <2>3, <2>5, <2>6, <2>7 DEF IInv, PathInv
<1>4. CASE x \in Range(g.paths[s])
  <2> DEFINE n == RemovePath(g, x)
             q == RemoveIf(g.paths[s], x)
             o == Unlink(g.out[e.from], x)
             i == Unlink(g.in[e.to], x)
  <2>1. /\ n \in Graph
        /\ n.home = g.home /\ n.held = g.held /\ n.ends = g.ends
        /\ n.paths = [g.paths EXCEPT ![s] = RemoveIf(@, x)]
        /\ n.out = [g.out EXCEPT ![e.from] = Unlink(@, x)]
        /\ n.in = [g.in EXCEPT ![e.to] = Unlink(@, x)]
    BY <1>1, <1>4, Apart, RemovePathEffect DEF PathInv, PinsListOnce
  <2> HIDE DEF n
  <2>2. g' = n
    BY <1>1 DEF n
  <2>3. TypeOK'
    BY <1>1, <1>2, <2>1, <2>2 DEF IInv, TypeOK
  <2>4. HomeInv'
    BY <1>1, <2>1, <2>2, HomeKept
  <2>5. \A u \in Spore : g'.paths[u] = IF u = s THEN q ELSE g.paths[u]
    BY <1>1, <2>1, <2>2 DEF Graph
  <2>6. /\ \A p \in Pin : g'.out[p] = IF p = e.from THEN o ELSE g.out[p]
        /\ \A p \in Pin : g'.in[p] = IF p = e.to THEN i ELSE g.in[p]
    <3>1. \A p \in Pin : g'.out[p] = IF p = e.from THEN o ELSE g.out[p]
      BY <1>1, <2>1, <2>2 DEF Graph
    <3>2. \A p \in Pin : g'.in[p] = IF p = e.to THEN i ELSE g.in[p]
      BY <1>1, <2>1, <2>2 DEF Graph
    <3> QED BY <3>1, <3>2
  <2>7. /\ Range(q) \subseteq Range(g.paths[s]) \cup {none}
        /\ Range(g.paths[s]) \ {x} \subseteq Range(q)
        /\ \A j, k \in DOMAIN q : j # k /\ q[j] # none /\ q[k] # none =>
             \E a, b \in DOMAIN g.paths[s] :
               a # b /\ q[j] = g.paths[s][a] /\ q[k] = g.paths[s][b]
    <3>1. g.paths[s] \in Seq(Path \cup {none})
      BY <1>1 DEF Graph
    <3> QED BY <3>1, <1>4, RemoveIfList
  <2>8. ASSUME NEW p \in Pin
        PROVE  /\ g.out[p] \in Seq(Path) /\ IsInjective(g.out[p])
               /\ g.in[p] \in Seq(Path) /\ IsInjective(g.in[p])
    BY <1>1 DEF Graph, PathInv, PinsListOnce
  <2>9. /\ Range(o) \subseteq Range(g.out[e.from]) \ {x} /\ IsInjective(o)
        /\ Range(i) \subseteq Range(g.in[e.to]) \ {x} /\ IsInjective(i)
    BY <1>1, <2>8, UnlinkList
  <2>10. \A y \in Path : Live(y)' <=> Live(y) /\ y # x
    BY <1>1, <2>1, <2>2 DEF Live
  <2>11. g'.ends = g.ends /\ released' # {}
    BY <1>1, <2>1, <2>2
  <2> HIDE DEF q, o, i, e
  <2>12. ListsOwn'
    <3>1. ASSUME NEW u \in Spore, NEW y \in Range(g'.paths[u]), y # none
          PROVE  g'.ends[y] # none /\ g'.ends[y].holder = u
      <4>1. y \in Range(g.paths[u])
        BY <3>1, <2>5, <2>7
      <4> QED BY <4>1, <3>1, <1>1, <2>11 DEF PathInv, ListsOwn
    <3>2. \A y \in released' : g'.ends[y] # none
      BY <1>1, <2>11, Apart DEF PathInv, ListsOwn, e
    <3> QED BY <3>1, <3>2, <2>11 DEF ListsOwn
  <2>13. NoTwins'
    <3> SUFFICES ASSUME NEW u \in Spore, NEW j \in DOMAIN g'.paths[u],
                        NEW k \in DOMAIN g'.paths[u], j # k,
                        g'.paths[u][j] # none, g'.paths[u][k] # none
                 PROVE  LET y == g'.paths[u][j]
                            z == g'.paths[u][k]
                        IN  ~Joins(g', y, g'.ends[z].from, g'.ends[z].to)
      BY DEF NoTwins
    <3> DEFINE y == g'.paths[u][j]
               z == g'.paths[u][k]
    <3>1. PICK a \in DOMAIN g.paths[u], b \in DOMAIN g.paths[u] :
            a # b /\ y = g.paths[u][a] /\ z = g.paths[u][b]
      BY <2>5, <2>7
    <3>2. ~Joins(g, y, g.ends[z].from, g.ends[z].to)
      BY <3>1, <1>1 DEF PathInv, NoTwins
    <3> QED BY <3>2, <2>11 DEF Joins
  <2>14. LiveIsListed'
    <3> SUFFICES ASSUME NEW y \in Path, Live(y)'
                 PROVE  y \in Range(g'.paths[g'.ends[y].holder])
      BY <1>1 DEF LiveIsListed
    <3>1. /\ y # x /\ g.ends[y].holder \in Spore
          /\ y \in Range(g.paths[g.ends[y].holder])
      BY <1>1, <2>10 DEF PathInv, LiveIsListed, Live, Graph, End
    <3> QED BY <3>1, <2>5, <2>7, <2>11
  <2>15. PinsListOnce'
    BY <1>1, <2>6, <2>9 DEF PathInv, PinsListOnce
  <2>16. PinsListLive'
    <3>1. ASSUME NEW p \in Pin, NEW y \in Range(g'.out[p])
          PROVE  Live(y)' /\ g'.ends[y].from = p
      <4>1. y \in Range(g.out[p]) /\ (p = e.from => y # x)
        BY <2>6, <2>9
      <4>2. y \in Path /\ Live(y) /\ g.ends[y].from = p
        BY <4>1, <1>1, <2>8, RangeOfSeq DEF PathInv, PinsListLive
      <4> QED BY <4>1, <4>2, <2>10, <2>11 DEF e
    <3>2. ASSUME NEW p \in Pin, NEW y \in Range(g'.in[p])
          PROVE  Live(y)' /\ g'.ends[y].to = p
      <4>1. y \in Range(g.in[p]) /\ (p = e.to => y # x)
        BY <2>6, <2>9
      <4>2. y \in Path /\ Live(y) /\ g.ends[y].to = p
        BY <4>1, <1>1, <2>8, RangeOfSeq DEF PathInv, PinsListLive
      <4> QED BY <4>1, <4>2, <2>10, <2>11 DEF e
    <3> QED BY <3>1, <3>2 DEF PinsListLive
  <2>17. ListsOrdered'
    <3> SUFFICES ASSUME NEW u \in Spore, NEW p \in Pin
                 PROVE  Ordered(g'.paths[u], g'.out[p]) /\ Ordered(g'.paths[u], g'.in[p])
      BY DEF ListsOrdered
    <3>1. /\ g.paths[u] \in Seq(Path \cup {none})
          /\ Ordered(g.paths[u], g.out[p]) /\ Ordered(g.paths[u], g.in[p])
      BY <1>1 DEF Graph, PathInv, ListsOrdered
    <3>2. /\ Ordered(g.paths[u], Unlink(g.out[p], x))
          /\ Ordered(g.paths[u], Unlink(g.in[p], x))
      BY <3>1, <2>8, Apart, OrderedRelease
    <3>3. CASE u # s
      BY <3>1, <3>2, <3>3, <2>5, <2>6 DEF o, i
    <3>4. CASE u = s
      <4>1. /\ Ordered(RemoveIf(g.paths[u], x), g.out[p])
            /\ Ordered(RemoveIf(g.paths[u], x), Unlink(g.out[p], x))
        BY <3>1, <3>4, <2>8, <1>4, Apart, OrderedRelease
      <4>2. /\ Ordered(RemoveIf(g.paths[u], x), g.in[p])
            /\ Ordered(RemoveIf(g.paths[u], x), Unlink(g.in[p], x))
        BY <3>1, <3>4, <2>8, <1>4, Apart, OrderedRelease
      <4> QED BY <4>1, <4>2, <3>4, <2>5, <2>6 DEF q, o, i
    <3> QED BY <3>3, <3>4
  <2> QED BY <2>3, <2>4, <2>12, <2>13, <2>14, <2>15, <2>16, <2>17 DEF IInv, PathInv
<1> QED BY <1>3, <1>4
-----------------------------------------------------------------------------
LEMMA NextInv == IInv /\ [Next]_vars => IInv'
<1> SUFFICES ASSUME IInv, [Next]_vars PROVE IInv'
  OBVIOUS
<1>1. CASE UNCHANGED vars
  <2>1. HomeInv' /\ TypeOK'
    BY <1>1 DEF IInv, HomeInv, HomeLists, InFlight, TypeOK, vars, About
  <2>2. PathInv'
    BY <1>1, PathsKept DEF IInv, vars
  <2> QED BY <2>1, <2>2 DEF IInv
<1>2. ASSUME NEW th \in Thread, ThreadStep(th)
      PROVE  IInv'
  <2> DEFINE o == op[th]
  <2>20. /\ o.call = "to" => o \in First /\ g.home[o.to] \in Spore \cup {none}
         /\ o.call \in {"parent", "compare", "holder", "inner", "outer"} =>
              o \in Read /\ g.home[o.fs] \in Spore \cup {none}
    <3>1. o \in {Idle} \cup Edit \cup First \cup Read \cup Join
      BY DEF IInv, TypeOK
    <3>2. \A m \in Member : g.home[m] \in Spore \cup {none}
      BY DEF IInv, TypeOK, Graph
    <3> HIDE DEF o
    <3> QED BY <3>1, <3>2, Apart
  <2>1. ASSUME NEW s \in Spore, NEW m \in Member, AddTest(th, s, m) \/ RemoveTest(th, s, m)
        PROVE  IInv'
    BY <2>1, BeginStep, Apart DEF AddTest, RemoveTest
  <2>2. ASSUME NEW f \in Pin, NEW t \in Pin, ConnectFrom(th, f, t)
        PROVE  IInv'
    BY <2>2, BeginStep, Apart DEF ConnectFrom, IInv, TypeOK, Graph
  <2>3. ASSUME NEW x \in Path, Release(th, x)
        PROVE  IInv'
    BY <2>3, ReleaseStep
  <2>4. CASE AddLocked(th)
    BY <2>4, AddStep
  <2>5. CASE RemoveLocked(th)
    BY <2>5, RemoveStep
  <2>6. CASE ConnectTo(th)
    <3> DEFINE ts == g.home[o.to]
               n == IF o.fs = none \/ ts = none THEN Idle
                    ELSE [o EXCEPT !.call = "parent", !.ts = ts]
    <3>1. o \in First /\ ts \in Spore \cup {none}
      BY <2>6, <2>20 DEF ConnectTo, ReadAt
    <3> HIDE DEF ts
    <3>2. n \in {Idle} \cup Read
      BY <3>1
    <3>3. Goto(th, n) /\ UNCHANGED <<g, crashed>>
      BY <2>6 DEF ConnectTo, ReadAt, ts
    <3> HIDE DEF n
    <3> QED BY <3>2, <3>3, ReadStep
  <2>7. CASE ConnectParent(th)
    <3> DEFINE n == [o EXCEPT !.call = "compare", !.pf = g.home[o.fs]]
    <3>1. o \in Read /\ g.home[o.fs] \in Spore \cup {none}
      BY <2>7, <2>20 DEF ConnectParent, ReadAt
    <3>2. n \in Read
      BY <3>1
    <3>3. Goto(th, n) /\ UNCHANGED <<g, crashed>>
      BY <2>7 DEF ConnectParent, ReadAt
    <3> HIDE DEF n
    <3> QED BY <3>2, <3>3, ReadStep
  <2>8. CASE ConnectCompare(th)
    BY <2>8, ReadStep DEF ConnectCompare, ReadAt, IInv, TypeOK
  <2>9. CASE ConnectSiblings(th)
    <3> DEFINE holder == g.home[o.fs]
               n == IF holder # none /\ o.from \in OutPin /\ o.to \in InPin
                      THEN [call |-> "join", spore |-> holder,
                            from |-> o.from, to |-> o.to]
                      ELSE Idle
    <3>1. o \in Read /\ holder \in Spore \cup {none}
      BY <2>9, <2>20 DEF ConnectSiblings, ReadAt
    <3> HIDE DEF holder
    <3>2. n \in {Idle} \cup Join
      BY <3>1
    <3>3. Goto(th, n) /\ UNCHANGED <<g, crashed>>
      BY <2>9 DEF ConnectSiblings, JoinIf, ReadAt, holder
    <3> HIDE DEF n
    <3> QED BY <3>2, <3>3, ReadStep
  <2>10. CASE ConnectInner(th)
    BY <2>10, ReadStep DEF ConnectInner, JoinIf, ReadAt, IInv, TypeOK
  <2>11. CASE ConnectOuter(th)
    BY <2>11, ReadStep DEF ConnectOuter, JoinIf, ReadAt, IInv, TypeOK
  <2>12. CASE ConnectLocked(th)
    BY <2>12, ConnectStep
  <2> QED BY <1>2, <2>1, <2>2, <2>3, <2>4, <2>5, <2>6, <2>7, <2>8, <2>9,
             <2>10, <2>11, <2>12 DEF ThreadStep
<1> QED BY <1>1, <1>2 DEF Next

\* The inductive invariant holds of every edit of every tree.
THEOREM Invariance == Spec => []IInv
BY InitInv, NextInv, PTL DEF Spec

\* The graph and the edits in flight stay well typed.
THEOREM NestTyped == Spec => []TypeOK
BY Invariance, PTL DEF IInv

\* A member with a home is listed there, once; only a member that two edits
\* were about at once may be listed by a spore that is not its home.
THEOREM HomesAreListed == Spec => []HomeLists
BY Invariance, PTL DEF IInv, HomeInv

\* However many threads connect the same two pins, a spore holds one path.
THEOREM OnePathPerPair == Spec => []NoTwins
BY Invariance, PTL DEF IInv, PathInv

\* remove_if without erase loses no path that was not released, and connect
\* dereferences no null as long as nothing was released.
THEOREM LivePathsListed == Spec => []LiveIsListed
BY Invariance, PTL DEF IInv, PathInv

\* What Pin::push walks is made, not released, and starts or ends at the pin.
THEOREM PinsHoldLivePaths == Spec => []PinsListLive
BY Invariance, PTL DEF IInv, PathInv
-----------------------------------------------------------------------------
(***************************************************************************)
(* Spore::clone.  What the calls of _clone have passed is in the copy.     *)
(***************************************************************************)
\* Entry i of the list of c was copied.
Passed(c, i) ==
  /\ g.held[c][i] \notin Typed
  /\ \/ call[c].loop \in {"paths", "done"}
     \/ call[c].loop = "childs" /\ (g.held[c][i] \in Pin \/ i < call[c].next)
     \/ call[c].loop = "pins" /\ g.held[c][i] \in Pin /\ i < call[c].next

\* Entry i of the list of c is a pin that the call for c has met.
Walked(c, i) ==
  /\ g.held[c][i] \in Pin
  /\ \/ call[c].loop \in {"childs", "paths", "done"}
     \/ call[c].loop = "pins" /\ i < call[c].next

Done(c) == call[c].loop = "done"
Open(c) == call[c].loop \in {"pins", "childs", "paths"}

\* How many of the paths of c the call for c has been through.
Count(c) == IF call[c].loop = "done" THEN Len(g.paths[c])
            ELSE IF call[c].loop = "paths" THEN call[c].next - 1 ELSE 0

CloneTypeOK == /\ copy \in Graph
               /\ met \subseteq Pin
               /\ call \in [Spore -> Call]
               /\ at \in Spore \cup {none}
               /\ root \in Spore \cup {none}

\* Before clone is called.
Fresh == /\ copy = Blank /\ at = none
         /\ \A c \in Spore : call[c].loop = "before"

\* The call for c was made where it has its home.
CalledBy(c) ==
  IF c = root THEN call[c].caller = none
  ELSE LET up == call[c].caller
       IN  /\ up \in Spore /\ up = g.home[c] /\ up # at
           /\ call[up].loop = "childs"
           /\ call[up].next \in DOMAIN g.held[up]
           /\ g.held[up][call[up].next] = c

\* One call runs, the others wait for the child they are at.
Calls ==
  /\ at # none => Open(at)
  /\ root # none /\ at = none => Done(root)
  /\ \A c \in Spore : Open(c) => (c # at => call[c].loop = "childs") /\ CalledBy(c)
  /\ \A c \in Spore : call[c].loop = "paths" => call[c].next <= Len(g.paths[c]) + 1

\* The copy holds what the calls have passed.
Copies ==
  /\ \A c \in Spore : \A i \in DOMAIN g.held[c] : Passed(c, i) =>
       /\ g.held[c][i] \in Range(copy.held[c])
       /\ g.home[g.held[c][i]] = c
       /\ g.held[c][i] # root
  /\ \A c \in Spore : \A m \in Range(copy.held[c]) :
       \E i \in DOMAIN g.held[c] : g.held[c][i] = m /\ Passed(c, i)
  /\ \A c \in Spore, m \in Member : copy.home[m] = c <=> m \in Range(copy.held[c])
  /\ \A m \in Spore \ {root} : Done(m) <=> copy.home[m] # none

\* In the order of the original, pins and children apart.
CopiesOrder ==
  /\ \A c \in Spore : IsInjective(copy.held[c])
  /\ \A c \in Spore : \A i, j \in DOMAIN g.held[c] :
       i < j /\ Passed(c, i) /\ Passed(c, j)
         /\ (g.held[c][i] \in Pin <=> g.held[c][j] \in Pin)
       => Before(copy.held[c], g.held[c][i], g.held[c][j])

AllPlaced == \A c \in Spore : call[c].loop \in {"paths", "done"} =>
               \A x \in Range(g.paths[c]) : Placed(x)

\* A pin that was met is a key of pinmap, whether it was copied or not.
KeysMet == \A c \in Spore : \A i \in DOMAIN g.held[c] :
             Walked(c, i) => g.held[c][i] \in met

\* The paths that were tried, and those of them that were connected anew.
Tried == {x \in Path : \E c \in Spore : \E k \in 1..Count(c) : g.paths[c][k] = x}
Anew == {x \in Tried : g.ends[x].to \notin Typed}

PathCopies ==
  /\ \A x \in Tried : g.ends[x].from \notin Typed
  /\ \A x \in Anew : copy.ends[x] = g.ends[x]
  /\ \A c \in Spore :
       /\ Range(copy.paths[c]) = {x \in Anew : g.ends[x].holder = c}
       /\ \A x, y : Before(copy.paths[c], x, y) => Before(g.paths[c], x, y)
  /\ \A p \in Pin :
       /\ Range(copy.out[p]) = {x \in Anew : g.ends[x].from = p}
       /\ Range(copy.in[p]) = {x \in Anew : g.ends[x].to = p}
       /\ \A x, y : Before(copy.out[p], x, y) => Before(g.out[p], x, y)
       /\ \A x, y : Before(copy.in[p], x, y) => Before(g.in[p], x, y)

CloneInv ==
  /\ CloneTypeOK
  /\ root = none => Fresh
  /\ root # none => /\ Calls /\ Copies /\ CopiesOrder /\ KeysMet
                    /\ AllPlaced => PathCopies

LEMMA CloneStep == CloneNext => [Next]_vars
BY DEF CloneNext, Clone, ClonePin, CloneChild, ClonePath, NextLoop, Return,
       InLoop, LoopEnds, cloneVars

LEMMA AddMemberEffect ==
  ASSUME NEW gr \in Graph, NEW s \in Spore, NEW m \in Member,
         m \notin Range(gr.held[s])
  PROVE  LET n == AddMember(gr, s, m)
         IN  /\ n \in Graph
             /\ n.home = [gr.home EXCEPT ![m] = s]
             /\ n.held = [gr.held EXCEPT ![s] = Append(@, m)]
             /\ n.paths = gr.paths /\ n.ends = gr.ends
             /\ n.out = gr.out /\ n.in = gr.in
<1>1. Append(gr.held[s], m) \in Seq(Member)
  BY AppendList DEF Graph
<1> QED BY <1>1 DEF AddMember, Graph

\* What the lists of the graph hold.
LEMMA HeldFacts ==
  ASSUME IInv, NEW c \in Spore
  PROVE  /\ g \in Graph /\ g.held[c] \in Seq(Member)
         /\ Len(g.held[c]) \in Nat /\ DOMAIN g.held[c] = 1..Len(g.held[c])
         /\ \A i \in DOMAIN g.held[c] : g.held[c][i] \in Member
         /\ \A i, j \in DOMAIN g.held[c] : g.held[c][i] = g.held[c][j] => i = j
         /\ \A m \in Member : g.home[m] = c =>
              \E i \in DOMAIN g.held[c] : g.held[c][i] = m
<1>1. g \in Graph /\ g.held[c] \in Seq(Member) /\ HomeLists
  BY DEF IInv, TypeOK, Graph, HomeInv
<1>2. /\ Len(g.held[c]) \in Nat /\ DOMAIN g.held[c] = 1..Len(g.held[c])
      /\ \A i \in DOMAIN g.held[c] : g.held[c][i] \in Member
  BY <1>1, LenProperties, ElementOfSeq
<1>3. c # none
  BY Apart
<1>4. IsInjective(g.held[c])
  BY <1>1 DEF HomeLists
<1>5. \A m \in Member : g.home[m] = c => m \in Range(g.held[c])
  BY <1>1, <1>3 DEF HomeLists
<1> QED BY <1>1, <1>2, <1>4, <1>5 DEF IsInjective, Range

LEMMA PathFacts ==
  ASSUME IInv, NEW c \in Spore
  PROVE  /\ g.paths[c] \in Seq(Path \cup {none})
         /\ Len(g.paths[c]) \in Nat /\ DOMAIN g.paths[c] = 1..Len(g.paths[c])
         /\ \A k \in DOMAIN g.paths[c] : g.paths[c][k] \in Path \cup {none}
BY LenProperties, ElementOfSeq DEF IInv, TypeOK, Graph

\* Nothing was passed, nothing was copied.
LEMMA CopiesKept ==
  ASSUME Copies, CopiesOrder, g' = g, root' = root,
         copy'.home = copy.home, copy'.held = copy.held,
         \A c \in Spore : \A i \in DOMAIN g.held[c] : Passed(c, i)' <=> Passed(c, i),
         \A c \in Spore \ {root} : Done(c)' <=> Done(c)
  PROVE  Copies' /\ CopiesOrder'
<1>1. Copies'
  BY DEF Copies
<1>2. CopiesOrder'
  BY DEF CopiesOrder
<1> QED BY <1>1, <1>2

\* Entry k of the list of s was passed and copied.
LEMMA CopiesAdded ==
  ASSUME IInv, copy \in Graph, Copies, CopiesOrder, g' = g, root' = root,
         NEW s \in Spore, NEW k \in DOMAIN g.held[s], NEW m,
         m = g.held[s][k], g.home[m] = s, m # root, ~Passed(s, k),
         copy' = AddMember(copy, s, m),
         \A c \in Spore : \A i \in DOMAIN g.held[c] :
           Passed(c, i)' <=> Passed(c, i) \/ (c = s /\ i = k),
         \A c \in Spore : Done(c)' <=> Done(c) \/ c = m,
         \A i \in DOMAIN g.held[s] :
           Passed(s, i) /\ (g.held[s][i] \in Pin <=> m \in Pin) => i < k
  PROVE  /\ copy' \in Graph /\ Copies' /\ CopiesOrder'
         /\ copy'.paths = copy.paths /\ copy'.ends = copy.ends
         /\ copy'.out = copy.out /\ copy'.in = copy.in
<1>1. /\ m \in Member
      /\ \A i \in DOMAIN g.held[s] : g.held[s][i] = m => i = k
  BY HeldFacts
<1>2. m \notin Range(copy.held[s])
  BY <1>1 DEF Copies
<1>3. /\ copy' \in Graph
      /\ copy'.home = [copy.home EXCEPT ![m] = s]
      /\ copy'.held = [copy.held EXCEPT ![s] = Append(@, m)]
      /\ copy'.paths = copy.paths /\ copy'.ends = copy.ends
      /\ copy'.out = copy.out /\ copy'.in = copy.in
  <2> DEFINE n == AddMember(copy, s, m)
  <2>1. /\ n \in Graph
        /\ n.home = [copy.home EXCEPT ![m] = s]
        /\ n.held = [copy.held EXCEPT ![s] = Append(@, m)]
        /\ n.paths = copy.paths /\ n.ends = copy.ends
        /\ n.out = copy.out /\ n.in = copy.in
    <3>1. copy \in Graph /\ m \in Member /\ m \notin Range(copy.held[s])
      BY <1>1, <1>2
    <3> QED BY ONLY <3>1, s \in Spore, AddMemberEffect
  <2> HIDE DEF n
  <2>2. copy' = n
    BY DEF n
  <2> QED BY <2>1, <2>2
<1> DEFINE q == copy.held[s]
<1>4. q \in Seq(Member)
  BY DEF Graph
<1>5. /\ Range(Append(q, m)) = Range(q) \cup {m}
      /\ IsInjective(Append(q, m))
  BY <1>1, <1>2, <1>4, AppendList DEF CopiesOrder
<1>6. /\ \A y, z : Before(q, y, z) => Before(Append(q, m), y, z)
      /\ \A y \in Range(q) : Before(Append(q, m), y, m)
  BY <1>1, <1>4, AppendBefore
<1>7. \A c \in Spore : copy'.held[c] = IF c = s THEN Append(q, m) ELSE copy.held[c]
  BY <1>3 DEF Graph
<1>8. \A y \in Member : copy'.home[y] = IF y = m THEN s ELSE copy.home[y]
  BY <1>3, <1>1 DEF Graph
<1> HIDE DEF q
<1>9. \A c \in Spore : Range(copy'.held[c]) =
        IF c = s THEN Range(copy.held[c]) \cup {m} ELSE Range(copy.held[c])
  BY <1>5, <1>7 DEF q
<1>10. Copies'
  <2>1. ASSUME NEW c \in Spore, NEW i \in DOMAIN g.held[c], Passed(c, i)'
        PROVE  /\ g.held[c][i] \in Range(copy'.held[c])
               /\ g.home[g.held[c][i]] = c /\ g.held[c][i] # root
    <3>1. CASE Passed(c, i)
      <4>1. /\ g.held[c][i] \in Range(copy.held[c])
            /\ g.home[g.held[c][i]] = c /\ g.held[c][i] # root
        BY <3>1 DEF Copies
      <4> QED BY <4>1, <1>9
    <3>2. CASE c = s /\ i = k
      BY <3>2, <1>9
    <3> QED BY <3>1, <3>2, <2>1
  <2>2. ASSUME NEW c \in Spore, NEW y \in Range(copy'.held[c])
        PROVE  \E i \in DOMAIN g.held[c] : g.held[c][i] = y /\ Passed(c, i)'
    <3>1. CASE y \in Range(copy.held[c])
      <4>1. PICK i \in DOMAIN g.held[c] : g.held[c][i] = y /\ Passed(c, i)
        BY <3>1 DEF Copies
      <4> QED BY <4>1
    <3>2. CASE c = s /\ y = m
      BY <3>2
    <3>3. y \in Range(copy.held[c]) \/ (c = s /\ y = m)
      BY <1>9
    <3> QED BY <3>1, <3>2, <3>3
  <2>3. ASSUME NEW c \in Spore, NEW y \in Member
        PROVE  copy'.home[y] = c <=> y \in Range(copy'.held[c])
    <3>1. CASE y # m
      <4>1. copy.home[y] = c <=> y \in Range(copy.held[c])
        BY DEF Copies
      <4> QED BY <4>1, <3>1, <1>8, <1>9
    <3>2. CASE y = m /\ c = s
      BY <3>2, <1>8, <1>9
    <3>3. CASE y = m /\ c # s
      <4>1. m \notin Range(copy.held[c])
        BY <3>3 DEF Copies
      <4> QED BY <4>1, <3>3, <1>8, <1>9
    <3> QED BY <3>1, <3>2, <3>3
  <2>4. ASSUME NEW y \in Spore \ {root}
        PROVE  Done(y)' <=> copy'.home[y] # none
    BY <1>8, Apart DEF Copies
  <2> QED BY <2>1, <2>2, <2>3, <2>4 DEF Copies
<1>11. CopiesOrder'
  <2>1. \A c \in Spore : IsInjective(copy'.held[c])
    BY <1>5, <1>7 DEF CopiesOrder
  <2>2. ASSUME NEW c \in Spore, NEW i \in DOMAIN g.held[c], NEW j \in DOMAIN g.held[c],
               i < j, Passed(c, i)', Passed(c, j)',
               g.held[c][i] \in Pin <=> g.held[c][j] \in Pin
        PROVE  Before(copy'.held[c], g.held[c][i], g.held[c][j])
    <3>1. CASE Passed(c, i) /\ Passed(c, j)
      <4>1. Before(copy.held[c], g.held[c][i], g.held[c][j])
        BY <2>2, <3>1 DEF CopiesOrder
      <4> QED BY <4>1, <1>6, <1>7 DEF q
    <3>2. CASE c = s /\ j = k /\ Passed(c, i)
      <4>1. g.held[c][i] \in Range(q)
        BY <3>2 DEF Copies, q
      <4> QED BY <4>1, <3>2, <1>6, <1>7
    <3>3. CASE c = s /\ i = k /\ Passed(c, j)
      <4>1. j < i
        BY <3>3, <2>2
      <4> QED BY <4>1, <2>2, HeldFacts
    <3>4. CASE c = s /\ i = k /\ j = k
      BY <3>4, <2>2, HeldFacts
    <3> QED BY <3>1, <3>2, <3>3, <3>4, <2>2
  <2> QED BY <2>1, <2>2 DEF CopiesOrder
<1> QED BY <1>3, <1>10, <1>11

\* No path was connected.
LEMMA PathCopiesKept ==
  ASSUME PathCopies, g' = g, copy'.paths = copy.paths, copy'.ends = copy.ends,
         copy'.out = copy.out, copy'.in = copy.in,
         \A c \in Spore : Count(c)' = Count(c)
  PROVE  PathCopies'
<1>1. Tried' = Tried /\ Anew' = Anew
  BY DEF Tried, Anew
<1> QED BY <1>1 DEF PathCopies

\* No pin was met that is not in pinmap.
LEMMA KeysKept ==
  ASSUME KeysMet, g' = g, met \subseteq met',
         \A c \in Spore : \A i \in DOMAIN g.held[c] :
           Walked(c, i)' => Walked(c, i) \/ g.held[c][i] \in met'
  PROVE  KeysMet'
BY DEF KeysMet

LEMMA AllPlacedBefore ==
  ASSUME AllPlaced', g' = g,
         \A c \in Spore : call[c].loop \in {"paths", "done"} =>
                            call'[c].loop \in {"paths", "done"}
  PROVE  AllPlaced
BY DEF AllPlaced, Placed, Holder

LEMMA AdvanceEffect ==
  ASSUME call \in [Spore -> Call], NEW s \in Spore, call' = Advance(s)
  PROVE  /\ call' \in [Spore -> Call]
         /\ \A c \in Spore : /\ call'[c].loop = call[c].loop
                             /\ call'[c].caller = call[c].caller
                             /\ call'[c].next = IF c = s THEN call[c].next + 1
                                                ELSE call[c].next
BY DEF Advance, Call

LEMMA LoopEffect ==
  ASSUME call \in [Spore -> Call], NEW s \in Spore, NEW l \in {"childs", "paths"},
         call' = [call EXCEPT ![s] = [loop |-> l, next |-> 1, caller |-> call[s].caller]]
  PROVE  /\ call' \in [Spore -> Call]
         /\ \A c \in Spore : /\ call'[c].loop = IF c = s THEN l ELSE call[c].loop
                             /\ call'[c].caller = call[c].caller
                             /\ call'[c].next = IF c = s THEN 1 ELSE call[c].next
BY DEF Call

LEMMA EnterEffect ==
  ASSUME call \in [Spore -> Call], NEW s \in Spore, NEW u \in Spore \cup {none},
         call' = [call EXCEPT ![s] = Enter(u)]
  PROVE  /\ call' \in [Spore -> Call]
         /\ \A c \in Spore : call'[c] = IF c = s THEN Enter(u) ELSE call[c]
         /\ Enter(u).loop = "pins" /\ Enter(u).next = 1 /\ Enter(u).caller = u
BY DEF Call, Enter

LEMMA DoneEffect ==
  ASSUME call \in [Spore -> Call], NEW s \in Spore,
         call' = [call EXCEPT ![s].loop = "done"]
  PROVE  /\ call' \in [Spore -> Call]
         /\ \A c \in Spore :
              /\ call'[c].loop = IF c = s THEN "done" ELSE call[c].loop
              /\ call'[c].caller = call[c].caller /\ call'[c].next = call[c].next
BY DEF Call

LEMMA ReturnEffect ==
  ASSUME call \in [Spore -> Call], NEW s \in Spore, NEW u \in Spore
  PROVE  LET v == [call EXCEPT ![s].loop = "done", ![u].next = @ + 1]
         IN  /\ v \in [Spore -> Call]
             /\ \A c \in Spore :
                  /\ v[c].loop = IF c = s THEN "done" ELSE call[c].loop
                  /\ v[c].caller = call[c].caller
                  /\ v[c].next = IF c = u THEN call[c].next + 1 ELSE call[c].next
<1> DEFINE h == [call EXCEPT ![s].loop = "done"]
           v == [h EXCEPT ![u].next = @ + 1]
<1>1. /\ h \in [Spore -> Call]
      /\ \A c \in Spore : /\ h[c].loop = IF c = s THEN "done" ELSE call[c].loop
                          /\ h[c].caller = call[c].caller
                          /\ h[c].next = call[c].next
  BY DEF Call
<1>2. v = [call EXCEPT ![s].loop = "done", ![u].next = @ + 1]
  OBVIOUS
<1> HIDE DEF h
<1>3. /\ v \in [Spore -> Call]
      /\ \A c \in Spore : /\ v[c].loop = h[c].loop
                          /\ v[c].caller = h[c].caller
                          /\ v[c].next = IF c = u THEN h[c].next + 1 ELSE h[c].next
  <2>1. h \in [Spore -> Call]
    BY <1>1
  <2> QED BY ONLY <2>1, u \in Spore DEF Call
<1> HIDE DEF v
<1> QED BY <1>1, <1>2, <1>3

\* clone is called.
LEMMA BeginClone ==
  ASSUME IInv, CloneTypeOK, Fresh, NEW s \in Spore, Clone(s)
  PROVE  CloneInv'
<1>1. /\ g' = g /\ copy' = Blank /\ root' = s /\ at' = s
      /\ call' = [call EXCEPT ![s] = Enter(none)] /\ root' # none
  BY Apart DEF Clone, Fresh, vars
<1>2. /\ call' \in [Spore -> Call]
      /\ \A c \in Spore : call'[c].loop = IF c = s THEN "pins" ELSE "before"
      /\ call'[s].next = 1 /\ call'[s].caller = none
  BY <1>1, EnterEffect DEF CloneTypeOK, Fresh
<1>3. CloneTypeOK'
  BY <1>1, <1>2 DEF CloneTypeOK, Clone, Fresh
<1>4. \A c \in Spore : ~Done(c)' /\ Count(c)' = 0
  BY <1>2 DEF Done, Count
<1>5. \A c \in Spore : \A i \in DOMAIN g.held[c] : ~Passed(c, i)'
  BY <1>2, HeldFacts DEF Passed
<1>12. KeysMet'
  <2>1. ASSUME NEW c \in Spore, NEW i \in DOMAIN g.held[c] PROVE ~Walked(c, i)'
    <3>1. /\ i \in Nat \ {0}
          /\ \/ call'[c].loop = "before"
             \/ call'[c].loop = "pins" /\ call'[c].next = 1
      BY <1>2, HeldFacts
    <3> QED BY <3>1 DEF Walked
  <2> QED BY <1>1, <2>1 DEF KeysMet
<1>6. Calls'
  <2>1. \A c \in Spore : Open(c)' <=> c = s
    BY <1>2 DEF Open
  <2> QED BY <1>1, <1>2, <2>1 DEF Calls, CalledBy
<1>7. /\ \A c \in Spore : copy'.held[c] = <<>> /\ copy'.paths[c] = <<>>
      /\ \A m \in Member : copy'.home[m] = none
      /\ \A p \in Pin : copy'.out[p] = <<>> /\ copy'.in[p] = <<>>
  BY <1>1 DEF Blank
<1>8. /\ \A q : q = <<>> => Range(q) = {} /\ IsInjective(q)
      /\ \A q, x, y : q = <<>> => ~Before(q, x, y)
  BY DEF Range, IsInjective, Before
<1>9. Copies'
  <2>1. \A c \in Spore : Range(copy'.held[c]) = {} /\ c # none
    BY <1>7, <1>8, Apart
  <2> QED BY <2>1, <1>1, <1>4, <1>5, <1>7, Apart DEF Copies
<1>10. CopiesOrder'
  BY <1>1, <1>5, <1>7, <1>8 DEF CopiesOrder
<1>11. PathCopies'
  <2>1. Tried' = {} /\ Anew' = {}
    BY <1>4 DEF Tried, Anew
  <2> QED BY <2>1, <1>7, <1>8 DEF PathCopies
<1> QED BY <1>1, <1>3, <1>6, <1>9, <1>10, <1>11, <1>12 DEF CloneInv

\* c was called as it is, after a step that did not change its caller.
LEMMA StillCalled ==
  ASSUME NEW c \in Spore, CalledBy(c), g' = g, root' = root,
         call'[c].caller = call[c].caller,
         c # root => LET up == call[c].caller
                     IN  /\ up # at'
                         /\ call'[up].loop = call[up].loop
                         /\ call'[up].next = call[up].next
  PROVE  CalledBy(c)'
<1> DEFINE up == call[c].caller
<1>1. /\ c = root => up = none
      /\ c # root => /\ up \in Spore /\ up = g.home[c]
                     /\ call[up].loop = "childs"
                     /\ call[up].next \in DOMAIN g.held[up]
                     /\ g.held[up][call[up].next] = c
  BY DEF CalledBy
<1>2. call'[c].caller = up
  OBVIOUS
<1>3. c # root => /\ up # at' /\ call'[up].loop = call[up].loop
                  /\ call'[up].next = call[up].next
  OBVIOUS
<1> HIDE DEF up
<1> QED BY <1>1, <1>2, <1>3 DEF CalledBy

\* The call that runs goes on in its loop.
LEMMA CallsAdvance ==
  ASSUME IInv, CloneTypeOK, Calls, root # none, at # none, g' = g, root' = root, at' = at,
         call' = Advance(at),
         call[at].loop = "paths" => call[at].next \in DOMAIN g.paths[at]
  PROVE  Calls' /\ (copy' \in Graph /\ met' \subseteq Pin => CloneTypeOK')
<1>1. at \in Spore
  BY DEF CloneTypeOK
<1>2. /\ call' \in [Spore -> Call]
      /\ \A c \in Spore : /\ call'[c].loop = call[c].loop
                          /\ call'[c].caller = call[c].caller
                          /\ call'[c].next = IF c = at THEN call[c].next + 1
                                             ELSE call[c].next
  BY <1>1, AdvanceEffect DEF CloneTypeOK
<1>3. \A c \in Spore : (Open(c)' <=> Open(c)) /\ (Done(c)' <=> Done(c))
  BY <1>2 DEF Open, Done
<1>4. \A c \in Spore : call'[c].loop = "paths" => call'[c].next <= Len(g.paths[c]) + 1
  <2> SUFFICES ASSUME NEW c \in Spore, call'[c].loop = "paths"
               PROVE  call'[c].next <= Len(g.paths[c]) + 1
    OBVIOUS
  <2>1. CASE c = at
    BY <2>1, <1>2, PathFacts
  <2>2. CASE c # at
    BY <2>2, <1>2 DEF Calls
  <2> QED BY <2>1, <2>2
<1>5. ASSUME NEW c \in Spore, Open(c)'
      PROVE  (c # at' => call'[c].loop = "childs") /\ CalledBy(c)'
  <2>1. (c # at => call[c].loop = "childs") /\ CalledBy(c)
    BY <1>3, <1>5 DEF Calls
  <2>2. c # root => call[c].caller \in Spore /\ call[c].caller # at
    BY <2>1 DEF CalledBy
  <2> QED BY <1>2, <2>1, <2>2, StillCalled
<1>6. (at' # none => Open(at)') /\ (root' # none /\ at' = none => Done(root)')
  BY <1>1, <1>3 DEF Calls
<1>7. Calls'
  BY <1>4, <1>5, <1>6 DEF Calls
<1> QED BY <1>2, <1>7 DEF CloneTypeOK

LEMMA ClonePinStep ==
  ASSUME IInv, CloneInv, root # none, ClonePin
  PROVE  CloneInv'
<1> DEFINE k == call[at].next
           m == g.held[at][k]
<1>1. /\ at \in Spore /\ at # none /\ call[at].loop = "pins" /\ k \in DOMAIN g.held[at]
      /\ Item = m /\ g.home[m] = at /\ m # root
      /\ g' = g /\ root' = root /\ at' = at /\ call' = Advance(at)
      /\ copy' = IF m \in Pin \ Typed THEN AddMember(copy, at, m) ELSE copy
      /\ met' = met \cup ({m} \cap Pin)
  BY DEF ClonePin, InLoop, Item, List, AtHome, CloneInv, CloneTypeOK, vars
<1>2. CloneTypeOK /\ Calls /\ Copies /\ CopiesOrder /\ KeysMet /\ (AllPlaced => PathCopies)
  BY DEF CloneInv
<1>3. /\ call' \in [Spore -> Call] /\ call[at] \in Call
      /\ \A c \in Spore : /\ call'[c].loop = call[c].loop
                          /\ call'[c].next = IF c = at THEN call[c].next + 1
                                             ELSE call[c].next
  BY <1>1, <1>2, AdvanceEffect DEF CloneTypeOK
<1>4. \A c \in Spore : (Done(c)' <=> Done(c)) /\ Count(c)' = Count(c)
  BY <1>1, <1>3 DEF Done, Count
<1>5. Calls' /\ (copy' \in Graph => CloneTypeOK')
  <2>1. met' \subseteq Pin
    BY <1>1, <1>2 DEF CloneTypeOK
  <2> QED BY <2>1, <1>1, <1>2, CallsAdvance
<1>6. AllPlaced' => AllPlaced
  BY <1>1, <1>3, AllPlacedBefore
<1>7. k \in Nat /\ m \in Member
  BY <1>1, HeldFacts
<1>8. \A c \in Spore : \A i \in DOMAIN g.held[c] :
        Passed(c, i)' <=> Passed(c, i) \/ (c = at /\ i = k /\ m \in Pin \ Typed)
  <2> SUFFICES ASSUME NEW c \in Spore, NEW i \in DOMAIN g.held[c]
               PROVE  Passed(c, i)' <=>
                        Passed(c, i) \/ (c = at /\ i = k /\ m \in Pin \ Typed)
    OBVIOUS
  <2>1. CASE c # at
    BY <2>1, <1>1, <1>3 DEF Passed
  <2>2. CASE c = at
    <3>1. i \in Nat /\ (i < k + 1 <=> i < k \/ i = k)
      BY <1>7, HeldFacts
    <3> QED BY <3>1, <2>2, <1>1, <1>3 DEF Passed
  <2> QED BY <2>1, <2>2
<1>11. KeysMet'
  <2>1. ASSUME NEW c \in Spore, NEW i \in DOMAIN g.held[c], Walked(c, i)'
        PROVE  Walked(c, i) \/ g.held[c][i] \in met'
    <3>1. CASE c # at
      BY <2>1, <3>1, <1>1, <1>3 DEF Walked
    <3>2. CASE c = at
      <4>1. i \in Nat /\ (i < k + 1 <=> i < k \/ i = k)
        BY <1>7, HeldFacts
      <4> QED BY <4>1, <2>1, <3>2, <1>1, <1>3 DEF Walked
    <3> QED BY <3>1, <3>2
  <2>2. met \subseteq met'
    BY <1>1
  <2> QED BY <2>1, <2>2, <1>1, <1>2, KeysKept
<1>9. CASE m \in Pin \ Typed
  <2>1. \A c \in Spore : c # m
    BY <1>9, NestAssumption
  <2>2. ~Passed(at, k)
    BY <1>1, <1>7 DEF Passed
  <2>3. \A i \in DOMAIN g.held[at] : Passed(at, i) => i < k
    BY <1>1 DEF Passed
  <2>4. copy \in Graph /\ copy' = AddMember(copy, at, m)
    BY <1>1, <1>2, <1>9 DEF CloneTypeOK
  <2> HIDE DEF m, k
  <2>5. m = g.held[at][k]
    BY DEF m, k
  <2>6. /\ copy' \in Graph /\ Copies' /\ CopiesOrder'
        /\ copy'.paths = copy.paths /\ copy'.ends = copy.ends
        /\ copy'.out = copy.out /\ copy'.in = copy.in
    BY <1>1, <1>2, <1>4, <1>8, <1>9, <2>1, <2>2, <2>3, <2>4, <2>5, CopiesAdded
  <2>7. AllPlaced' => PathCopies'
    BY <1>1, <1>2, <1>4, <1>6, <2>6, PathCopiesKept
  <2> QED BY <1>1, <1>5, <1>11, <2>6, <2>7 DEF CloneInv
<1>10. CASE m \notin Pin \ Typed
  <2>1. Copies' /\ CopiesOrder'
    BY <1>1, <1>2, <1>4, <1>8, <1>10, CopiesKept
  <2>2. AllPlaced' => PathCopies'
    BY <1>1, <1>2, <1>4, <1>6, <1>10, PathCopiesKept
  <2> QED BY <1>1, <1>2, <1>5, <1>10, <1>11, <2>1, <2>2 DEF CloneInv, CloneTypeOK
<1> QED BY <1>9, <1>10

\* A member that is met at home was met by no call before.
LEMMA NotMetBefore ==
  ASSUME IInv, CloneInv, root # none, at # none, call[at].loop = "childs",
         NEW m \in Spore, m # root, g.home[m] = at,
         call[at].next \in DOMAIN g.held[at], g.held[at][call[at].next] = m
  PROVE  call[m].loop = "before"
<1>1. /\ CloneTypeOK /\ Calls /\ Copies /\ at \in Spore
  BY DEF CloneInv, CloneTypeOK
<1>2. ~Open(m)
  BY <1>1 DEF Calls, CalledBy
<1>3. ASSUME Done(m) PROVE FALSE
  <2>1. m \in Member /\ copy.home[m] # none
    BY <1>1, <1>3, Apart DEF Copies
  <2>2. copy.home[m] \in Spore
    BY <1>1, <2>1 DEF CloneTypeOK, Graph
  <2>3. m \in Range(copy.held[copy.home[m]])
    BY <1>1, <2>1, <2>2 DEF Copies
  <2>4. PICK i \in DOMAIN g.held[copy.home[m]] :
          g.held[copy.home[m]][i] = m /\ Passed(copy.home[m], i)
    BY <1>1, <2>2, <2>3 DEF Copies
  <2>5. copy.home[m] = at
    BY <1>1, <2>2, <2>4 DEF Copies
  <2>6. i = call[at].next /\ i \in Nat
    BY <1>1, <2>4, <2>5, HeldFacts
  <2>7. m \notin Pin
    BY NestAssumption
  <2> QED BY <2>4, <2>5, <2>6, <2>7 DEF Passed
<1>4. call[m] \in Call
  BY <1>1 DEF CloneTypeOK
<1> QED BY <1>2, <1>3, <1>4 DEF Call, Open, Done

LEMMA CloneChildStep ==
  ASSUME IInv, CloneInv, root # none, CloneChild
  PROVE  CloneInv'
<1> DEFINE k == call[at].next
           m == g.held[at][k]
<1>1. /\ at \in Spore /\ at # none /\ call[at].loop = "childs" /\ k \in DOMAIN g.held[at]
      /\ Item = m /\ g.home[m] = at /\ m # root
      /\ g' = g /\ root' = root /\ copy' = copy /\ met' = met
      /\ IF m \in Spore THEN call' = [call EXCEPT ![m] = Enter(at)] /\ at' = m
                        ELSE call' = Advance(at) /\ at' = at
  BY DEF CloneChild, InLoop, Item, List, AtHome, CloneInv, CloneTypeOK, vars
<1>2. CloneTypeOK /\ Calls /\ Copies /\ CopiesOrder /\ KeysMet /\ (AllPlaced => PathCopies)
  BY DEF CloneInv
<1>3. k \in Nat /\ m \in Member
  BY <1>1, HeldFacts
<1>4. CASE m \notin Spore
  <2>1. m \in Pin /\ call' = Advance(at) /\ at' = at
    BY <1>1, <1>3, <1>4 DEF Member
  <2>2. /\ call' \in [Spore -> Call]
        /\ \A c \in Spore : /\ call'[c].loop = call[c].loop
                            /\ call'[c].next = IF c = at THEN call[c].next + 1
                                               ELSE call[c].next
    BY <1>1, <1>2, <2>1, AdvanceEffect DEF CloneTypeOK
  <2>3. \A c \in Spore : (Done(c)' <=> Done(c)) /\ Count(c)' = Count(c)
    BY <1>1, <2>2 DEF Done, Count
  <2>4. Calls' /\ CloneTypeOK'
    BY <1>1, <1>2, <2>1, CallsAdvance DEF CloneTypeOK
  <2>5. AllPlaced' => AllPlaced
    BY <1>1, <2>2, AllPlacedBefore
  <2>6. ASSUME NEW c \in Spore, NEW i \in DOMAIN g.held[c]
        PROVE  Passed(c, i)' <=> Passed(c, i)
    <3>1. CASE c # at
      BY <3>1, <1>1, <2>2 DEF Passed
    <3>2. CASE c = at
      <4>1. i \in Nat /\ (i < k + 1 <=> i < k \/ i = k)
        BY <1>3, HeldFacts
      <4> QED BY <4>1, <3>2, <1>1, <2>1, <2>2 DEF Passed
    <3> QED BY <3>1, <3>2
  <2>7. Copies' /\ CopiesOrder'
    BY <1>1, <1>2, <2>3, <2>6, CopiesKept
  <2>8. AllPlaced' => PathCopies'
    BY <1>1, <1>2, <2>3, <2>5, PathCopiesKept
  <2>9. \A c \in Spore : \A i \in DOMAIN g.held[c] : Walked(c, i)' => Walked(c, i)
    BY <1>1, <2>2 DEF Walked
  <2>10. KeysMet'
    BY <1>1, <1>2, <2>9, KeysKept
  <2> QED BY <1>1, <2>4, <2>7, <2>8, <2>10 DEF CloneInv
<1>5. CASE m \in Spore
  <2>1. call' = [call EXCEPT ![m] = Enter(at)] /\ at' = m
    BY <1>1, <1>5
  <2>2. /\ call' \in [Spore -> Call]
        /\ \A c \in Spore : call'[c] = IF c = m THEN Enter(at) ELSE call[c]
        /\ Enter(at).loop = "pins" /\ Enter(at).next = 1 /\ Enter(at).caller = at
    BY <1>1, <1>2, <1>5, <2>1, EnterEffect DEF CloneTypeOK
  <2>3. call[m].loop = "before" /\ m # at
    BY <1>1, <1>5, NotMetBefore
  <2> HIDE DEF m
  <2>4. CloneTypeOK'
    BY <1>1, <1>2, <1>5, <2>1, <2>2 DEF CloneTypeOK
  <2>5. \A c \in Spore : (Done(c)' <=> Done(c)) /\ Count(c)' = Count(c)
    BY <1>1, <2>2, <2>3 DEF Done, Count
  <2>6. ASSUME NEW c \in Spore, NEW i \in DOMAIN g.held[c]
        PROVE  Passed(c, i)' <=> Passed(c, i)
    <3>1. CASE c = m
      <4>1. call'[c].loop = "pins" /\ call'[c].next = 1 /\ ~(i < 1)
        BY <3>1, <2>2, HeldFacts
      <4> QED BY <4>1, <3>1, <2>3 DEF Passed
    <3>2. CASE c # m
      <4>1. call'[c] = call[c]
        BY <3>2, <2>2
      <4> QED BY <4>1, <1>1 DEF Passed
    <3> QED BY <3>1, <3>2
  <2>7. AllPlaced' => AllPlaced
    <3>1. \A c \in Spore : call[c].loop \in {"paths", "done"} =>
                             call'[c].loop \in {"paths", "done"}
      BY <2>2, <2>3
    <3> QED BY <1>1, <3>1, AllPlacedBefore
  <2>8. Calls'
    <3>1. ASSUME NEW c \in Spore, Open(c)'
          PROVE  (c # at' => call'[c].loop = "childs") /\ CalledBy(c)'
      <4>1. CASE c = m
        <5>1. /\ call'[c].caller = at /\ call'[at] = call[at] /\ c = at' /\ c # root'
              /\ g'.home[c] = at /\ g'.held[at][k] = c
          BY <4>1, <1>1, <2>1, <2>2, <2>3 DEF m
        <5> QED BY <5>1, <1>1, <2>1, <2>3 DEF CalledBy
      <4>2. CASE c # m
        <5>1. Open(c) /\ call'[c] = call[c]
          BY <4>2, <3>1, <2>1, <2>2 DEF Open
        <5>2. (c # at => call[c].loop = "childs") /\ CalledBy(c)
          BY <1>2, <5>1 DEF Calls
        <5>3. c # root => call[c].caller \in Spore /\ call[c].caller # m
          BY <5>2, <2>3 DEF CalledBy
        <5>4. CalledBy(c)'
          BY <1>1, <2>1, <2>2, <5>1, <5>2, <5>3, StillCalled
        <5> QED BY <1>1, <5>1, <5>2, <5>4
      <4> QED BY <4>1, <4>2
    <3>2. at' # none /\ Open(at)'
      BY <1>5, <2>1, <2>2, Apart DEF Open
    <3>3. \A c \in Spore : call'[c].loop = "paths" => call'[c].next <= Len(g'.paths[c]) + 1
      BY <1>1, <1>2, <2>2 DEF Calls
    <3> QED BY <3>1, <3>2, <3>3 DEF Calls
  <2>9. Copies' /\ CopiesOrder'
    BY <1>1, <1>2, <2>5, <2>6, CopiesKept
  <2>10. AllPlaced' => PathCopies'
    BY <1>1, <1>2, <2>5, <2>7, PathCopiesKept
  <2>11. ASSUME NEW c \in Spore, NEW i \in DOMAIN g.held[c], Walked(c, i)'
         PROVE  Walked(c, i)
    <3>1. CASE c = m
      <4>1. call'[c].loop = "pins" /\ call'[c].next = 1 /\ ~(i < 1)
        BY <3>1, <2>2, HeldFacts
      <4> QED BY <4>1, <2>11 DEF Walked
    <3>2. CASE c # m
      <4>1. call'[c] = call[c]
        BY <3>2, <2>2
      <4> QED BY <4>1, <2>11, <1>1 DEF Walked
    <3> QED BY <3>1, <3>2
  <2>12. KeysMet'
    BY <1>1, <1>2, <2>11, KeysKept
  <2> QED BY <1>1, <2>4, <2>8, <2>9, <2>10, <2>12 DEF CloneInv
<1> QED BY <1>4, <1>5

LEMMA NextLoopStep ==
  ASSUME IInv, CloneInv, root # none, NextLoop
  PROVE  CloneInv'
<1> DEFINE l == After[call[at].loop]
<1>1. /\ CloneTypeOK /\ Calls /\ Copies /\ CopiesOrder /\ KeysMet /\ (AllPlaced => PathCopies)
      /\ at \in Spore /\ at # none /\ call[at] \in Call /\ Open(at)
  BY DEF CloneInv, CloneTypeOK, NextLoop, LoopEnds, Calls
<1>2. /\ call[at].next \notin DOMAIN g.held[at]
      /\ g' = g /\ root' = root /\ at' = at /\ copy' = copy /\ met' = met
      /\ l \in {"childs", "paths"}
      /\ \/ call[at].loop = "pins" /\ l = "childs"
         \/ call[at].loop = "childs" /\ l = "paths"
      /\ call' = [call EXCEPT ![at] = [loop |-> l, next |-> 1, caller |-> call[at].caller]]
  <2>1. /\ g' = g /\ root' = root /\ at' = at /\ copy' = copy /\ met' = met
        /\ l # "done"
        /\ call' = [call EXCEPT ![at] = [loop |-> l, next |-> 1, caller |-> call[at].caller]]
    BY DEF NextLoop, LoopEnds, vars
  <2>2. call[at].loop = "pins" \/ call[at].loop = "childs"
    BY <1>1, <2>1 DEF Open, After
  <2>3. call[at].next \notin DOMAIN g.held[at]
    BY <2>2 DEF NextLoop, LoopEnds, List
  <2>4. \/ call[at].loop = "pins" /\ l = "childs"
        \/ call[at].loop = "childs" /\ l = "paths"
    BY <2>2 DEF After
  <2> HIDE DEF l
  <2> QED BY <2>1, <2>3, <2>4
<1> HIDE DEF l
<1>3. /\ call' \in [Spore -> Call]
      /\ \A c \in Spore : /\ call'[c].loop = IF c = at THEN l ELSE call[c].loop
                          /\ call'[c].caller = call[c].caller
                          /\ call'[c].next = IF c = at THEN 1 ELSE call[c].next
  <2>1. call \in [Spore -> Call] /\ at \in Spore
    BY <1>1 DEF CloneTypeOK
  <2>2. /\ call' = [call EXCEPT ![at] = [loop |-> l, next |-> 1, caller |-> call[at].caller]]
        /\ l \in {"childs", "paths"}
    BY <1>2
  <2> QED BY ONLY <2>1, <2>2, LoopEffect
<1>4. CloneTypeOK'
  BY <1>1, <1>2, <1>3 DEF CloneTypeOK
<1>5. \A c \in Spore : (Open(c)' <=> Open(c)) /\ (Done(c)' <=> Done(c))
  BY <1>1, <1>2, <1>3 DEF Open, Done
<1>6. ASSUME NEW c \in Spore
      PROVE  Count(c)' = Count(c)
  <2>1. CASE c # at
    BY <2>1, <1>2, <1>3 DEF Count
  <2>2. CASE c = at
    BY <2>2, <1>2, <1>3 DEF Count
  <2> QED BY <2>1, <2>2
<1>7. ASSUME NEW c \in Spore, NEW i \in DOMAIN g.held[c]
      PROVE  Passed(c, i)' <=> Passed(c, i)
  <2>1. CASE c # at
    <3>1. call'[c].loop = call[c].loop /\ call'[c].next = call[c].next
      BY <2>1, <1>3
    <3> QED BY <3>1, <1>2 DEF Passed
  <2>2. CASE c = at
    <3>1. i \in Nat /\ ~(i < 1) /\ i < call[at].next
      BY <2>2, <1>1, <1>2, HeldFacts DEF Call
    <3>2. call'[c].loop = l /\ call'[c].next = 1
      BY <2>2, <1>3
    <3> QED BY <3>1, <3>2, <2>2, <1>2 DEF Passed
  <2> QED BY <2>1, <2>2
<1>8. Calls'
  <2>1. ASSUME NEW c \in Spore, Open(c)'
        PROVE  (c # at' => call'[c].loop = "childs") /\ CalledBy(c)'
    <3>1. (c # at => call[c].loop = "childs") /\ CalledBy(c)
      BY <1>1, <1>5, <2>1 DEF Calls
    <3>2. c # root => call[c].caller \in Spore /\ call[c].caller # at
      BY <3>1 DEF CalledBy
    <3>3. CalledBy(c)'
      BY <1>2, <1>3, <3>1, <3>2, StillCalled
    <3> QED BY <1>2, <1>3, <3>1, <3>3
  <2>2. ASSUME NEW c \in Spore, call'[c].loop = "paths"
        PROVE  call'[c].next <= Len(g'.paths[c]) + 1
    BY <2>2, <1>1, <1>2, <1>3, PathFacts DEF Calls
  <2>3. at' # none /\ Open(at)'
    BY <1>1, <1>2, <1>5
  <2> QED BY <2>1, <2>2, <2>3 DEF Calls
<1>9. AllPlaced' => AllPlaced
  <2>1. \A c \in Spore : call[c].loop \in {"paths", "done"} =>
                           call'[c].loop \in {"paths", "done"}
    BY <1>2, <1>3
  <2> QED BY <2>1, <1>2, AllPlacedBefore
<1>10. Copies' /\ CopiesOrder'
  BY <1>1, <1>2, <1>5, <1>7, CopiesKept
<1>11. AllPlaced' => PathCopies'
  BY <1>1, <1>2, <1>6, <1>9, PathCopiesKept
<1>12. ASSUME NEW c \in Spore, NEW i \in DOMAIN g.held[c], Walked(c, i)'
       PROVE  Walked(c, i)
  <2>1. CASE c # at
    <3>1. call'[c].loop = call[c].loop /\ call'[c].next = call[c].next
      BY <2>1, <1>3
    <3> QED BY <3>1, <1>2, <1>12 DEF Walked
  <2>2. CASE c = at
    <3>1. i \in Nat /\ i < call[at].next
      BY <2>2, <1>1, <1>2, HeldFacts DEF Call
    <3> QED BY <3>1, <2>2, <1>2, <1>12 DEF Walked
  <2> QED BY <2>1, <2>2
<1>13. KeysMet'
  BY <1>1, <1>2, <1>12, KeysKept
<1> QED BY <1>2, <1>4, <1>8, <1>10, <1>11, <1>13 DEF CloneInv

\* The clone of at is complete; the caller adds it, unless at is the root.
LEMMA ReturnStep ==
  ASSUME IInv, CloneInv, root # none, Return
  PROVE  CloneInv'
<1> DEFINE up == call[at].caller
<1>1. /\ CloneTypeOK /\ Calls /\ Copies /\ CopiesOrder /\ KeysMet /\ (AllPlaced => PathCopies)
      /\ at \in Spore /\ at # none /\ call[at] \in Call /\ Open(at) /\ CalledBy(at)
  BY DEF CloneInv, CloneTypeOK, Return, LoopEnds, Calls
<1>2. /\ call[at].loop = "paths" /\ call[at].next \notin DOMAIN g.paths[at]
      /\ g' = g /\ root' = root /\ at' = up /\ met' = met
      /\ IF up = none
           THEN call' = [call EXCEPT ![at].loop = "done"] /\ copy' = copy
           ELSE /\ call' = [call EXCEPT ![at].loop = "done", ![up].next = @ + 1]
                /\ copy' = AddMember(copy, up, at)
  BY <1>1 DEF Return, LoopEnds, List, After, vars, Open
<1>3. call[at].next - 1 = Len(g.paths[at])
  <2>1. Calls /\ at \in Spore /\ call[at] \in Call /\ call[at].loop = "paths"
    BY <1>1, <1>2
  <2>2. call[at].next \in Nat \ {0} /\ call[at].next <= Len(g.paths[at]) + 1
    BY ONLY <2>1 DEF Calls, Call
  <2>3. call[at].next \notin DOMAIN g.paths[at]
    BY <1>2
  <2>4. Len(g.paths[at]) \in Nat /\ DOMAIN g.paths[at] = 1..Len(g.paths[at])
    BY <2>1, PathFacts
  <2>5. call[at].next \notin 1..Len(g.paths[at])
    BY ONLY <2>3, <2>4
  <2> HIDE DEF up
  <2> QED BY ONLY <2>2, <2>4, <2>5
<1>4. call \in [Spore -> Call]
  BY <1>1 DEF CloneTypeOK
<1>5. /\ up = none => at = root
      /\ up # none => /\ up \in Spore /\ up = g.home[at] /\ up # at /\ at # root
                      /\ call[up].loop = "childs"
                      /\ call[up].next \in DOMAIN g.held[up]
                      /\ g.held[up][call[up].next] = at
  BY <1>1, Apart DEF CalledBy
<1>6. /\ call' \in [Spore -> Call]
      /\ \A c \in Spore :
           /\ call'[c].loop = IF c = at THEN "done" ELSE call[c].loop
           /\ call'[c].caller = call[c].caller
           /\ call'[c].next = IF up # none /\ c = up THEN call[c].next + 1
                              ELSE call[c].next
  <2>1. CASE up = none
    <3>1. call' = [call EXCEPT ![at].loop = "done"]
      BY <2>1, <1>2
    <3> QED BY ONLY <3>1, <2>1, <1>1, <1>4, DoneEffect
  <2>2. CASE up # none
    <3>1. call' = [call EXCEPT ![at].loop = "done", ![up].next = @ + 1] /\ up \in Spore
      BY <2>2, <1>2, <1>5
    <3> DEFINE v == [call EXCEPT ![at].loop = "done", ![up].next = @ + 1]
    <3> HIDE DEF up
    <3>2. /\ v \in [Spore -> Call]
          /\ \A c \in Spore :
               /\ v[c].loop = IF c = at THEN "done" ELSE call[c].loop
               /\ v[c].caller = call[c].caller
               /\ v[c].next = IF c = up THEN call[c].next + 1 ELSE call[c].next
      BY ONLY <1>1, <1>4, <3>1, ReturnEffect
    <3>3. call' = v
      BY <3>1
    <3> HIDE DEF v
    <3> QED BY <3>2, <3>3, <2>2
  <2> QED BY <2>1, <2>2
<1> HIDE DEF up
<1>7. \A c \in Spore : /\ Done(c)' <=> (Done(c) \/ c = at)
                       /\ Open(c)' <=> (Open(c) /\ c # at)
  BY <1>6 DEF Done, Open
<1>8. ASSUME NEW c \in Spore
      PROVE  Count(c)' = Count(c)
  <2>1. CASE c # at
    <3>1. call'[c].loop = call[c].loop
          /\ (call[c].loop = "paths" => call'[c].next = call[c].next)
      BY <2>1, <1>5, <1>6
    <3> QED BY <3>1, <1>2 DEF Count
  <2>2. CASE c = at
    <3>1. call'[c].loop = "done"
      BY <2>2, <1>6
    <3> QED BY <3>1, <2>2, <1>2, <1>3 DEF Count
  <2> QED BY <2>1, <2>2
<1>9. AllPlaced' => AllPlaced
  <2>1. \A c \in Spore : call[c].loop \in {"paths", "done"} =>
                           call'[c].loop \in {"paths", "done"}
    BY <1>6
  <2> QED BY <2>1, <1>2, AllPlacedBefore
<1>10. Calls'
  <2>1. ASSUME NEW c \in Spore, Open(c)'
        PROVE  (c # at' => call'[c].loop = "childs") /\ CalledBy(c)'
    <3>1. /\ Open(c) /\ c # at /\ call[c].loop = "childs" /\ CalledBy(c)
      BY <1>1, <1>7, <2>1 DEF Calls
    <3>2. ASSUME c # root
          PROVE  /\ call[c].caller \in Spore /\ call[c].caller # at
                 /\ call[c].caller # up
      <4>1. /\ call[c].caller \in Spore /\ call[c].caller # at
            /\ g.held[call[c].caller][call[call[c].caller].next] = c
        BY <3>1, <3>2 DEF CalledBy
      <4>2. call[c].caller # up
        BY <4>1, <3>1, <1>5, Apart
      <4> QED BY <4>1, <4>2
    <3>3. c # root => /\ call[c].caller # at'
                      /\ call'[call[c].caller].loop = call[call[c].caller].loop
                      /\ call'[call[c].caller].next = call[call[c].caller].next
      BY <3>2, <1>2, <1>6
    <3>4. CalledBy(c)'
      BY <3>1, <3>3, <1>2, <1>6, StillCalled
    <3> QED BY <3>1, <3>4, <1>6
  <2>2. ASSUME NEW c \in Spore, call'[c].loop = "paths"
        PROVE  call'[c].next <= Len(g'.paths[c]) + 1
    <3>1. c # at /\ call[c].loop = "paths" /\ call'[c].next = call[c].next
      BY <2>2, <1>5, <1>6
    <3> QED BY <3>1, <1>1, <1>2 DEF Calls
  <2>3. at' # none => Open(at)'
    <3>1. ASSUME at' # none PROVE Open(at)'
      <4>1. at' = up /\ up \in Spore /\ call'[up].loop = "childs"
        BY <3>1, <1>2, <1>5, <1>6
      <4> QED BY <4>1 DEF Open
    <3> QED BY <3>1
  <2>4. at' = none => Done(root)'
    BY <1>1, <1>2, <1>5, <1>7
  <2> QED BY <1>2, <2>1, <2>2, <2>3, <2>4 DEF Calls
<1>13. ASSUME NEW c \in Spore, NEW i \in DOMAIN g.held[c], Walked(c, i)'
       PROVE  Walked(c, i)
  <2>1. call'[c].loop # call[c].loop => c = at
    BY <1>6
  <2>2. CASE c = at
    BY <2>2, <1>2, <1>13 DEF Walked
  <2>3. CASE c # at /\ call[c].loop = "childs"
    BY <2>3, <1>2, <1>13 DEF Walked
  <2>4. CASE c # at /\ call[c].loop # "childs"
    <3>1. call'[c].loop = call[c].loop /\ call'[c].next = call[c].next
      BY <2>4, <1>5, <1>6
    <3> QED BY <3>1, <1>2, <1>13 DEF Walked
  <2> QED BY <2>2, <2>3, <2>4
<1>14. KeysMet'
  BY <1>1, <1>2, <1>13, KeysKept
<1>11. CASE up = none
  <2>1. copy' = copy
    BY <1>2, <1>11
  <2>2. ASSUME NEW c \in Spore, NEW i \in DOMAIN g.held[c]
        PROVE  Passed(c, i)' <=> Passed(c, i)
    <3>1. CASE c # at
      <4>1. call'[c].loop = call[c].loop /\ call'[c].next = call[c].next
        BY <3>1, <1>6, <1>11
      <4> QED BY <4>1, <1>2 DEF Passed
    <3>2. CASE c = at
      BY <3>2, <1>2, <1>6 DEF Passed
    <3> QED BY <3>1, <3>2
  <2>3. Copies' /\ CopiesOrder'
    <3>1. \A c \in Spore \ {root} : Done(c)' <=> Done(c)
      BY <1>5, <1>7, <1>11
    <3> QED BY <3>1, <2>1, <2>2, <1>1, <1>2, CopiesKept
  <2>4. AllPlaced' => PathCopies'
    BY <2>1, <1>1, <1>2, <1>8, <1>9, PathCopiesKept
  <2>5. CloneTypeOK'
    BY <2>1, <1>1, <1>2, <1>6, <1>11 DEF CloneTypeOK
  <2> QED BY <2>3, <2>4, <2>5, <1>2, <1>10, <1>14 DEF CloneInv
<1>12. CASE up # none
  <2> DEFINE k == call[up].next
  <2>1. /\ up \in Spore /\ g.home[at] = up /\ up # at /\ at # root
        /\ call[up].loop = "childs" /\ k \in DOMAIN g.held[up] /\ g.held[up][k] = at
        /\ copy' = AddMember(copy, up, at) /\ at \notin Pin /\ k \in Nat
        /\ at \notin Typed
    BY <1>1, <1>2, <1>5, <1>12, HeldFacts, NestAssumption, CloneAssumption
  <2>2. ASSUME NEW c \in Spore, NEW i \in DOMAIN g.held[c]
        PROVE  Passed(c, i)' <=> Passed(c, i) \/ (c = up /\ i = k)
    <3>1. CASE c # at /\ c # up
      <4>1. call'[c].loop = call[c].loop /\ call'[c].next = call[c].next
        BY <3>1, <1>6
      <4> QED BY <4>1, <3>1, <1>2 DEF Passed
    <3>2. CASE c = at
      BY <3>2, <2>1, <1>2, <1>6 DEF Passed
    <3>3. CASE c = up
      <4>1. /\ call'[c].loop = "childs" /\ call'[c].next = k + 1
            /\ i \in Nat /\ (i < k + 1 <=> i < k \/ i = k)
        BY <3>3, <2>1, <1>6, <1>12, HeldFacts
      <4> HIDE DEF k
      <4>2. call[c].next = k
        BY <3>3 DEF k
      <4> QED BY <4>1, <4>2, <3>3, <2>1, <1>2 DEF Passed
    <3> QED BY <3>1, <3>2, <3>3
  <2>3. ~Passed(up, k)
    BY <2>1 DEF Passed
  <2>4. \A i \in DOMAIN g.held[up] :
          Passed(up, i) /\ (g.held[up][i] \in Pin <=> at \in Pin) => i < k
    BY <2>1 DEF Passed
  <2>5. copy \in Graph
    BY <1>1 DEF CloneTypeOK
  <2>6. \A c \in Spore : Done(c)' <=> Done(c) \/ c = at
    BY <1>7
  <2> HIDE DEF k
  <2>7. /\ copy' \in Graph /\ Copies' /\ CopiesOrder'
        /\ copy'.paths = copy.paths /\ copy'.ends = copy.ends
        /\ copy'.out = copy.out /\ copy'.in = copy.in
    BY <1>1, <1>2, <2>1, <2>2, <2>3, <2>4, <2>5, <2>6, CopiesAdded
  <2>8. AllPlaced' => PathCopies'
    BY <2>7, <1>1, <1>2, <1>8, <1>9, PathCopiesKept
  <2>9. CloneTypeOK'
    BY <2>1, <2>7, <1>1, <1>2, <1>6 DEF CloneTypeOK
  <2> QED BY <2>7, <2>8, <2>9, <1>2, <1>10, <1>14 DEF CloneInv
<1> QED BY <1>11, <1>12

LEMMA HolderCases ==
  ASSUME NEW gr, NEW f, NEW t, NEW fs, NEW ts, fs = gr.home[f], ts = gr.home[t]
  PROVE  /\ fs = none \/ ts = none => Holder(gr, f, t) = none
         /\ fs # none /\ ts # none /\ gr.home[fs] = gr.home[ts] =>
              Holder(gr, f, t) = IF f \in OutPin /\ t \in InPin THEN gr.home[fs] ELSE none
         /\ fs # none /\ ts # none /\ gr.home[fs] # gr.home[ts] /\ fs = gr.home[ts] =>
              Holder(gr, f, t) = IF f \in InPin /\ t \in InPin THEN fs ELSE none
         /\ fs # none /\ ts # none /\ gr.home[fs] # gr.home[ts] /\ fs # gr.home[ts] =>
              Holder(gr, f, t) = IF gr.home[fs] = ts /\ f \in OutPin /\ t \in OutPin
                                 THEN ts ELSE none
<1>1. CASE fs = none \/ ts = none
  <2>1. gr.home[f] = none \/ gr.home[t] = none
    BY <1>1
  <2>2. Holder(gr, f, t) = none
    BY <2>1 DEF Holder
  <2> QED BY <1>1, <2>2
<1>2. CASE fs # none /\ ts # none /\ gr.home[fs] = gr.home[ts]
  BY <1>2 DEF Holder
<1>3. CASE fs # none /\ ts # none /\ gr.home[fs] # gr.home[ts] /\ fs = gr.home[ts]
  BY <1>3 DEF Holder
<1>4. CASE fs # none /\ ts # none /\ gr.home[fs] # gr.home[ts] /\ fs # gr.home[ts]
  BY <1>4 DEF Holder
<1> QED BY <1>1, <1>2, <1>3, <1>4

\* The holder of a path is known from either of its pins.
LEMMA HolderFacts ==
  ASSUME NEW gr \in Graph, NEW f \in Pin, NEW t \in Pin
  PROVE  /\ Holder(gr, f, t) \in Spore \cup {none}
         /\ Holder(gr, f, t) # none =>
              /\ gr.home[f] \in Spore /\ gr.home[t] \in Spore
              /\ Holder(gr, f, t) = IF f \in OutPin THEN gr.home[gr.home[f]]
                                    ELSE gr.home[f]
              /\ Holder(gr, f, t) = IF t \in InPin THEN gr.home[gr.home[t]]
                                    ELSE gr.home[t]
<1> DEFINE fs == gr.home[f]
           ts == gr.home[t]
           s == Holder(gr, f, t)
<1>1. /\ fs \in Spore \cup {none} /\ ts \in Spore \cup {none}
      /\ fs \in Spore => gr.home[fs] \in Spore \cup {none}
  BY Apart DEF Graph
<1>2. InPin \cap OutPin = {}
  BY NestAssumption
<1>3. CASE fs = none \/ ts = none
  <2>1. s = none
    BY ONLY <1>3, HolderCases
  <2> QED BY <2>1
<1>4. CASE fs # none /\ ts # none /\ gr.home[fs] = gr.home[ts]
  BY <1>1, <1>2, <1>4 DEF Holder
<1>5. CASE fs # none /\ ts # none /\ gr.home[fs] # gr.home[ts] /\ fs = gr.home[ts]
  BY <1>1, <1>2, <1>5 DEF Holder
<1>6. CASE fs # none /\ ts # none /\ gr.home[fs] # gr.home[ts] /\ fs # gr.home[ts]
  BY <1>1, <1>2, <1>6 DEF Holder
<1> QED BY <1>3, <1>4, <1>5, <1>6

LEMMA ConnectEffect ==
  ASSUME NEW gr \in Graph, NEW f \in Pin, NEW t \in Pin, NEW x \in Path
  PROVE  LET n == ConnectCopies(gr, f, t, x)
         IN  n \in Graph /\ n.home = gr.home /\ n.held = gr.held
<1> DEFINE s == Holder(gr, f, t)
<1>1. CASE s = none
  BY <1>1 DEF ConnectCopies
<1>2. CASE s # none /\ \E y \in Range(gr.paths[s]) : Joins(gr, y, f, t)
  BY <1>2 DEF ConnectCopies, AddPath
<1>3. CASE s # none /\ ~ \E y \in Range(gr.paths[s]) : Joins(gr, y, f, t)
  <2>1. s \in Spore
    BY <1>3, HolderFacts
  <2>2. ConnectCopies(gr, f, t, x) = AddPath(gr, s, f, t, x)
    BY <1>3 DEF ConnectCopies
  <2> HIDE DEF s
  <2>3. ~ \E y \in Range(gr.paths[s]) : Joins(gr, y, f, t)
    BY <1>3
  <2> DEFINE n == AddPath(gr, s, f, t, x)
  <2>4. /\ n \in Graph
        /\ n.home = gr.home /\ n.held = gr.held
        /\ n.paths = [gr.paths EXCEPT ![s] = Append(@, x)]
        /\ n.ends = [gr.ends EXCEPT ![x] = [from |-> f, to |-> t, holder |-> s]]
        /\ n.out = [gr.out EXCEPT ![f] = Link(@, x)]
        /\ n.in = [gr.in EXCEPT ![t] = Link(@, x)]
    BY <2>1, <2>3, AddPathEffect
  <2> QED BY <2>2, <2>4
<1> QED BY <1>1, <1>2, <1>3

\* What is at home in a spore whose members were copied has its copy there.
LEMMA CopiedAt ==
  ASSUME IInv, Copies, NEW c \in Spore, call[c].loop \in {"paths", "done"},
         NEW m \in Member \ Typed, g.home[m] = c
  PROVE  copy.home[m] = c /\ m # root
<1>1. PICK i \in DOMAIN g.held[c] : g.held[c][i] = m
  BY HeldFacts
<1>2. Passed(c, i)
  BY <1>1 DEF Passed
<1> QED BY <1>1, <1>2 DEF Copies

LEMMA NotCopied ==
  ASSUME IInv, CloneTypeOK, Copies, NEW s \in Spore, s = root \/ ~Done(s)
  PROVE  copy.home[s] = none
<1>1. s \in Member
  BY Apart
<1>2. CASE s = root
  <2>1. SUFFICES ASSUME copy.home[s] # none PROVE FALSE
    OBVIOUS
  <2>2. copy.home[s] \in Spore
    BY <1>1, <2>1 DEF CloneTypeOK, Graph
  <2>3. s \in Range(copy.held[copy.home[s]])
    BY <1>1, <2>2 DEF Copies
  <2> QED BY <1>2, <2>2, <2>3 DEF Copies
<1>3. CASE s # root
  BY <1>3 DEF Copies
<1> QED BY <1>2, <1>3

\* A pin whose clone is null has no copy.
LEMMA TypedNotCopied ==
  ASSUME IInv, CloneTypeOK, Copies, NEW p \in Typed
  PROVE  copy.home[p] = none
<1>1. p \in Member
  BY CloneAssumption DEF Member
<1>2. SUFFICES ASSUME copy.home[p] # none PROVE FALSE
  OBVIOUS
<1>3. copy.home[p] \in Spore
  BY <1>1, <1>2 DEF CloneTypeOK, Graph
<1>4. p \in Range(copy.held[copy.home[p]])
  BY <1>1, <1>3 DEF Copies
<1>5. PICK i \in DOMAIN g.held[copy.home[p]] :
        g.held[copy.home[p]][i] = p /\ Passed(copy.home[p], i)
  BY <1>3, <1>4 DEF Copies
<1> QED BY <1>5 DEF Passed

\* The pins of a path in its place are keys of pinmap when the path is met.
LEMMA PinsMet ==
  ASSUME IInv, CloneTypeOK, Copies, KeysMet, NEW s \in Spore, call[s].loop = "paths",
         NEW f \in Pin, NEW t \in Pin, Holder(g, f, t) = s
  PROVE  f \in met /\ t \in met
<1>1. /\ s # none /\ g \in Graph
      /\ \A c \in Spore : c \in Member \ Typed /\ c # none
      /\ \A p \in Pin : p \in Member
  BY Apart, NestAssumption, CloneAssumption DEF IInv, TypeOK, Member
<1>2. ASSUME NEW c \in Spore, c = s \/ g.home[c] = s
      PROVE  call[c].loop \in {"paths", "done"}
  <2>1. CASE c = s
    BY <2>1
  <2>2. CASE g.home[c] = s
    <3>1. copy.home[c] = s /\ c # root
      BY <2>2, <1>1, CopiedAt
    <3> QED BY <3>1, <1>1 DEF Copies, Done
  <2> QED BY <1>2, <2>1, <2>2
<1>3. ASSUME NEW p \in Pin, g.home[p] \in Spore,
             g.home[p] = s \/ g.home[g.home[p]] = s
      PROVE  p \in met
  <2>1. PICK c \in Spore : g.home[p] = c
    BY <1>3
  <2>2. call[c].loop \in {"paths", "done"}
    BY <1>2, <1>3, <2>1
  <2>3. PICK i \in DOMAIN g.held[c] : g.held[c][i] = p
    BY <1>1, <2>1, HeldFacts
  <2> QED BY <2>2, <2>3 DEF KeysMet, Walked
<1>4. /\ g.home[f] \in Spore /\ (g.home[f] = s \/ g.home[g.home[f]] = s)
      /\ g.home[t] \in Spore /\ (g.home[t] = s \/ g.home[g.home[t]] = s)
  BY <1>1, HolderFacts
<1> QED BY <1>3, <1>4

\* The copies of two pins are joined where the pins are.
LEMMA HolderCopy ==
  ASSUME IInv, CloneTypeOK, Copies, NEW s \in Spore, call[s].loop = "paths",
         NEW f \in Pin \ Typed, NEW t \in Pin \ Typed, Holder(g, f, t) = s
  PROVE  copy.home[f] # none /\ copy.home[t] # none /\ Holder(copy, f, t) = s
<1> DEFINE fs == g.home[f]
           ts == g.home[t]
<1>1. /\ s # none /\ f \in Member \ Typed /\ t \in Member \ Typed /\ g \in Graph
      /\ \A c \in Spore : c \in Member \ Typed /\ c # none
  BY Apart, NestAssumption, CloneAssumption DEF IInv, TypeOK, Member
<1>2. fs \in Spore /\ ts \in Spore
  BY <1>1, HolderFacts
<1>3. copy.home[s] = none
  BY NotCopied DEF Done
<1>4. \A m \in Member \ Typed : g.home[m] = s => copy.home[m] = s /\ m # root
  BY CopiedAt
<1>5. ASSUME NEW c \in Spore, g.home[c] = s
      PROVE  \A m \in Member \ Typed : g.home[m] = c => copy.home[m] = c
  <2>1. Done(c)
    BY <1>1, <1>4, <1>5 DEF Copies
  <2> QED BY <2>1, CopiedAt DEF Done
<1>6. CASE g.home[fs] = g.home[ts]
  <2>1. g.home[fs] = s /\ g.home[ts] = s /\ f \in OutPin /\ t \in InPin
    <3>1. s = IF f \in OutPin /\ t \in InPin THEN g.home[fs] ELSE none
      BY <1>1, <1>2, <1>6, HolderCases
    <3> QED BY <1>1, <1>6, <3>1
  <2>2. /\ copy.home[fs] = s /\ copy.home[ts] = s
        /\ copy.home[f] = fs /\ copy.home[t] = ts
    BY <1>1, <1>2, <1>4, <1>5, <2>1
  <2>3. Holder(copy, f, t) = s
    <3>1. /\ copy.home[f] # none /\ copy.home[t] # none
          /\ copy.home[copy.home[f]] = s /\ copy.home[copy.home[t]] = s
      BY <1>1, <1>2, <2>2
    <3> QED BY ONLY <3>1, <2>1, HolderCases
  <2> QED BY <1>1, <1>2, <2>2, <2>3
<1>7. CASE g.home[fs] # g.home[ts] /\ fs = g.home[ts]
  <2>1. fs = s /\ g.home[ts] = s /\ f \in InPin /\ t \in InPin
    BY <1>1, <1>2, <1>7 DEF Holder
  <2>2. copy.home[ts] = s /\ copy.home[f] = s /\ copy.home[t] = ts
    BY <1>1, <1>2, <1>4, <1>5, <2>1
  <2> HIDE DEF fs, ts
  <2> QED BY <1>1, <1>2, <1>3, <2>1, <2>2 DEF Holder
<1>8. CASE g.home[fs] # g.home[ts] /\ fs # g.home[ts]
  <2>1. ts = s /\ g.home[fs] = s /\ f \in OutPin /\ t \in OutPin
    BY <1>1, <1>2, <1>8 DEF Holder
  <2>2. copy.home[fs] = s /\ copy.home[t] = s /\ copy.home[f] = fs
    BY <1>1, <1>2, <1>4, <1>5, <2>1
  <2> HIDE DEF fs, ts
  <2> QED BY <1>1, <1>2, <1>3, <2>1, <2>2 DEF Holder
<1> QED BY <1>6, <1>7, <1>8

\* A path that was tried is one of a list that is passed or under way.
LEMMA TriedFacts ==
  ASSUME IInv, CloneTypeOK, Calls, AllPlaced, NEW z \in Tried
  PROVE  \E c \in Spore, j \in Nat :
           /\ j \in 1..Count(c) /\ g.paths[c][j] = z /\ j \in DOMAIN g.paths[c]
           /\ call[c].loop \in {"paths", "done"}
           /\ Placed(z) /\ g.ends[z] \in End /\ g.ends[z].holder = c
<1>1. PICK c \in Spore : \E j \in 1..Count(c) : g.paths[c][j] = z
  BY DEF Tried
<1>2. PICK j \in 1..Count(c) : g.paths[c][j] = z
  BY <1>1
<1>3. call[c].loop \in {"paths", "done"} /\ j \in DOMAIN g.paths[c]
  <2>1. Len(g.paths[c]) \in Nat /\ DOMAIN g.paths[c] = 1..Len(g.paths[c])
    BY PathFacts
  <2>2. CASE call[c].loop = "done"
    BY <2>1, <2>2, <1>2 DEF Count
  <2>3. CASE call[c].loop = "paths"
    <3>1. call[c].next \in Nat /\ call[c].next <= Len(g.paths[c]) + 1
      BY <2>3 DEF Calls, CloneTypeOK, Call
    <3> QED BY <2>1, <2>3, <3>1, <1>2 DEF Count
  <2>4. CASE call[c].loop \notin {"paths", "done"}
    BY <2>4, <1>2 DEF Count
  <2> QED BY <2>2, <2>3, <2>4
<1>4. z \in Range(g.paths[c]) /\ z \in Path
  BY <1>2, <1>3 DEF Tried, Range
<1>5. Placed(z)
  BY <1>3, <1>4 DEF AllPlaced
<1>6. g.ends[z] # none /\ g.ends[z].holder = c
  BY <1>4, Apart DEF IInv, PathInv, ListsOwn
<1>7. g.ends[z] \in End
  BY <1>4, <1>6 DEF IInv, TypeOK, Graph
<1> QED BY <1>2, <1>3, <1>5, <1>6, <1>7

\* The path that is met next, in its place.
LEMMA NextPlaced ==
  ASSUME IInv, CloneTypeOK, AllPlaced, NEW s \in Spore, call[s].loop = "paths",
         NEW k \in DOMAIN g.paths[s], call[s].next = k,
         NEW x \in Path, g.paths[s][k] = x
  PROVE  /\ Len(g.paths[s]) \in Nat /\ DOMAIN g.paths[s] = 1..Len(g.paths[s])
         /\ k \in Nat \ {0} /\ Count(s) = k - 1
         /\ g.ends[x] \in End /\ g.ends[x].holder = s
         /\ Holder(g, g.ends[x].from, g.ends[x].to) = s
         /\ x \in Range(g.out[g.ends[x].from]) /\ x \in Range(g.in[g.ends[x].to])
<1>1. k \in Nat \ {0}
  BY DEF CloneTypeOK, Call
<1>2. Count(s) = k - 1
  BY <1>1 DEF Count
<1>3. x \in Range(g.paths[s]) /\ x # none
  BY Apart DEF Range
<1>4. Placed(x)
  BY <1>3 DEF AllPlaced
<1>5. g.ends[x] # none /\ g.ends[x].holder = s
  BY <1>3 DEF IInv, PathInv, ListsOwn
<1>6. g.ends[x] \in End
  BY <1>5 DEF IInv, TypeOK, Graph
<1> QED BY <1>1, <1>2, <1>4, <1>5, <1>6, PathFacts DEF Placed

LEMMA TriedNext ==
  ASSUME g' = g, NEW s \in Spore, NEW k \in Nat \ {0}, Count(s) = k - 1,
         NEW x \in Path, g.paths[s][k] = x,
         \A c \in Spore : Count(c)' = IF c = s THEN k ELSE Count(c)
  PROVE  Tried' = Tried \cup {x}
<1>1. ASSUME NEW y \in Path, NEW c \in Spore, NEW j \in 1..Count(c)', g.paths[c][j] = y
      PROVE  y \in Tried \cup {x}
  <2>1. CASE j \in 1..Count(c)
    BY <1>1, <2>1 DEF Tried
  <2>2. CASE j \notin 1..Count(c)
    BY <1>1, <2>2
  <2> QED BY <2>1, <2>2
<1>2. ASSUME NEW y \in Tried PROVE y \in Tried'
  <2>1. PICK c \in Spore : \E j \in 1..Count(c) : g.paths[c][j] = y
    BY <1>2 DEF Tried
  <2>2. PICK j \in 1..Count(c) : g.paths[c][j] = y
    BY <2>1
  <2>3. j \in 1..Count(c)'
    BY <2>2
  <2> QED BY <2>2, <2>3, <1>2 DEF Tried
<1>3. x \in Tried'
  <2>1. k \in 1..Count(s)'
    OBVIOUS
  <2> QED BY <2>1 DEF Tried
<1> QED BY <1>1, <1>2, <1>3 DEF Tried

\* A path that ends at a pin without a copy is left out.
LEMMA PathDropped ==
  ASSUME PathCopies, g' = g, copy' = copy, NEW x, g.ends[x].from \notin Typed,
         g.ends[x].to \in Typed, Tried' = Tried \cup {x}
  PROVE  PathCopies'
<1>1. Anew' = Anew
  BY DEF Anew
<1> QED BY <1>1 DEF PathCopies

\* A path that is placed where its holder is copied is connected anew, behind
\* the others of the list and, on the pins, in front of them.
LEMMA PathConnected ==
  ASSUME IInv, CloneTypeOK, Calls, Copies, AllPlaced, PathCopies,
         g' = g, NEW s \in Spore, call[s].loop = "paths",
         NEW k \in DOMAIN g.paths[s], call[s].next = k,
         NEW x \in Path, g.paths[s][k] = x,
         NEW f \in Pin, NEW t \in Pin, f \notin Typed, t \notin Typed,
         g.ends[x].from = f, g.ends[x].to = t,
         copy' = ConnectCopies(copy, f, t, x),
         Tried' = Tried \cup {x}
  PROVE  PathCopies'
<1>1. /\ Len(g.paths[s]) \in Nat /\ DOMAIN g.paths[s] = 1..Len(g.paths[s])
      /\ k \in Nat \ {0} /\ Count(s) = k - 1
      /\ copy \in Graph /\ none \notin Path /\ x # none
  BY NextPlaced, Apart DEF CloneTypeOK
<1>3. g.ends[x] \in End /\ g.ends[x].holder = s
  BY NextPlaced
<1>4. Holder(g, f, t) = s /\ x \in Range(g.out[f]) /\ x \in Range(g.in[t])
  BY NextPlaced
<1>5. Holder(copy, f, t) = s
  BY <1>4, HolderCopy
<1>6. \A i \in DOMAIN g.paths[s] : i # k /\ g.paths[s][i] # none =>
        ~Joins(g, g.paths[s][i], f, t)
  BY <1>1 DEF IInv, PathInv, NoTwins
\* What was tried of the list of s is in front of x.
<1>8. ASSUME NEW z \in Tried, g.ends[z].holder = s
      PROVE  /\ Before(g.paths[s], z, x) /\ ~Joins(g, z, f, t)
             /\ Placed(z)
  <2>1. PICK c \in Spore, j \in Nat :
          /\ j \in 1..Count(c) /\ g.paths[c][j] = z /\ j \in DOMAIN g.paths[c]
          /\ Placed(z) /\ g.ends[z].holder = c
    BY TriedFacts
  <2>2. c = s /\ j < k /\ z # none
    BY <1>1, <1>8, <2>1 DEF Placed
  <2>3. Before(g.paths[s], z, x)
    BY <2>1, <2>2 DEF Before
  <2>4. ~Joins(g, z, f, t)
    BY <1>1, <1>6, <2>1, <2>2
  <2> QED BY <2>1, <2>3, <2>4
<1>7. x \notin Tried
  BY <1>1, <1>3, <1>8 DEF Joins
<1>9. ~ \E y \in Range(copy.paths[s]) : Joins(copy, y, f, t)
  <2> SUFFICES ASSUME NEW y \in Range(copy.paths[s]), Joins(copy, y, f, t)
               PROVE  FALSE
    OBVIOUS
  <2>1. y \in Anew /\ g.ends[y].holder = s /\ copy.ends[y] = g.ends[y]
    BY DEF PathCopies
  <2>2. ~Joins(g, y, f, t)
    BY <1>8, <2>1 DEF Anew
  <2> QED BY <2>1, <2>2 DEF Joins
<1>10. copy' = AddPath(copy, s, f, t, x)
  BY <1>1, <1>5, Apart DEF ConnectCopies
<1> DEFINE n == AddPath(copy, s, f, t, x)
<1>11. /\ n \in Graph
       /\ n.home = copy.home /\ n.held = copy.held
       /\ n.paths = [copy.paths EXCEPT ![s] = Append(@, x)]
       /\ n.ends = [copy.ends EXCEPT ![x] = [from |-> f, to |-> t, holder |-> s]]
       /\ n.out = [copy.out EXCEPT ![f] = Link(@, x)]
       /\ n.in = [copy.in EXCEPT ![t] = Link(@, x)]
  <2>1. copy \in Graph
    BY <1>1
  <2> QED BY ONLY <2>1, s \in Spore, f \in Pin, t \in Pin, x \in Path, <1>9, AddPathEffect
<1>12. copy' = n
  BY <1>10
<1> HIDE DEF n
<1>15. Anew' = Anew \cup {x}
  BY DEF Anew
<1>14. ASSUME NEW c \in Spore
       PROVE  /\ Range(copy'.paths[c]) = {y \in Anew' : g.ends[y].holder = c}
              /\ \A y, z : Before(copy'.paths[c], y, z) => Before(g.paths[c], y, z)
  <2>1. /\ Range(copy.paths[c]) = {y \in Anew : g.ends[y].holder = c}
        /\ \A y, z : Before(copy.paths[c], y, z) => Before(g.paths[c], y, z)
    BY DEF PathCopies
  <2>2. CASE c # s
    <3>1. copy'.paths[c] = copy.paths[c]
      BY <2>2, <1>1, <1>11, <1>12 DEF Graph
    <3> QED BY <3>1, <2>1, <2>2, <1>3, <1>15
  <2>3. CASE c = s
    <3>1. copy'.paths[c] = Append(copy.paths[c], x)
      BY <2>3, <1>1, <1>11, <1>12 DEF Graph
    <3>2. /\ Range(Append(copy.paths[c], x)) = Range(copy.paths[c]) \cup {x}
          /\ \A y, z : Before(Append(copy.paths[c], x), y, z) =>
                         Before(copy.paths[c], y, z) \/ (y \in Range(copy.paths[c]) /\ z = x)
      <4>1. copy.paths[c] \in Seq(Path \cup {none}) /\ x \in Path \cup {none}
        BY <1>1 DEF Graph
      <4> QED BY ONLY <4>1, AppendList, AppendBefore
    <3>3. \A y \in Range(copy.paths[c]) : Before(g.paths[c], y, x)
      BY <1>8, <2>1, <2>3 DEF Anew
    <3> QED BY <3>1, <3>2, <3>3, <2>1, <2>3, <1>3, <1>15
  <2> QED BY <2>2, <2>3
<1>16. \A y \in Anew' : copy'.ends[y] = g.ends[y]
  <2>1. copy'.ends[x] = g.ends[x]
    BY <1>1, <1>3, <1>11, <1>12 DEF Graph, End
  <2>2. \A y \in Anew : copy'.ends[y] = g.ends[y]
    <3> SUFFICES ASSUME NEW y \in Anew PROVE copy'.ends[y] = g.ends[y]
      OBVIOUS
    <3>1. copy.ends[y] = g.ends[y] /\ y \in Path /\ y # x
      BY <1>7 DEF PathCopies, Anew, Tried
    <3> QED BY <3>1, <1>1, <1>11, <1>12 DEF Graph
  <2> QED BY <1>15, <2>1, <2>2
\* A path on either pin that was connected anew is of the same list.
<1>17. ASSUME NEW z \in Anew, g.ends[z].from = f \/ g.ends[z].to = t
       PROVE  Before(g.paths[s], z, x) /\ Placed(z)
  <2>1. z \in Tried
    BY DEF Anew
  <2>2. PICK c \in Spore, j \in Nat :
          Placed(z) /\ g.ends[z] \in End /\ g.ends[z].holder = c
    BY <2>1, TriedFacts
  <2>3. g.ends[z].from \in Pin /\ g.ends[z].to \in Pin /\ g \in Graph /\ c # none
    BY <2>2, Apart DEF End, IInv, TypeOK
  <2>4. Holder(g, g.ends[z].from, g.ends[z].to) = c
    BY <2>2 DEF Placed
  <2>5. c = s
    BY <1>4, <1>17, <2>3, <2>4, HolderFacts, Apart
  <2> QED BY <1>8, <2>1, <2>2, <2>5
<1>18. /\ Ordered(g.paths[s], g.out[f]) /\ Ordered(g.paths[s], g.in[t])
       /\ \A p \in Pin : copy.out[p] \in Seq(Path) /\ copy.in[p] \in Seq(Path)
  BY <1>1 DEF IInv, PathInv, ListsOrdered, Graph
<1>19. ASSUME NEW p \in Pin
       PROVE  /\ Range(copy'.out[p]) = {y \in Anew' : g.ends[y].from = p}
              /\ \A y, z : Before(copy'.out[p], y, z) => Before(g.out[p], y, z)
  <2>1. /\ Range(copy.out[p]) = {y \in Anew : g.ends[y].from = p}
        /\ \A y, z : Before(copy.out[p], y, z) => Before(g.out[p], y, z)
    BY DEF PathCopies
  <2>2. CASE p # f
    <3>1. copy'.out[p] = copy.out[p]
      BY <2>2, <1>1, <1>11, <1>12 DEF Graph
    <3> QED BY <3>1, <2>1, <2>2, <1>15
  <2>3. CASE p = f
    <3>1. copy'.out[p] = Link(copy.out[p], x)
      BY <2>3, <1>1, <1>11, <1>12 DEF Graph
    <3>2. /\ Range(Link(copy.out[p], x)) = Range(copy.out[p]) \cup {x}
          /\ \A y, z : Before(Link(copy.out[p], x), y, z) =>
                         Before(copy.out[p], y, z) \/ (y = x /\ z \in Range(copy.out[p]))
      <4>1. copy.out[p] \in Seq(Path)
        BY <1>18
      <4> QED BY ONLY <4>1, x \in Path, LinkList
    <3>3. \A z \in Range(copy.out[p]) : Before(g.out[p], x, z)
      <4> SUFFICES ASSUME NEW z \in Range(copy.out[p]) PROVE Before(g.out[p], x, z)
        OBVIOUS
      <4>1. z \in Anew /\ g.ends[z].from = f
        BY <2>1, <2>3
      <4>2. Before(g.paths[s], z, x) /\ z \in Range(g.out[f])
        BY <4>1, <1>17 DEF Placed
      <4> QED BY <4>2, <1>4, <1>18, <2>3 DEF Ordered
    <3> QED BY <3>1, <3>2, <3>3, <2>1, <2>3, <1>15
  <2> QED BY <2>2, <2>3
<1>20. ASSUME NEW p \in Pin
       PROVE  /\ Range(copy'.in[p]) = {y \in Anew' : g.ends[y].to = p}
              /\ \A y, z : Before(copy'.in[p], y, z) => Before(g.in[p], y, z)
  <2>1. /\ Range(copy.in[p]) = {y \in Anew : g.ends[y].to = p}
        /\ \A y, z : Before(copy.in[p], y, z) => Before(g.in[p], y, z)
    BY DEF PathCopies
  <2>2. CASE p # t
    <3>1. copy'.in[p] = copy.in[p]
      BY <2>2, <1>1, <1>11, <1>12 DEF Graph
    <3> QED BY <3>1, <2>1, <2>2, <1>15
  <2>3. CASE p = t
    <3>1. copy'.in[p] = Link(copy.in[p], x)
      BY <2>3, <1>1, <1>11, <1>12 DEF Graph
    <3>2. /\ Range(Link(copy.in[p], x)) = Range(copy.in[p]) \cup {x}
          /\ \A y, z : Before(Link(copy.in[p], x), y, z) =>
                         Before(copy.in[p], y, z) \/ (y = x /\ z \in Range(copy.in[p]))
      <4>1. copy.in[p] \in Seq(Path)
        BY <1>18
      <4> QED BY ONLY <4>1, x \in Path, LinkList
    <3>3. \A z \in Range(copy.in[p]) : Before(g.in[p], x, z)
      <4> SUFFICES ASSUME NEW z \in Range(copy.in[p]) PROVE Before(g.in[p], x, z)
        OBVIOUS
      <4>1. z \in Anew /\ g.ends[z].to = t
        BY <2>1, <2>3
      <4>2. Before(g.paths[s], z, x) /\ z \in Range(g.in[t])
        BY <4>1, <1>17 DEF Placed
      <4> QED BY <4>2, <1>4, <1>18, <2>3 DEF Ordered
    <3> QED BY <3>1, <3>2, <3>3, <2>1, <2>3, <1>15
  <2> QED BY <2>2, <2>3
<1>21. /\ \A c \in Spore :
            /\ Range(copy'.paths[c]) = {y \in Anew' : g'.ends[y].holder = c}
            /\ \A y, z : Before(copy'.paths[c], y, z) => Before(g'.paths[c], y, z)
       /\ \A y \in Tried' : g'.ends[y].from \notin Typed
  BY <1>14 DEF PathCopies
<1>22. \A y \in Anew' : copy'.ends[y] = g'.ends[y]
  BY <1>16
<1>23. \A p \in Pin :
         /\ Range(copy'.out[p]) = {y \in Anew' : g'.ends[y].from = p}
         /\ Range(copy'.in[p]) = {y \in Anew' : g'.ends[y].to = p}
         /\ \A y, z : Before(copy'.out[p], y, z) => Before(g'.out[p], y, z)
         /\ \A y, z : Before(copy'.in[p], y, z) => Before(g'.in[p], y, z)
  BY <1>19, <1>20
<1> QED BY <1>21, <1>22, <1>23 DEF PathCopies

LEMMA ClonePathStep ==
  ASSUME IInv, CloneInv, root # none, ClonePath
  PROVE  CloneInv'
<1> DEFINE k == call[at].next
           x == g.paths[at][k]
           f == g.ends[x].from
           t == g.ends[x].to
<1>1. /\ at \in Spore /\ at # none /\ call[at].loop = "paths" /\ k \in DOMAIN g.paths[at]
      /\ x # none /\ (f \in met /\ t \in met => copy.home[f] # none)
      /\ g' = g /\ root' = root /\ at' = at /\ met' = met /\ call' = Advance(at)
      /\ copy' = IF f \in met /\ t \in met /\ copy.home[t] # none
                   THEN ConnectCopies(copy, f, t, x) ELSE copy
  <2>1. at \in Spore /\ at # none /\ call[at].loop = "paths" /\ Item = x
    BY DEF ClonePath, InLoop, Item, List, CloneInv, CloneTypeOK
  <2> HIDE DEF f, t, x, k
  <2>2. f = g.ends[Item].from /\ t = g.ends[Item].to
    BY <2>1 DEF f, t
  <2>3. k \in DOMAIN g.paths[at]
    BY <2>1 DEF ClonePath, InLoop, List, k
  <2> QED BY <2>1, <2>2, <2>3 DEF ClonePath, InLoop, Crashes, BothMet, vars
<1>2. CloneTypeOK /\ Calls /\ Copies /\ CopiesOrder /\ KeysMet /\ (AllPlaced => PathCopies)
  BY DEF CloneInv
<1>3. /\ call' \in [Spore -> Call] /\ call[at] \in Call
      /\ \A c \in Spore : /\ call'[c].loop = call[c].loop
                          /\ call'[c].next = IF c = at THEN call[c].next + 1
                                             ELSE call[c].next
  BY <1>1, <1>2, AdvanceEffect DEF CloneTypeOK
<1>4. Calls' /\ (copy' \in Graph => CloneTypeOK')
  <2>1. met' \subseteq Pin
    BY <1>1, <1>2 DEF CloneTypeOK
  <2> QED BY <2>1, <1>1, <1>2, CallsAdvance
<1>5. /\ x \in Path /\ f \in Pin /\ t \in Pin /\ k \in Nat
  <2>1. x \in Path /\ x \in Range(g.paths[at]) /\ k \in Nat
    <3>1. /\ Len(g.paths[at]) \in Nat /\ DOMAIN g.paths[at] = 1..Len(g.paths[at])
          /\ \A i \in DOMAIN g.paths[at] : g.paths[at][i] \in Path \cup {none}
      BY <1>1, PathFacts
    <3> HIDE DEF k
    <3> QED BY <1>1, <3>1 DEF Range
  <2>2. g.ends[x] # none
    BY <1>1, <2>1 DEF IInv, PathInv, ListsOwn
  <2>3. g.ends[x] \in End
    BY <2>1, <2>2 DEF IInv, TypeOK, Graph
  <2> QED BY <2>1, <2>3 DEF End
<1>6. copy' \in Graph /\ copy'.home = copy.home /\ copy'.held = copy.held
  <2> HIDE DEF f, t, x
  <2>1. copy \in Graph
    BY <1>2 DEF CloneTypeOK
  <2>2. CASE f \in met /\ t \in met /\ copy.home[t] # none
    <3> DEFINE n == ConnectCopies(copy, f, t, x)
    <3>1. n \in Graph /\ n.home = copy.home /\ n.held = copy.held
      BY ONLY <1>5, <2>1, ConnectEffect
    <3>2. copy' = n
      BY <1>1, <2>2
    <3> HIDE DEF n
    <3> QED BY <3>1, <3>2
  <2>3. CASE ~(f \in met /\ t \in met /\ copy.home[t] # none)
    BY <1>1, <2>1, <2>3
  <2> QED BY <2>2, <2>3
<1>7. Copies' /\ CopiesOrder'
  <2>1. ASSUME NEW c \in Spore, NEW i \in DOMAIN g.held[c]
        PROVE  Passed(c, i)' <=> Passed(c, i)
    <3>1. CASE c # at
      <4>1. call'[c].loop = call[c].loop /\ call'[c].next = call[c].next
        BY <3>1, <1>3
      <4> QED BY <4>1, <1>1 DEF Passed
    <3>2. CASE c = at
      BY <3>2, <1>1, <1>3 DEF Passed
    <3> QED BY <3>1, <3>2
  <2>2. \A c \in Spore : Done(c)' <=> Done(c)
    BY <1>3 DEF Done
  <2> QED BY <2>1, <2>2, <1>1, <1>2, <1>6, CopiesKept
<1>8. ASSUME AllPlaced' PROVE PathCopies'
  <2>1. AllPlaced
    BY <1>1, <1>3, <1>8, AllPlacedBefore
  <2>2. ASSUME NEW c \in Spore
        PROVE  Count(c)' = IF c = at THEN k ELSE Count(c)
    <3>1. CASE c # at
      <4>1. call'[c].loop = call[c].loop /\ call'[c].next = call[c].next
        BY <3>1, <1>3
      <4> QED BY <4>1, <3>1, <1>1 DEF Count
    <3>2. CASE c = at
      <4>1. call'[c].loop = "paths" /\ call'[c].next = k + 1
        BY <3>2, <1>1, <1>3
      <4> HIDE DEF k
      <4> QED BY <4>1, <3>2, <1>5 DEF Count
    <3> QED BY <3>1, <3>2
  <2>3. IInv /\ CloneTypeOK /\ Calls /\ Copies /\ KeysMet /\ PathCopies
    BY <1>2, <2>1
  <2>4. /\ call[at].next = k /\ g.paths[at][k] = x
        /\ g.ends[x].from = f /\ g.ends[x].to = t
    OBVIOUS
  <2> HIDE DEF f, t, x, k
  <2>5. k \in Nat \ {0} /\ Count(at) = k - 1 /\ Holder(g, f, t) = at
    BY ONLY <1>1, <1>5, <2>1, <2>3, <2>4, NextPlaced
  <2>6. Tried' = Tried \cup {x}
    BY ONLY <1>1, <1>5, <2>2, <2>4, <2>5, TriedNext
  <2>7. f \in met /\ t \in met
    BY ONLY <1>1, <1>5, <2>3, <2>5, PinsMet
  <2>8. f \notin Typed
    BY <1>1, <2>3, <2>7, TypedNotCopied
  <2>9. CASE t \in Typed
    <3>1. copy' = copy
      BY <1>1, <2>3, <2>9, TypedNotCopied
    <3> QED BY ONLY <1>1, <2>3, <2>4, <2>6, <2>8, <2>9, <3>1, PathDropped
  <2>10. CASE t \notin Typed
    <3>1. copy.home[t] # none
      BY ONLY <1>1, <1>5, <2>3, <2>5, <2>8, <2>10, HolderCopy
    <3>2. copy' = ConnectCopies(copy, f, t, x)
      BY <1>1, <2>7, <3>1
    <3> QED BY ONLY <1>1, <1>5, <2>1, <2>3, <2>4, <2>6, <2>8, <2>10, <3>2, PathConnected
  <2> QED BY <2>9, <2>10
<1>9. KeysMet'
  <2>1. \A c \in Spore : \A i \in DOMAIN g.held[c] : Walked(c, i)' => Walked(c, i)
    BY <1>1, <1>3 DEF Walked
  <2> QED BY <2>1, <1>1, <1>2, KeysKept
<1> QED BY <1>1, <1>4, <1>6, <1>7, <1>8, <1>9 DEF CloneInv

LEMMA CloneInitInv == CloneInit => CloneInv
<1> SUFFICES ASSUME CloneInit PROVE CloneInv
  OBVIOUS
<1>1. /\ copy = Blank /\ met = {} /\ at = none /\ root = none
      /\ call = [s \in Spore |-> [loop |-> "before", next |-> 1, caller |-> none]]
  BY DEF CloneInit
<1>2. Blank \in Graph
  BY DEF Blank, Graph
<1>3. call \in [Spore -> Call] /\ \A c \in Spore : call[c].loop = "before"
  BY <1>1 DEF Call
<1> QED BY <1>1, <1>2, <1>3 DEF CloneInv, CloneTypeOK, Fresh

LEMMA CloneNextInv ==
  ASSUME IInv, CloneInv, [CloneNext]_<<vars, cloneVars>>
  PROVE  CloneInv'
<1>1. root = none => Fresh
  BY DEF CloneInv
<1>2. CASE root = none /\ UNCHANGED cloneVars
  <2>1. copy' = copy /\ met' = met /\ call' = call /\ at' = at /\ root' = none
    BY <1>2 DEF cloneVars
  <2> QED BY <1>1, <1>2, <2>1 DEF CloneInv, CloneTypeOK, Fresh
<1>3. CASE root # none /\ UNCHANGED <<vars, cloneVars>>
  <2>1. /\ g' = g /\ copy' = copy /\ met' = met
        /\ call' = call /\ at' = at /\ root' = root
    BY <1>3 DEF vars, cloneVars
  <2>2. CloneTypeOK /\ Calls /\ Copies /\ CopiesOrder /\ KeysMet /\ (AllPlaced => PathCopies)
    BY <1>3 DEF CloneInv
  <2>3. \A c \in Spore : \A i \in DOMAIN g.held[c] : Passed(c, i)' <=> Passed(c, i)
    BY <2>1 DEF Passed
  <2>4. \A c \in Spore : /\ (Done(c)' <=> Done(c)) /\ (Open(c)' <=> Open(c))
                         /\ (CalledBy(c)' <=> CalledBy(c))
                         /\ Count(c)' = Count(c)
    BY <2>1 DEF Done, Open, CalledBy, Count
  <2>5. Calls'
    <3>1. (at' # none => Open(at)') /\ (root' # none /\ at' = none => Done(root)')
      BY <2>1, <2>2 DEF Calls, Open, Done
    <3>2. \A c \in Spore : Open(c)' => (c # at' => call'[c].loop = "childs") /\ CalledBy(c)'
      BY <2>1, <2>2, <2>4 DEF Calls
    <3>3. \A c \in Spore : call'[c].loop = "paths" => call'[c].next <= Len(g'.paths[c]) + 1
      BY <2>1, <2>2 DEF Calls
    <3> QED BY <3>1, <3>2, <3>3 DEF Calls
  <2>6. Copies' /\ CopiesOrder'
    BY <2>1, <2>2, <2>3, <2>4, CopiesKept
  <2>7. AllPlaced' => PathCopies'
    BY <2>1, <2>2, <2>4, AllPlacedBefore, PathCopiesKept
  <2>8. \A c \in Spore : \A i \in DOMAIN g.held[c] : Walked(c, i)' => Walked(c, i)
    BY <2>1 DEF Walked
  <2>9. KeysMet'
    BY <2>1, <2>2, <2>8, KeysKept
  <2> QED BY <2>1, <2>2, <2>5, <2>6, <2>7, <2>9, <1>3 DEF CloneInv, CloneTypeOK
<1>4. ASSUME NEW s \in Spore, Clone(s) PROVE CloneInv'
  BY <1>1, <1>4, BeginClone DEF CloneInv, Clone
<1>5. at # none => root # none
  BY <1>1 DEF Fresh
<1>6. CASE ClonePin
  BY <1>5, <1>6, ClonePinStep DEF ClonePin, InLoop
<1>7. CASE CloneChild
  BY <1>5, <1>7, CloneChildStep DEF CloneChild, InLoop
<1>8. CASE ClonePath
  BY <1>5, <1>8, ClonePathStep DEF ClonePath, InLoop
<1>9. CASE NextLoop
  BY <1>5, <1>9, NextLoopStep DEF NextLoop, LoopEnds
<1>10. CASE Return
  BY <1>5, <1>10, ReturnStep DEF Return, LoopEnds
<1>11. CASE root = none /\ Next /\ UNCHANGED cloneVars
  BY <1>2, <1>11
<1>12. CASE UNCHANGED <<vars, cloneVars>>
  BY <1>2, <1>3, <1>12
<1> QED BY <1>4, <1>6, <1>7, <1>8, <1>9, <1>10, <1>11, <1>12 DEF CloneNext

\* Two lists without repetition agree if one of them has the order of the other.
LEMMA OrderAgrees ==
  ASSUME NEW T, NEW q \in Seq(T), NEW r \in Seq(T), NEW S, IsInjective(q),
         Range(q) \cap S = Range(r) \cap S,
         \A x, y \in Range(q) \cap S : Before(r, x, y) => Before(q, x, y)
  PROVE  Agree(q, r, S) /\ Agree(r, q, S)
<1>1. /\ Len(q) \in Nat /\ DOMAIN q = 1..Len(q)
      /\ Len(r) \in Nat /\ DOMAIN r = 1..Len(r)
  BY LenProperties
<1>2. ASSUME NEW x, NEW y, Before(q, x, y), Before(q, y, x)
      PROVE  FALSE
  <2>1. PICK i \in DOMAIN q, j \in DOMAIN q : i < j /\ q[i] = x /\ q[j] = y
    BY <1>2 DEF Before
  <2>2. PICK k \in DOMAIN q, l \in DOMAIN q : k < l /\ q[k] = y /\ q[l] = x
    BY <1>2 DEF Before
  <2>3. i = l /\ j = k
    BY <2>1, <2>2 DEF IsInjective
  <2> QED BY <1>1, <2>1, <2>2, <2>3
<1>3. ASSUME NEW x \in Range(r), NEW y \in Range(r), x # y
      PROVE  Before(r, x, y) \/ Before(r, y, x)
  <2>1. PICK i \in DOMAIN r : r[i] = x
    BY DEF Range
  <2>2. PICK j \in DOMAIN r : r[j] = y
    BY DEF Range
  <2>3. i < j \/ j < i
    BY <1>1, <1>3, <2>1, <2>2
  <2> QED BY <2>1, <2>2, <2>3 DEF Before
<1>4. \A x, y \in Range(q) \cap S : Before(q, x, y) => Before(r, x, y)
  BY <1>2, <1>3
<1> QED BY <1>4 DEF Agree

LEMMA CloneMirrored == IInv /\ CloneInv => CloneMirrors
<1> SUFFICES ASSUME IInv, CloneInv, root # none, at = none
             PROVE  /\ copy.home[root] = none /\ Copied \cap Typed = {}
                    /\ \A m \in Copied \ {root} : copy.home[m] = g.home[m]
                    /\ \A c \in Copied \cap Spore, S \in {Pin \ Typed, Spore} :
                         Agree(g.held[c], copy.held[c], S)
                    /\ InPlace =>
                         /\ \A x \in Held : g.ends[x].from \notin Typed
                         /\ \A c \in Copied \cap Spore :
                              /\ Agree(g.paths[c], copy.paths[c], Kept)
                              /\ Range(copy.paths[c]) \subseteq Kept
                         /\ \A x \in Kept : copy.ends[x] = g.ends[x]
                         /\ \A p \in Pin :
                              /\ Agree(g.out[p], copy.out[p], Kept)
                              /\ Agree(g.in[p], copy.in[p], Kept)
                              /\ Range(copy.out[p]) \cup Range(copy.in[p]) \subseteq Kept
  BY DEF CloneMirrors
<1>1. /\ CloneTypeOK /\ Calls /\ Copies /\ CopiesOrder /\ KeysMet /\ (AllPlaced => PathCopies)
      /\ g \in Graph /\ copy \in Graph /\ root \in Spore /\ Done(root)
      /\ \A c \in Spore : c \in Member /\ c # none
  BY Apart DEF CloneInv, CloneTypeOK, Calls, IInv, TypeOK
<1>2. \A c \in Spore : Done(c) <=> c \in Copied
  BY <1>1 DEF Copies, Copied
<1>3. copy.home[root] = none
  BY <1>1, NotCopied
<1>7. Copied \cap Typed = {}
  <2>1. \A p \in Typed : copy.home[p] = none
    BY <1>1, TypedNotCopied
  <2>2. root \notin Typed
    BY <1>1, NestAssumption, CloneAssumption
  <2> QED BY <2>1, <2>2 DEF Copied
<1>4. ASSUME NEW m \in Copied \ {root}
      PROVE  copy.home[m] = g.home[m]
  <2>1. m \in Member /\ copy.home[m] \in Spore
    BY <1>1 DEF Copied, Graph
  <2>2. PICK c \in Spore : c = copy.home[m]
    BY <2>1
  <2>3. m \in Range(copy.held[c])
    BY <1>1, <2>1, <2>2 DEF Copies
  <2>4. PICK i \in DOMAIN g.held[c] : g.held[c][i] = m /\ Passed(c, i)
    BY <1>1, <2>3 DEF Copies
  <2> QED BY <1>1, <2>2, <2>4 DEF Copies
<1>5. ASSUME NEW c \in Copied \cap Spore, NEW S \in {Pin \ Typed, Spore}
      PROVE  Agree(g.held[c], copy.held[c], S)
  <2> DEFINE q == copy.held[c]
             r == g.held[c]
  <2>1. /\ q \in Seq(Member) /\ r \in Seq(Member)
        /\ IsInjective(q) /\ IsInjective(r)
    BY <1>1 DEF Graph, CopiesOrder, IInv, HomeInv, HomeLists
  <2>2. /\ \A i \in DOMAIN r : r[i] \notin Typed => Passed(c, i)
        /\ \A i \in DOMAIN r : Passed(c, i) => r[i] \notin Typed
        /\ S \cap Typed = {}
    BY <1>2, NestAssumption, CloneAssumption DEF Passed, Done
  <2>3. Range(q) \cap S = Range(r) \cap S
    <3>1. ASSUME NEW y \in Range(r) \cap S PROVE y \in Range(q)
      <4>1. PICK i \in DOMAIN r : r[i] = y
        BY DEF Range
      <4>2. Passed(c, i)
        BY <2>2, <4>1
      <4> QED BY <1>1, <4>1, <4>2 DEF Copies
    <3>2. ASSUME NEW y \in Range(q) PROVE y \in Range(r)
      <4>1. PICK i \in DOMAIN r : r[i] = y
        BY <1>1 DEF Copies
      <4> QED BY <4>1 DEF Range
    <3> QED BY <3>1, <3>2
  <2>4. ASSUME NEW x \in S, NEW y \in S, Before(r, x, y)
        PROVE  Before(q, x, y)
    <3>1. PICK i \in DOMAIN r, j \in DOMAIN r : i < j /\ r[i] = x /\ r[j] = y
      BY <2>4 DEF Before
    <3>2. x \in Pin <=> y \in Pin
      BY NestAssumption
    <3>3. Passed(c, i) /\ Passed(c, j)
      BY <2>2, <3>1
    <3> QED BY <1>1, <3>1, <3>2, <3>3 DEF CopiesOrder
  <2> HIDE DEF q, r
  <2>5. Agree(r, q, S)
    BY <2>1, <2>3, <2>4, OrderAgrees
  <2> QED BY <2>5 DEF q, r
<1>6. ASSUME InPlace
      PROVE  /\ \A x \in Held : g.ends[x].from \notin Typed
             /\ \A c \in Copied \cap Spore : /\ Agree(g.paths[c], copy.paths[c], Kept)
                                             /\ Range(copy.paths[c]) \subseteq Kept
             /\ \A x \in Kept : copy.ends[x] = g.ends[x]
             /\ \A p \in Pin :
                  /\ Agree(g.out[p], copy.out[p], Kept)
                  /\ Agree(g.in[p], copy.in[p], Kept)
                  /\ Range(copy.out[p]) \cup Range(copy.in[p]) \subseteq Kept
  <2>1. ASSUME NEW c \in Spore, call[c].loop \in {"paths", "done"}
        PROVE  Done(c)
    BY <1>1, <2>1 DEF Calls, Open, Done
  <2>2. \A c \in Spore : Done(c) => Range(g.paths[c]) \subseteq Held
    BY <1>2 DEF Held
  <2>3. AllPlaced
    BY <2>1, <2>2, <1>6 DEF AllPlaced, InPlace
  <2>4. PathCopies
    BY <2>3, <1>1
  <2>5. \A c \in Spore : Count(c) = IF Done(c) THEN Len(g.paths[c]) ELSE 0
    BY <2>1 DEF Count, Done
  <2>6. \A x \in Held : x # none /\ Placed(x)
    BY <1>6 DEF InPlace, Placed
  <2>7. Tried = Held
    <3>1. ASSUME NEW x \in Tried PROVE x \in Held
      <4>1. PICK c \in Spore : \E k \in 1..Count(c) : g.paths[c][k] = x
        BY DEF Tried
      <4>2. PICK k \in 1..Count(c) : g.paths[c][k] = x
        BY <4>1
      <4>3. Done(c) /\ k \in DOMAIN g.paths[c]
        BY <2>5, <4>2, PathFacts
      <4> QED BY <2>2, <4>2, <4>3 DEF Range
    <3>2. ASSUME NEW x \in Held PROVE x \in Tried
      <4>1. PICK c \in Copied \cap Spore : x \in Range(g.paths[c])
        BY DEF Held
      <4>2. PICK k \in DOMAIN g.paths[c] : g.paths[c][k] = x
        BY <4>1 DEF Range
      <4>3. x # none
        BY <2>6
      <4>4. x \in Path /\ k \in 1..Len(g.paths[c])
        BY <4>1, <4>2, <4>3, PathFacts
      <4>5. k \in 1..Count(c)
        BY <4>4, <2>5, <1>2
      <4> QED BY <4>2, <4>4, <4>5 DEF Tried
    <3> QED BY <3>1, <3>2
  <2>10. Anew = Kept
    BY <2>7 DEF Anew, Kept
  <2>11. ASSUME NEW c \in Copied \cap Spore
         PROVE  Agree(g.paths[c], copy.paths[c], Kept) /\ Range(copy.paths[c]) \subseteq Kept
    <3>1. /\ g.paths[c] \in Seq(Path \cup {none}) /\ copy.paths[c] \in Seq(Path \cup {none})
          /\ Range(copy.paths[c]) = {x \in Kept : g.ends[x].holder = c}
          /\ \A x, y : Before(copy.paths[c], x, y) => Before(g.paths[c], x, y)
      BY <1>1, <2>4, <2>10 DEF Graph, PathCopies
    <3>2. \A x \in Range(g.paths[c]) : x # none /\ g.ends[x].holder = c
      <4>1. ASSUME NEW x \in Range(g.paths[c]) PROVE x # none /\ g.ends[x].holder = c
        <5>1. x # none
          BY <2>6 DEF Held
        <5> QED BY <5>1 DEF IInv, PathInv, ListsOwn
      <4> QED BY <4>1
    <3>3. IsInjective(g.paths[c])
      <4>1. \A i, j \in DOMAIN g.paths[c] :
              LET x == g.paths[c][i]
                  y == g.paths[c][j]
              IN  x # none /\ y # none /\ i # j => ~Joins(g, x, g.ends[y].from, g.ends[y].to)
        BY DEF IInv, PathInv, NoTwins
      <4>2. \A i \in DOMAIN g.paths[c] : g.paths[c][i] # none
        BY <3>2 DEF Range
      <4> QED BY <4>1, <4>2 DEF Joins, IsInjective
    <3>4. ASSUME NEW x \in Kept, g.ends[x].holder = c PROVE x \in Range(g.paths[c])
      <4>1. PICK d \in Copied \cap Spore : x \in Range(g.paths[d])
        BY DEF Kept, Held
      <4>2. x # none
        BY <2>6 DEF Kept
      <4>3. g.ends[x].holder = d
        BY <4>1, <4>2 DEF IInv, PathInv, ListsOwn
      <4> QED BY <3>4, <4>1, <4>3
    <3>5. Range(g.paths[c]) \cap Kept = Range(copy.paths[c]) \cap Kept
      BY <3>1, <3>2, <3>4
    <3> QED BY <3>1, <3>3, <3>5, OrderAgrees
  <2>8. ASSUME NEW p \in Pin
        PROVE  /\ Agree(g.out[p], copy.out[p], Kept)
               /\ Agree(g.in[p], copy.in[p], Kept)
               /\ Range(copy.out[p]) \cup Range(copy.in[p]) \subseteq Kept
    <3>1. /\ g.out[p] \in Seq(Path) /\ copy.out[p] \in Seq(Path)
          /\ g.in[p] \in Seq(Path) /\ copy.in[p] \in Seq(Path)
      BY <1>1 DEF Graph
    <3>2. IsInjective(g.out[p]) /\ IsInjective(g.in[p])
      BY DEF IInv, PathInv, PinsListOnce
    <3>3. /\ \A x \in Range(g.out[p]) : g.ends[x].from = p
          /\ \A x \in Range(g.in[p]) : g.ends[x].to = p
      BY DEF IInv, PathInv, PinsListLive
    <3>4. /\ Range(copy.out[p]) = {x \in Kept : g.ends[x].from = p}
          /\ Range(copy.in[p]) = {x \in Kept : g.ends[x].to = p}
          /\ \A x, y : Before(copy.out[p], x, y) => Before(g.out[p], x, y)
          /\ \A x, y : Before(copy.in[p], x, y) => Before(g.in[p], x, y)
      BY <2>4, <2>10 DEF PathCopies
    <3>5. \A x \in Kept : /\ x \in Range(g.out[g.ends[x].from])
                          /\ x \in Range(g.in[g.ends[x].to])
      BY <2>6 DEF Kept, Placed
    <3>6. Range(g.out[p]) \cap Kept = Range(copy.out[p]) \cap Kept
      BY <3>3, <3>4, <3>5
    <3>7. Range(g.in[p]) \cap Kept = Range(copy.in[p]) \cap Kept
      BY <3>3, <3>4, <3>5
    <3>8. Agree(g.out[p], copy.out[p], Kept)
      BY <3>1, <3>2, <3>4, <3>6, OrderAgrees
    <3>9. Agree(g.in[p], copy.in[p], Kept)
      BY <3>1, <3>2, <3>4, <3>7, OrderAgrees
    <3> QED BY <3>4, <3>8, <3>9
  <2>9. \A x \in Kept : copy.ends[x] = g.ends[x]
    BY <2>4, <2>10 DEF PathCopies
  <2>12. \A x \in Held : g.ends[x].from \notin Typed
    BY <2>4, <2>7 DEF PathCopies
  <2> QED BY <2>8, <2>9, <2>11, <2>12
<1> QED BY <1>3, <1>4, <1>5, <1>6, <1>7

\* Nothing that clone does changes the graph that is cloned: the edits before it
\* are those of Nest, and what is proved of Nest holds all the while.
LEMMA CloneEdits == CloneSpec => Spec
<1>1. CloneInit => Init
  BY DEF CloneInit
<1>2. [CloneNext]_<<vars, cloneVars>> => [Next]_vars
  BY CloneStep
<1> QED BY <1>1, <1>2, PTL DEF CloneSpec, Spec

\* At any moment of the recursion, the copy is what the calls of _clone have
\* passed so far.
THEOREM CloneInvariance == CloneSpec => []CloneInv
<1>1. IInv /\ CloneInv /\ [CloneNext]_<<vars, cloneVars>> => CloneInv'
  BY CloneNextInv
<1> QED BY <1>1, CloneInitInv, CloneEdits, Invariance, PTL DEF CloneSpec

\* For every graph that the edits lead to and every spore in it: when clone
\* returns, every pin that can be cloned and every child is in the copy, in the
\* order of the original, and no pin that cannot; and as long as no path was
\* taken from where it was made, none of them starts at a pin that cannot be
\* cloned, those that end at one are left out, and data pushed to the copy of a
\* pin follow the copies of the others in the order of the original.
THEOREM CloneIsMirror == CloneSpec => []CloneMirrors
BY CloneInvariance, CloneEdits, Invariance, CloneMirrored, PTL
=============================================================================
