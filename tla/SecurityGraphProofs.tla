------------------------- MODULE SecurityGraphProofs -------------------------
(***************************************************************************)
(* Proofs about SecurityGraph: what a search returns are simple paths it   *)
(* was asked for, a search that ends below its cap has missed none, and by *)
(* how much a search may exceed its cap, for every graph and every bound.  *)
(***************************************************************************)
EXTENDS SecurityGraph, ListOpsProofs

-----------------------------------------------------------------------------
(* Paths and their walks *)

Path(E) == [src : Ids, edges : Seq(E)]

\* The walk of a path starts at its source and continues with the end of each edge.
LEMMA WalkIs ==
  ASSUME NEW E \in SUBSET Links, NEW p \in Path(E)
  PROVE  /\ Walk(p) \in Seq(Ids) /\ Len(p.edges) \in Nat
         /\ Len(Walk(p)) = Len(p.edges) + 1 /\ Walk(p)[1] = p.src
         /\ \A k \in 1..Len(p.edges) : /\ Walk(p)[k + 1] = p.edges[k].to /\ p.edges[k] \in E
                                       /\ p.edges[k].from \in Ids /\ p.edges[k].to \in Ids
<1> DEFINE s == p.edges
           t == [k \in DOMAIN s |-> s[k].to]
<1>1. p.src \in Ids /\ s \in Seq(E)
  BY DEF Path
<1>2. Len(s) \in Nat /\ DOMAIN s = 1..Len(s) /\ \A k \in 1..Len(s) : s[k] \in E
  BY <1>1
<1>3. \A k \in 1..Len(s) : s[k].from \in Ids /\ s[k].to \in Ids
  BY <1>2, GraphAssumption
<1>4. t \in Seq(Ids) /\ Len(t) = Len(s) /\ \A k \in 1..Len(s) : t[k] = s[k].to
  <2>1. t \in [1..Len(s) -> Ids]
    BY <1>2, <1>3
  <2>2. \A k \in 1..Len(s) : t[k] = s[k].to
    BY <1>2
  <2> HIDE DEF t
  <2> QED
    BY <1>2, <2>1, <2>2
<1>5. Walk(p) = <<p.src>> \o t
  BY DEF Walk
<1> HIDE DEF t, s
<1>6. <<p.src>> \in Seq(Ids) /\ Len(<<p.src>>) = 1 /\ <<p.src>>[1] = p.src
  BY <1>1
<1>7. /\ <<p.src>> \o t \in Seq(Ids) /\ Len(<<p.src>> \o t) = 1 + Len(t)
      /\ (<<p.src>> \o t)[1] = p.src
      /\ \A k \in 1..Len(t) : (<<p.src>> \o t)[k + 1] = t[k]
  BY <1>4, <1>6
<1> QED
  BY <1>2, <1>3, <1>4, <1>5, <1>7 DEF s

\* Where a path ends and what it has visited, in terms of its walk.
LEMMA WalkEnds ==
  ASSUME NEW E \in SUBSET Links, NEW p \in Path(E)
  PROVE  /\ endOf(p) = Walk(p)[Len(p.edges) + 1] /\ endOf(p) \in Ids
         /\ \A x : x \in visited(p) <=> \E k \in 1..(Len(p.edges) + 1) : Walk(p)[k] = x
<1> DEFINE L == Len(p.edges)
           w == Walk(p)
<1>1. /\ w \in Seq(Ids) /\ L \in Nat /\ Len(w) = L + 1 /\ w[1] = p.src
      /\ \A k \in 1..L : w[k + 1] = p.edges[k].to
  BY WalkIs
<1>2. p.edges \in Seq(E) /\ p.src \in Ids
  BY DEF Path
<1>3. endOf(p) = w[L + 1]
  <2>1. CASE p.edges = <<>>
    BY <1>1, <2>1 DEF endOf
  <2>2. CASE p.edges # <<>>
    <3>1. L \in 1..L
      BY <1>1, <1>2, <2>2
    <3> QED
      BY <1>1, <2>2, <3>1 DEF endOf, Last
  <2> QED
    BY <2>1, <2>2
<1>4. endOf(p) \in Ids
  BY <1>1, <1>3
<1>5. visited(p) = {p.src} \cup {p.edges[k].to : k \in 1..L}
  <2>1. Range(p.edges) = {p.edges[k] : k \in 1..L}
    BY <1>2 DEF Range
  <2> QED
    BY <2>1 DEF visited
<1> HIDE DEF L, w
<1>6. ASSUME NEW x, x \in visited(p) PROVE \E k \in 1..(L + 1) : w[k] = x
  <2>1. CASE x = p.src
    <3>1. 1 \in 1..(L + 1)
      BY <1>1
    <3> QED
      BY <1>1, <2>1, <3>1
  <2>2. ASSUME NEW k \in 1..L, x = p.edges[k].to PROVE \E j \in 1..(L + 1) : w[j] = x
    <3>1. k + 1 \in 1..(L + 1)
      BY <1>1
    <3> QED
      BY <1>1, <2>2, <3>1
  <2> QED
    BY <1>5, <1>6, <2>1, <2>2
<1>7. ASSUME NEW k \in 1..(L + 1) PROVE w[k] \in visited(p)
  <2>1. CASE k = 1
    BY <1>1, <1>5, <2>1
  <2>2. CASE k # 1
    <3>1. k - 1 \in 1..L /\ (k - 1) + 1 = k
      BY <1>1, <2>2
    <3>2. w[k] = p.edges[k - 1].to
      BY <1>1, <3>1
    <3> QED
      BY <1>5, <3>1, <3>2
  <2> QED
    BY <2>1, <2>2
<1> QED
  BY <1>3, <1>4, <1>6, <1>7 DEF L, w

\* A trail follows edges of E, each from where the one before ended, and meets no
\* node twice.
Trail(p, E) ==
  /\ p \in Path(E)
  /\ \A k \in 1..Len(p.edges) : p.edges[k].from = Walk(p)[k]
  /\ \A i, j \in 1..(Len(p.edges) + 1) : Walk(p)[i] = Walk(p)[j] => i = j

\* One more edge from where a trail ends to a node it has not visited.
LEMMA TrailGrows ==
  ASSUME NEW E \in SUBSET Links, NEW p, Trail(p, E), NEW e \in E,
         e.from = endOf(p), e.to \notin visited(p)
  PROVE  LET q == extended(p, e)
         IN  /\ Trail(q, E) /\ q.src = p.src /\ Len(q.edges) = Len(p.edges) + 1
             /\ endOf(q) = e.to /\ Walk(q)[Len(p.edges) + 2] = e.to
             /\ \A k \in 1..(Len(p.edges) + 1) : Walk(q)[k] = Walk(p)[k]
<1> DEFINE q == extended(p, e)
           L == Len(p.edges)
<1>1. p \in Path(E) /\ p.edges \in Seq(E) /\ p.src \in Ids /\ L \in Nat
  BY DEF Trail, Path
<1>2. q \in Path(E) /\ q.src = p.src /\ q.edges = Append(p.edges, e)
  BY <1>1 DEF extended, Path
<1> HIDE DEF q
<1>3. /\ Len(q.edges) = L + 1 /\ q.edges[L + 1] = e
      /\ \A k \in 1..L : q.edges[k] = p.edges[k] /\ k \in 1..(L + 1)
  BY <1>1, <1>2
<1>4. /\ Walk(p)[1] = p.src /\ Len(Walk(p)) = L + 1
      /\ \A k \in 1..L : Walk(p)[k + 1] = p.edges[k].to
  BY <1>1, WalkIs
<1>5. Walk(q)[1] = q.src /\ \A k \in 1..(L + 1) : Walk(q)[k + 1] = q.edges[k].to
  <2>1. /\ Walk(q)[1] = q.src
        /\ \A k \in 1..Len(q.edges) : Walk(q)[k + 1] = q.edges[k].to
    BY <1>2, WalkIs
  <2>2. Len(q.edges) = L + 1
    BY <1>3
  <2> HIDE DEF L
  <2> QED
    BY <2>1, <2>2
<1>6. endOf(q) = Walk(q)[(L + 1) + 1]
  BY <1>2, <1>3, WalkEnds
<1>7. endOf(p) = Walk(p)[L + 1] /\ \A k \in 1..(L + 1) : Walk(p)[k] \in visited(p)
  BY <1>1, WalkEnds
<1> HIDE DEF L
<1>8. ASSUME NEW k \in 1..(L + 1) PROVE Walk(q)[k] = Walk(p)[k]
  <2>1. CASE k = 1
    BY <1>2, <1>4, <1>5, <2>1
  <2>2. CASE k # 1
    <3>1. k - 1 \in 1..L /\ (k - 1) + 1 = k /\ k - 1 \in 1..(L + 1)
      BY <1>1, <2>2
    <3> QED
      BY <1>3, <1>4, <1>5, <3>1
  <2> QED
    BY <2>1, <2>2
<1>9. Walk(q)[(L + 1) + 1] = e.to /\ (L + 1) + 1 = L + 2
  <2>1. L + 1 \in 1..(L + 1)
    BY <1>1
  <2> QED
    BY <1>1, <1>3, <1>5, <2>1
<1>10. ASSUME NEW k \in 1..(L + 1) PROVE q.edges[k].from = Walk(q)[k]
  <2>1. CASE k = L + 1
    BY <1>3, <1>7, <1>8, <2>1
  <2>2. CASE k # L + 1
    <3>1. k \in 1..L
      BY <1>1, <2>2
    <3>2. p.edges[k].from = Walk(p)[k]
      BY <3>1 DEF Trail, L
    <3> QED
      BY <1>3, <1>8, <3>1, <3>2
  <2> QED
    BY <2>1, <2>2
<1>11. ASSUME NEW i \in 1..(L + 2), NEW j \in 1..(L + 2), Walk(q)[i] = Walk(q)[j] PROVE i = j
  <2>1. ASSUME NEW k \in 1..(L + 2) PROVE k = L + 2 \/ k \in 1..(L + 1)
    BY <1>1
  <2>2. \A k \in 1..(L + 1) : Walk(q)[k] = Walk(p)[k] /\ Walk(p)[k] \in visited(p)
    BY <1>7, <1>8
  <2>3. Walk(q)[L + 2] = e.to
    BY <1>9
  <2>4. \A a, b \in 1..(L + 1) : Walk(p)[a] = Walk(p)[b] => a = b
    BY DEF Trail, L
  <2> QED
    BY <1>11, <2>1, <2>2, <2>3, <2>4
<1>12. Trail(q, E)
  <2>1. Len(q.edges) = L + 1 /\ Len(q.edges) + 1 = L + 2
    BY <1>1, <1>3
  <2> QED
    BY <1>2, <1>10, <1>11, <2>1 DEF Trail
<1> QED
  BY <1>2, <1>3, <1>6, <1>8, <1>9, <1>12 DEF q, L

-----------------------------------------------------------------------------
(* The paths a search must return *)

\* SimplePaths for a given set of edges and depth.
Simple(a, b, E, depth) ==
  {p \in UNION {[1..n -> Ids] : n \in 2..(depth + 1)} :
     /\ p[1] = a /\ p[Len(p)] = b /\ IsInjective(p)
     /\ \A k \in 1..(Len(p) - 1) : \E e \in E : e.from = p[k] /\ e.to = p[k + 1]}

Allowed == {e \in Range(edges) : follows(e)}

LEMMA SimpleIs ==
  ASSUME NEW a, NEW b
  PROVE  SimplePaths(a, b) = Simple(a, b, Allowed, search.depth)
<1> DEFINE D == search.depth
           P == UNION {[1..n -> Ids] : n \in 2..(D + 1)}
           joins(x, y) == \E e \in Range(edges) : e.from = x /\ e.to = y /\ Follow(e)
           along(x, y) == \E e \in Allowed : e.from = x /\ e.to = y
<1>1. ASSUME NEW x, NEW y PROVE joins(x, y) <=> along(x, y)
  BY DEF Allowed, follows, Follow
<1> HIDE DEF D, P
<1>2. SimplePaths(a, b) = {p \in P : /\ p[1] = a /\ p[Len(p)] = b /\ IsInjective(p)
                                     /\ \A k \in 1..(Len(p) - 1) : joins(p[k], p[k + 1])}
  BY DEF SimplePaths, P, D
<1>3. Simple(a, b, Allowed, D) = {p \in P : /\ p[1] = a /\ p[Len(p)] = b /\ IsInjective(p)
                                            /\ \A k \in 1..(Len(p) - 1) : along(p[k], p[k + 1])}
  BY DEF Simple, P, D
<1> HIDE DEF joins, along
<1> QED
  BY <1>1, <1>2, <1>3 DEF D

\* What a member of Simple is.
LEMMA SimpleFacts ==
  ASSUME NEW a, NEW b, NEW E, NEW depth \in Nat, NEW p \in Simple(a, b, E, depth)
  PROVE  /\ p \in Seq(Ids) /\ Len(p) \in 2..(depth + 1) /\ DOMAIN p = 1..Len(p)
         /\ p[1] = a /\ p[Len(p)] = b
         /\ \A i, j \in 1..Len(p) : p[i] = p[j] => i = j
         /\ \A k \in 1..(Len(p) - 1) : \E e \in E : e.from = p[k] /\ e.to = p[k + 1]
<1>1. PICK n \in 2..(depth + 1) : p \in [1..n -> Ids]
  BY DEF Simple
<1>2. n \in Nat /\ p \in Seq(Ids) /\ Len(p) = n /\ DOMAIN p = 1..n
  BY <1>1
<1> QED
  BY <1>1, <1>2 DEF Simple, IsInjective

\* The walk of a trail is one of them, whatever its ends.
LEMMA TrailIsSimple ==
  ASSUME NEW E \in SUBSET Links, NEW p, Trail(p, E), NEW depth \in Nat,
         1 <= Len(p.edges), Len(p.edges) <= depth
  PROVE  /\ Walk(p) \in Simple(Walk(p)[1], Walk(p)[Len(Walk(p))], E, depth)
         /\ Walk(p)[1] = p.src /\ Walk(p)[Len(Walk(p))] = endOf(p)
<1> DEFINE w == Walk(p)
           L == Len(p.edges)
<1>1. p \in Path(E)
  BY DEF Trail
<1>2. /\ w \in Seq(Ids) /\ L \in Nat /\ Len(w) = L + 1 /\ w[1] = p.src
      /\ \A k \in 1..L : w[k + 1] = p.edges[k].to /\ p.edges[k] \in E
  BY <1>1, WalkIs
<1>3. endOf(p) = w[L + 1]
  BY <1>1, WalkEnds
<1>4. (\A k \in 1..L : p.edges[k].from = w[k]) /\ \A i, j \in 1..(L + 1) : w[i] = w[j] => i = j
  BY DEF Trail
<1>5. 1 <= L /\ L <= depth
  OBVIOUS
<1> HIDE DEF w, L
<1>6. IsInjective(w)
  <2>1. DOMAIN w = 1..(L + 1)
    BY <1>2
  <2> QED
    BY <1>4, <2>1 DEF IsInjective
<1>7. w \in UNION {[1..n -> Ids] : n \in 2..(depth + 1)}
  <2>1. L + 1 \in 2..(depth + 1) /\ w \in [1..(L + 1) -> Ids]
    BY <1>2, <1>5
  <2> QED
    BY <2>1
<1>8. ASSUME NEW k \in 1..(Len(w) - 1) PROVE \E e \in E : e.from = w[k] /\ e.to = w[k + 1]
  <2>1. k \in 1..L
    BY <1>2
  <2> QED
    BY <1>2, <1>4, <2>1
<1>9. w \in Simple(w[1], w[Len(w)], E, depth)
  BY <1>6, <1>7, <1>8 DEF Simple
<1> QED
  BY <1>2, <1>3, <1>9 DEF w

\* A simple path from a node to itself would meet it twice.
LEMMA NoLoop ==
  ASSUME NEW a, NEW E, NEW depth \in Nat
  PROVE  Simple(a, a, E, depth) = {}
<1> SUFFICES ASSUME NEW p \in Simple(a, a, E, depth) PROVE FALSE
  OBVIOUS
<1>1. Len(p) \in 2..(depth + 1) /\ p[1] = a /\ p[Len(p)] = a /\ \A i, j \in 1..Len(p) : p[i] = p[j] => i = j
  BY SimpleFacts
<1>2. 1 \in 1..Len(p) /\ Len(p) \in 1..Len(p) /\ Len(p) # 1
  BY <1>1
<1> QED
  BY <1>1, <1>2

\* A path of the queue is on the way to q when its walk is a proper prefix of q.
OnTheWay(p, q) ==
  /\ Len(p.edges) + 1 < Len(q)
  /\ \A k \in 1..(Len(p.edges) + 1) : Walk(p)[k] = q[k]

\* The empty path from a is on the way to every path that starts at a.
LEMMA StartOnTheWay ==
  ASSUME NEW a \in Ids, NEW b, NEW E \in SUBSET Links, NEW depth \in Nat, NEW q \in Simple(a, b, E, depth),
         NEW p, p = [src |-> a, edges |-> <<>>]
  PROVE  OnTheWay(p, q)
<1>1. p \in Path(E) /\ p.src = a /\ Len(p.edges) = 0
  BY DEF Path
<1>2. Walk(p)[1] = a
  BY <1>1, WalkIs
<1>3. Len(q) \in 2..(depth + 1) /\ q[1] = a
  BY SimpleFacts
<1>4. \A k \in 1..(0 + 1) : k = 1
  OBVIOUS
<1> QED
  BY <1>1, <1>2, <1>3, <1>4 DEF OnTheWay

\* The step that matters: a dequeued path on the way to q has an extension by an
\* edge of E that either is q or is on the way to q and may still grow.
LEMMA GetsCloser ==
  ASSUME NEW E \in SUBSET Links, NEW p, Trail(p, E), NEW depth \in Nat,
         NEW a, NEW b, NEW q \in Simple(a, b, E, depth), OnTheWay(p, q)
  PROVE  /\ Len(p.edges) < depth
         /\ \E e \in E : /\ e.from = endOf(p) /\ e.to \notin visited(p)
                         /\ e.to = b => Walk(extended(p, e)) = q
                         /\ e.to # b => /\ OnTheWay(extended(p, e), q)
                                        /\ Len(extended(p, e).edges) < depth
<1> DEFINE L == Len(p.edges)
<1>1. p \in Path(E)
  BY DEF Trail
<1>2. /\ q \in Seq(Ids) /\ Len(q) \in 2..(depth + 1) /\ q[Len(q)] = b
      /\ \A i, j \in 1..Len(q) : q[i] = q[j] => i = j
      /\ \A k \in 1..(Len(q) - 1) : \E e \in E : e.from = q[k] /\ e.to = q[k + 1]
  BY SimpleFacts
<1>3. L \in Nat /\ endOf(p) = Walk(p)[L + 1] /\ \A x : x \in visited(p) => \E k \in 1..(L + 1) : Walk(p)[k] = x
  BY <1>1, WalkIs, WalkEnds
<1>4. L + 1 < Len(q) /\ \A k \in 1..(L + 1) : Walk(p)[k] = q[k]
  BY DEF OnTheWay
<1> HIDE DEF L
<1>5. L < depth
  BY <1>2, <1>3, <1>4
<1>6. L + 1 \in 1..(Len(q) - 1) /\ (L + 1) + 1 = L + 2 /\ L + 1 \in 1..(L + 1) /\ L + 2 \in 1..Len(q)
  BY <1>2, <1>3, <1>4
<1>7. PICK e \in E : e.from = q[L + 1] /\ e.to = q[L + 2]
  BY <1>2, <1>6
<1>8. e.from = endOf(p)
  BY <1>3, <1>4, <1>6, <1>7
<1>9. e.to \notin visited(p)
  <2> SUFFICES ASSUME NEW k \in 1..(L + 1), Walk(p)[k] = e.to PROVE FALSE
    BY <1>3
  <2>1. q[k] = q[L + 2] /\ k \in 1..Len(q)
    BY <1>2, <1>3, <1>4, <1>7
  <2> QED
    BY <1>2, <1>3, <1>6, <2>1
<1> DEFINE r == extended(p, e)
<1>10. /\ Trail(r, E) /\ Len(r.edges) = L + 1 /\ Walk(r)[L + 2] = e.to
       /\ \A k \in 1..(L + 1) : Walk(r)[k] = Walk(p)[k]
  BY <1>8, <1>9, TrailGrows DEF L
<1> HIDE DEF r
<1>11. \A k \in 1..(L + 2) : Walk(r)[k] = q[k]
  <2>1. \A k \in 1..(L + 2) : k = L + 2 \/ k \in 1..(L + 1)
    BY <1>3
  <2> QED
    BY <1>4, <1>7, <1>10, <2>1
<1>12. Walk(r) \in Seq(Ids) /\ Len(Walk(r)) = L + 2
  <2>1. r \in Path(E)
    BY <1>10 DEF Trail
  <2>2. Walk(r) \in Seq(Ids) /\ Len(Walk(r)) = Len(r.edges) + 1
    BY <2>1, WalkIs
  <2> QED
    BY <1>3, <1>10, <2>2
<1>13. ASSUME e.to = b PROVE Walk(r) = q
  <2>1. Len(q) = L + 2
    <3>1. Len(q) \in 1..Len(q)
      BY <1>2
    <3> QED
      BY <1>2, <1>6, <1>7, <1>13, <3>1
  <2> QED
    BY <1>2, <1>11, <1>12, <2>1
<1>14. ASSUME e.to # b PROVE OnTheWay(r, q) /\ Len(r.edges) < depth
  <2>1. Len(q) # L + 2
    BY <1>2, <1>7, <1>14
  <2>2. (L + 1) + 1 < Len(q) /\ L + 1 < depth
    BY <1>2, <1>3, <1>4, <2>1
  <2> QED
    BY <1>3, <1>6, <1>10, <1>11, <2>2 DEF OnTheWay
<1> QED
  BY <1>5, <1>8, <1>9, <1>13, <1>14 DEF r, L

-----------------------------------------------------------------------------
(* The lists the searches build *)

\* filtered, without its positions: what it holds, what it omits, how long it is.
Holds(s, x, kept) ==
  /\ Len(s) = Cardinality(kept)
  /\ \A n \in 1..Len(s) : \E k \in kept : s[n] = x[k]
  /\ \A k \in kept : \E n \in 1..Len(s) : s[n] = x[k]

LEMMA FilteredHolds ==
  ASSUME NEW S, NEW x \in Seq(S), NEW kept \in SUBSET DOMAIN x
  PROVE  filtered(x, kept) \in Seq(S) /\ Holds(filtered(x, kept), x, kept)
<1>1. PICK c \in Nat, pos \in [1..Cardinality(kept) -> kept] :
        /\ c = Cardinality(kept) /\ kept = Range(pos)
        /\ \A a, b \in DOMAIN pos : a < b => pos[a] < pos[b]
        /\ filtered(x, kept) = [n \in DOMAIN pos |-> x[pos[n]]]
        /\ filtered(x, kept) \in Seq(S)
  BY Filtered
<1> DEFINE s == filtered(x, kept)
<1>2. DOMAIN pos = 1..c /\ s = [n \in 1..c |-> x[pos[n]]] /\ s \in Seq(S)
  BY <1>1
<1>3. Len(s) = c /\ \A n \in 1..c : s[n] = x[pos[n]] /\ pos[n] \in kept
  BY <1>1, <1>2
<1>4. \A k \in kept : \E n \in 1..c : pos[n] = k
  BY <1>1, <1>2 DEF Range
<1> HIDE DEF s
<1>5. Holds(s, x, kept)
  BY <1>1, <1>3, <1>4 DEF Holds
<1> QED
  BY <1>2, <1>5 DEF s

\* extendBy(p, kept) is one path for each edge at a position of kept.
Extends(s, p, kept) ==
  /\ Len(s) = Cardinality(kept)
  /\ \A n \in 1..Len(s) : \E k \in kept : s[n] = extended(p, edges[k])
  /\ \A k \in kept : \E n \in 1..Len(s) : s[n] = extended(p, edges[k])

LEMMA ExtendByHolds ==
  ASSUME edges \in Seq(Links), NEW p \in Path(Links), NEW kept \in SUBSET DOMAIN edges
  PROVE  extendBy(p, kept) \in Seq(Path(Links)) /\ Extends(extendBy(p, kept), p, kept)
<1> DEFINE next == filtered(edges, kept)
           s == extendBy(p, kept)
<1>1. next \in Seq(Links) /\ Holds(next, edges, kept)
  BY FilteredHolds
<1>2. s = [n \in DOMAIN next |-> extended(p, next[n])]
  BY DEF extendBy
<1> HIDE DEF next, s
<1>3. Len(next) \in Nat /\ DOMAIN next = 1..Len(next) /\ \A n \in 1..Len(next) : next[n] \in Links
  BY <1>1
<1>4. ASSUME NEW e \in Links PROVE extended(p, e) \in Path(Links)
  BY DEF extended, Path
<1>5. s \in Seq(Path(Links)) /\ Len(s) = Len(next) /\ \A n \in 1..Len(next) : s[n] = extended(p, next[n])
  <2>1. s \in [1..Len(next) -> Path(Links)]
    BY <1>2, <1>3, <1>4
  <2>2. \A n \in 1..Len(next) : s[n] = extended(p, next[n])
    BY <1>2, <1>3
  <2> QED
    BY <1>3, <2>1, <2>2
<1>6. Extends(s, p, kept)
  <2>1. ASSUME NEW n \in 1..Len(next) PROVE \E k \in kept : s[n] = extended(p, edges[k])
    <3>1. PICK k \in kept : next[n] = edges[k]
      BY <1>1 DEF Holds
    <3> QED
      BY <1>5, <3>1
  <2>2. ASSUME NEW k \in kept PROVE \E n \in 1..Len(next) : s[n] = extended(p, edges[k])
    <3>1. PICK n \in 1..Len(next) : next[n] = edges[k]
      BY <1>1 DEF Holds
    <3> QED
      BY <1>5, <3>1
  <2> QED
    BY <1>1, <1>5, <2>1, <2>2 DEF Extends, Holds
<1> QED
  BY <1>5, <1>6 DEF s

\* The pairs findAttackChains has to search.
LowHigh(pair, ns) ==
  \E i, j \in DOMAIN ns : /\ Levels[ns[i].type] <= 2 /\ Levels[ns[j].type] >= 4
                          /\ pair = <<ns[i].id, ns[j].id>>
Node == [id : Ids, type : DOMAIN Levels]

\* Row and column of the n-th cell of a table, and the place of a given cell.
LEMMA CellOf ==
  ASSUME NEW l \in Nat, NEW h \in Nat, NEW n \in 1..(l * h)
  PROVE  1 + ((n - 1) \div h) \in 1..l /\ 1 + ((n - 1) % h) \in 1..h
<1>1. h # 0 /\ h > 0
  <2> SUFFICES ASSUME h = 0 PROVE FALSE
    OBVIOUS
  <2>1. l * h = 0
    OBVIOUS
  <2> QED
    BY <2>1
<1> DEFINE d == (n - 1) \div h
           r == (n - 1) % h
<1>2. d \in Int /\ r \in 0..(h - 1) /\ n - 1 = h * d + r
  BY <1>1
<1> HIDE DEF d, r
<1>3. d >= 0
  BY <1>1, <1>2
<1>4. d < l
  BY <1>1, <1>2
<1> QED
  BY <1>1, <1>2, <1>3, <1>4 DEF d, r

IsCell(n, h, i, j) == 1 + ((n - 1) \div h) = i /\ 1 + ((n - 1) % h) = j

LEMMA CellAt ==
  ASSUME NEW l \in Nat, NEW h \in Nat, NEW i \in 1..l, NEW j \in 1..h
  PROVE  \E n \in 1..(l * h) : IsCell(n, h, i, j)
<1> DEFINE n == (i - 1) * h + j
<1>1. h > 0 /\ i - 1 \in Nat /\ j - 1 \in 0..(h - 1) /\ n - 1 = (i - 1) * h + (j - 1)
  OBVIOUS
<1>2. n \in 1..(l * h)
  <2>1. (i - 1) * h >= 0 /\ (i - 1) * h + h = i * h /\ i * h <= l * h
    BY <1>1
  <2> QED
    BY <1>1, <2>1
<1>3. (n - 1) \div h = i - 1 /\ (n - 1) % h = j - 1
  BY <1>1
<1>4. IsCell(n, h, i, j)
  BY <1>3 DEF IsCell
<1> HIDE DEF n
<1> QED
  BY <1>2, <1>4

LEMMA ChainPairs ==
  ASSUME nodes \in Seq(Node)
  PROVE  LET all == attackPairs
             ps == filtered(all, {n \in DOMAIN all : all[n][1] # all[n][2]})
         IN  /\ ps \in Seq(Ids \X Ids)
             /\ \A n \in 1..Len(ps) : LowHigh(ps[n], nodes)
             /\ \A pair \in Ids \X Ids : LowHigh(pair, nodes) /\ pair[1] # pair[2]
                                           => \E n \in 1..Len(ps) : ps[n] = pair
<1> DEFINE lowAt == {k \in DOMAIN nodes : levelOf(k) <= 2}
           highAt == {k \in DOMAIN nodes : levelOf(k) >= 4}
           low == filtered(nodes, lowAt)
           high == filtered(nodes, highAt)
           l == Len(low)
           h == Len(high)
           cell(n) == <<low[1 + ((n - 1) \div h)].id, high[1 + ((n - 1) % h)].id>>
           all == attackPairs
           kept == {n \in DOMAIN all : all[n][1] # all[n][2]}
           ps == filtered(all, kept)
<1>1. all = [n \in 1..(l * h) |-> cell(n)]
  BY DEF attackPairs
<1>2. /\ low \in Seq(Node) /\ Holds(low, nodes, lowAt) /\ l \in Nat
      /\ high \in Seq(Node) /\ Holds(high, nodes, highAt) /\ h \in Nat
  BY FilteredHolds
<1>3. /\ \A k \in lowAt : k \in DOMAIN nodes /\ Levels[nodes[k].type] <= 2
      /\ \A k \in highAt : k \in DOMAIN nodes /\ Levels[nodes[k].type] >= 4
      /\ \A k \in DOMAIN nodes : /\ (Levels[nodes[k].type] <= 2 => k \in lowAt)
                                 /\ (Levels[nodes[k].type] >= 4 => k \in highAt)
  BY DEF levelOf
<1> HIDE DEF lowAt, highAt, low, high, all
<1>4. /\ \A a \in 1..l : low[a] \in Node /\ \E k \in lowAt : low[a] = nodes[k]
      /\ \A b \in 1..h : high[b] \in Node /\ \E k \in highAt : high[b] = nodes[k]
      /\ \A k \in lowAt : \E a \in 1..l : low[a] = nodes[k]
      /\ \A k \in highAt : \E b \in 1..h : high[b] = nodes[k]
  BY <1>2 DEF Holds
<1> HIDE DEF l, h
<1>5. ASSUME NEW n \in 1..(l * h)
      PROVE  cell(n) \in Ids \X Ids /\ LowHigh(cell(n), nodes)
  <2> DEFINE a == 1 + ((n - 1) \div h)
             b == 1 + ((n - 1) % h)
  <2>1. a \in 1..l /\ b \in 1..h
    BY <1>2, CellOf
  <2> HIDE DEF a, b
  <2>2. low[a].id \in Ids /\ high[b].id \in Ids
    BY <1>4, <2>1 DEF Node
  <2>3. PICK i \in lowAt : low[a] = nodes[i]
    BY <1>4, <2>1
  <2>4. PICK j \in highAt : high[b] = nodes[j]
    BY <1>4, <2>1
  <2>5. cell(n) = <<low[a].id, high[b].id>>
    BY DEF a, b
  <2>6. LowHigh(<<nodes[i].id, nodes[j].id>>, nodes)
    BY <1>3 DEF LowHigh
  <2> QED
    BY <2>2, <2>3, <2>4, <2>5, <2>6
<1>6. ASSUME NEW pair \in Ids \X Ids, LowHigh(pair, nodes)
      PROVE  \E n \in 1..(l * h) : cell(n) = pair
  <2>1. PICK i \in DOMAIN nodes, j \in DOMAIN nodes :
          /\ Levels[nodes[i].type] <= 2 /\ Levels[nodes[j].type] >= 4
          /\ pair = <<nodes[i].id, nodes[j].id>>
    BY <1>6 DEF LowHigh
  <2>2. i \in lowAt /\ j \in highAt
    BY <1>3, <2>1
  <2>3. PICK a \in 1..l : low[a] = nodes[i]
    BY <1>4, <2>2
  <2>4. PICK b \in 1..h : high[b] = nodes[j]
    BY <1>4, <2>2
  <2>5. PICK n \in 1..(l * h) : IsCell(n, h, a, b)
    BY <1>2, CellAt
  <2>6. cell(n) = pair
    BY <2>1, <2>3, <2>4, <2>5 DEF IsCell
  <2> QED
    BY <2>6
<1> HIDE DEF cell
<1>7. l * h \in Nat
  BY <1>2
<1>8. all \in Seq(Ids \X Ids) /\ DOMAIN all = 1..(l * h) /\ \A n \in 1..(l * h) : all[n] = cell(n)
  BY <1>1, <1>5, <1>7
<1>9. kept \in SUBSET DOMAIN all
  OBVIOUS
<1>10. ps \in Seq(Ids \X Ids) /\ Holds(ps, all, kept)
  BY <1>8, <1>9, FilteredHolds
<1>11. ASSUME NEW n \in 1..Len(ps) PROVE LowHigh(ps[n], nodes)
  <2>1. PICK k \in kept : ps[n] = all[k]
    BY <1>10 DEF Holds
  <2> QED
    BY <1>5, <1>8, <2>1
<1>12. ASSUME NEW pair \in Ids \X Ids, LowHigh(pair, nodes), pair[1] # pair[2]
       PROVE  \E n \in 1..Len(ps) : ps[n] = pair
  <2>1. PICK k \in 1..(l * h) : cell(k) = pair
    BY <1>6, <1>12
  <2>2. k \in kept /\ all[k] = pair
    BY <1>8, <1>12, <2>1
  <2>3. PICK n \in 1..Len(ps) : ps[n] = all[k]
    BY <1>10, <2>2 DEF Holds
  <2> QED
    BY <2>2, <2>3
<1> QED
  BY <1>10, <1>11, <1>12 DEF all

-----------------------------------------------------------------------------
(* The inductive invariant: s is the search, ns the nodes and es the edges *)

Searches == [at : {"idle", "running", "done"}, kind : {"none", "paths", "targeted", "chains"},
             pairs : Seq(Ids \X Ids), queue : Seq(Path(Links)), found : Seq(Path(Links)),
             depth : Nat, cap : Nat, asked : SUBSET (Ids \X Ids)]

\* The edges a search may follow.
EdgeSet(s, es) == {e \in Range(es) : s.kind = "chains" => e.relationship \in Followed}

\* The pairs a search was asked for, and the nodes that may be its target.
AskedFor(pair, s, ns) == IF s.kind = "chains" THEN LowHigh(pair, ns) ELSE pair \in s.asked
Targets(s) == IF s.kind = "chains" THEN Ids ELSE {pair[2] : pair \in s.asked}
Parallel(es, x, y) == {e \in Range(es) : e.from = x /\ e.to = y}

QueueOK(s, es) ==
  \A k \in 1..Len(s.queue) : /\ Trail(s.queue[k], EdgeSet(s, es))
                             /\ s.pairs # <<>> /\ s.queue[k].src = s.pairs[1][1]
IsFound(p, s, ns, es) ==
  /\ Trail(p, EdgeSet(s, es)) /\ 1 <= Len(p.edges) /\ Len(p.edges) <= s.depth
  /\ AskedFor(<<p.src, endOf(p)>>, s, ns)
FoundOK(s, ns, es) == \A k \in 1..Len(s.found) : IsFound(s.found[k], s, ns, es)
PairsOK(s, ns) == \A k \in 1..Len(s.pairs) : AskedFor(s.pairs[k], s, ns)
ShapeOK(s) == (s.at = "idle" => s = Idle) /\ (s.at = "done" => s.pairs = <<>>)

\* A pair that is no longer waiting has all its paths found; each path of the
\* pair being searched is found or some path of the queue is on the way to it.
Reached(q, s) == \E k \in 1..Len(s.found) : Walk(s.found[k]) = q
Awaited(pair, s) == \E k \in 1..Len(s.pairs) : s.pairs[k] = pair
Complete(pair, s, es) == \A q \in Simple(pair[1], pair[2], EdgeSet(s, es), s.depth) : Reached(q, s)
AllCovered(s, ns, es) ==
  \A pair \in Ids \X Ids : AskedFor(pair, s, ns) => Awaited(pair, s) \/ Complete(pair, s, es)
HeadCovered(s, es) ==
  s.pairs # <<>> =>
    \A q \in Simple(s.pairs[1][1], s.pairs[1][2], EdgeSet(s, es), s.depth) :
      Reached(q, s) \/ \E k \in 1..Len(s.queue) : OnTheWay(s.queue[k], q)
CoverOK(s, ns, es) == Len(s.found) < s.cap => AllCovered(s, ns, es) /\ HeadCovered(s, es)

\* Only the edges between one node and one target can have exceeded the cap.
CapOK(s, es) ==
  \/ Len(s.found) <= s.cap
  \/ \E x \in Ids, y \in Targets(s) : Len(s.found) <= s.cap - 1 + Cardinality(Parallel(es, x, y))

SearchOK(s, ns, es) ==
  /\ s \in Searches /\ ShapeOK(s) /\ QueueOK(s, es) /\ FoundOK(s, ns, es) /\ PairsOK(s, ns)
  /\ CoverOK(s, ns, es) /\ CapOK(s, es)

EdgesOnce(es) == \A i, j \in DOMAIN es : es[i] = es[j] => i = j

GraphInv ==
  /\ nodes \in Seq(Node) /\ edges \in Seq(Links) /\ EdgesOnce(edges) /\ edits \in Nat
  /\ SearchOK(search, nodes, edges)

LEMMA EdgeSetLinks ==
  ASSUME NEW s, NEW es \in Seq(Links) PROVE EdgeSet(s, es) \in SUBSET Links
<1>1. Range(es) \subseteq Links
  BY DEF Range
<1> QED
  BY <1>1 DEF EdgeSet

\* No search.
LEMMA IdleFields ==
  /\ Idle.at = "idle" /\ Idle.kind = "none" /\ Idle.pairs = <<>> /\ Idle.queue = <<>>
  /\ Idle.found = <<>> /\ Idle.depth = 0 /\ Idle.cap = 0 /\ Idle.asked = {}
BY DEF Idle

LEMMA IdleOK ==
  ASSUME NEW ns, NEW es PROVE SearchOK(Idle, ns, es)
<1>1. Idle \in Searches
  BY DEF Idle, Searches
<1>2. Len(Idle.pairs) = 0 /\ Len(Idle.queue) = 0 /\ Len(Idle.found) = 0 /\ Idle.cap = 0
  BY IdleFields
<1>3. ShapeOK(Idle)
  BY IdleFields DEF ShapeOK
<1>4. \A k : k \notin 1..0
  OBVIOUS
<1>5. QueueOK(Idle, es) /\ FoundOK(Idle, ns, es) /\ PairsOK(Idle, ns)
  BY <1>2, <1>4 DEF QueueOK, FoundOK, PairsOK
<1>6. CoverOK(Idle, ns, es) /\ CapOK(Idle, es)
  BY <1>2 DEF CoverOK, CapOK
<1> QED
  BY <1>1, <1>3, <1>5, <1>6 DEF SearchOK

\* A search that has just been started.
Begun(kind, pairs, asked, depth, cap) ==
  [at |-> "running", kind |-> kind, pairs |-> pairs, queue |-> startQueue(pairs),
   found |-> <<>>, depth |-> depth, cap |-> cap, asked |-> asked]

LEMMA StartQueueIs ==
  ASSUME NEW pairs \in Seq(Ids \X Ids)
  PROVE  /\ startQueue(pairs) \in Seq(Path({}))
         /\ \A k \in 1..Len(startQueue(pairs)) : /\ pairs # <<>>
                                                 /\ startQueue(pairs)[k] = [src |-> pairs[1][1], edges |-> <<>>]
         /\ pairs # <<>> => 1 \in 1..Len(startQueue(pairs)) /\ pairs[1] \in Ids \X Ids
<1>1. CASE pairs = <<>>
  <2>1. startQueue(pairs) = <<>>
    BY <1>1 DEF startQueue
  <2>2. <<>> \in Seq(Path({}))
    OBVIOUS
  <2>3. \A k : k \notin 1..Len(<<>>)
    OBVIOUS
  <2> QED
    BY <1>1, <2>1, <2>2, <2>3
<1>2. CASE pairs # <<>>
  <2> DEFINE p == [src |-> Head(pairs)[1], edges |-> <<>>]
  <2>1. pairs[1] \in Ids \X Ids /\ Head(pairs) = pairs[1]
    BY <1>2
  <2>2. p \in Path({})
    BY <2>1 DEF Path
  <2>3. startQueue(pairs) = <<p>>
    BY <1>2 DEF startQueue
  <2>4. p = [src |-> pairs[1][1], edges |-> <<>>]
    BY <2>1
  <2> HIDE DEF p
  <2>5. <<p>> \in Seq(Path({})) /\ Len(<<p>>) = 1 /\ \A k \in 1..1 : <<p>>[k] = p
    BY <2>2
  <2> QED
    BY <1>2, <2>1, <2>3, <2>4, <2>5
<1> QED
  BY <1>1, <1>2

\* The empty path is a trail.
LEMMA EmptyTrail ==
  ASSUME NEW a \in Ids, NEW E \in SUBSET Links, NEW p, p = [src |-> a, edges |-> <<>>]
  PROVE  Trail(p, E) /\ p.src = a
<1>1. p \in Path(E) /\ p.src = a /\ Len(p.edges) = 0
  BY DEF Path
<1>2. (\A k : k \notin 1..0) /\ \A i, j \in 1..(0 + 1) : i = j
  OBVIOUS
<1> QED
  BY <1>1, <1>2 DEF Trail

\* The queue a pair starts with is on the way to all its paths.
LEMMA FreshQueue ==
  ASSUME NEW s \in Searches, NEW es \in Seq(Links), s.queue = startQueue(s.pairs)
  PROVE  QueueOK(s, es) /\ HeadCovered(s, es)
<1> DEFINE E == EdgeSet(s, es)
           sq == startQueue(s.pairs)
<1>1. E \in SUBSET Links
  BY EdgeSetLinks
<1>2. s.pairs \in Seq(Ids \X Ids) /\ s.depth \in Nat
  BY DEF Searches
<1>3. /\ \A k \in 1..Len(sq) : s.pairs # <<>> /\ sq[k] = [src |-> s.pairs[1][1], edges |-> <<>>]
      /\ s.pairs # <<>> => 1 \in 1..Len(sq) /\ s.pairs[1] \in Ids \X Ids
  BY <1>2, StartQueueIs
<1> HIDE DEF E, sq
<1>4. ASSUME NEW k \in 1..Len(sq)
      PROVE  Trail(sq[k], E) /\ s.pairs # <<>> /\ sq[k].src = s.pairs[1][1]
  <2>1. s.pairs # <<>> /\ sq[k] = [src |-> s.pairs[1][1], edges |-> <<>>] /\ s.pairs[1][1] \in Ids
    BY <1>3
  <2> QED
    BY <1>1, <2>1, EmptyTrail
<1>5. ASSUME s.pairs # <<>>, NEW q \in Simple(s.pairs[1][1], s.pairs[1][2], E, s.depth)
      PROVE  \E k \in 1..Len(sq) : OnTheWay(sq[k], q)
  <2>1. 1 \in 1..Len(sq) /\ sq[1] = [src |-> s.pairs[1][1], edges |-> <<>>] /\ s.pairs[1][1] \in Ids
    BY <1>3, <1>5
  <2>2. OnTheWay(sq[1], q)
    BY <1>1, <1>2, <1>5, <2>1, StartOnTheWay
  <2> QED
    BY <2>1, <2>2
<1>6. s.queue = sq
  BY DEF sq
<1>7. QueueOK(s, es)
  BY <1>4, <1>6 DEF QueueOK, E
<1>8. HeadCovered(s, es)
  BY <1>5, <1>6 DEF HeadCovered, E
<1> QED
  BY <1>7, <1>8

\* The pairs to search are the ones asked for, but for pairs of equal ends.
RightPairs(pairs, s, ns) ==
  /\ \A k \in 1..Len(pairs) : AskedFor(pairs[k], s, ns)
  /\ \A pair \in Ids \X Ids : AskedFor(pair, s, ns) /\ pair[1] # pair[2]
                                => \E k \in 1..Len(pairs) : pairs[k] = pair

LEMMA BegunOK ==
  ASSUME NEW ns, NEW es \in Seq(Links), NEW kind \in {"paths", "targeted", "chains"},
         NEW pairs \in Seq(Ids \X Ids), NEW asked \in SUBSET (Ids \X Ids),
         NEW depth \in Nat, NEW cap \in Nat \ {0}, NEW s, s = Begun(kind, pairs, asked, depth, cap),
         RightPairs(pairs, s, ns)
  PROVE  SearchOK(s, ns, es)
<1>1. startQueue(pairs) \in Seq(Path(Links))
  <2>1. startQueue(pairs) \in Seq(Path({}))
    BY StartQueueIs
  <2>2. Path({}) \subseteq Path(Links)
    BY DEF Path
  <2> QED
    BY <2>1, <2>2
<1>2. /\ s.at = "running" /\ s.kind = kind /\ s.pairs = pairs /\ s.queue = startQueue(pairs)
      /\ s.found = <<>> /\ s.depth = depth /\ s.cap = cap /\ s.asked = asked
  BY DEF Begun
<1>3. s \in Searches
  <2>1. <<>> \in Seq(Path(Links))
    OBVIOUS
  <2> QED
    BY <1>1, <2>1 DEF Begun, Searches
<1>4. ShapeOK(s)
  BY <1>2 DEF ShapeOK
<1>5. QueueOK(s, es) /\ HeadCovered(s, es)
  BY <1>2, <1>3, FreshQueue
<1>6. Len(s.found) = 0
  BY <1>2
<1>7. \A k : k \notin 1..0
  OBVIOUS
<1>8. FoundOK(s, ns, es)
  BY <1>6, <1>7 DEF FoundOK
<1>9. PairsOK(s, ns)
  BY <1>2 DEF PairsOK, RightPairs
<1>10. CapOK(s, es)
  BY <1>2, <1>6 DEF CapOK
<1>11. AllCovered(s, ns, es)
  <2> SUFFICES ASSUME NEW pair \in Ids \X Ids, AskedFor(pair, s, ns)
               PROVE  Awaited(pair, s) \/ Complete(pair, s, es)
    BY DEF AllCovered
  <2>1. CASE pair[1] # pair[2]
    BY <1>2, <2>1 DEF Awaited, RightPairs
  <2>2. CASE pair[1] = pair[2]
    <3>1. Simple(pair[1], pair[1], EdgeSet(s, es), depth) = {}
      BY NoLoop
    <3> QED
      BY <1>2, <2>2, <3>1 DEF Complete
  <2> QED
    BY <2>1, <2>2
<1>12. CoverOK(s, ns, es)
  BY <1>5, <1>11 DEF CoverOK
<1> QED
  BY <1>3, <1>4, <1>5, <1>8, <1>9, <1>10, <1>12 DEF SearchOK

\* NextPair: the pair being searched is complete or the cap is reached.
LEMMA NextPairOK ==
  ASSUME NEW ns, NEW es \in Seq(Links), NEW s, SearchOK(s, ns, es),
         s.at = "running", s.queue = <<>> \/ Len(s.found) >= s.cap,
         NEW rest, rest = IF s.pairs = <<>> THEN <<>> ELSE Tail(s.pairs),
         NEW t, t = [s EXCEPT !.pairs = rest, !.queue = startQueue(rest),
                              !.at = IF rest = <<>> THEN "done" ELSE "running"]
  PROVE  SearchOK(t, ns, es)
<1>1. s \in Searches
  BY DEF SearchOK
<1>2. s.pairs \in Seq(Ids \X Ids) /\ s.found \in Seq(Path(Links)) /\ s.depth \in Nat /\ s.cap \in Nat
  BY <1>1 DEF Searches
<1>3. rest \in Seq(Ids \X Ids)
  <2>1. <<>> \in Seq(Ids \X Ids)
    OBVIOUS
  <2> QED
    BY <1>2, <2>1
<1>4. startQueue(rest) \in Seq(Path(Links))
  <2>1. startQueue(rest) \in Seq(Path({}))
    BY <1>3, StartQueueIs
  <2>2. Path({}) \subseteq Path(Links)
    BY DEF Path
  <2> QED
    BY <2>1, <2>2
<1>5. /\ t.at = (IF rest = <<>> THEN "done" ELSE "running") /\ t.pairs = rest
      /\ t.queue = startQueue(rest) /\ t.kind = s.kind /\ t.found = s.found /\ t.depth = s.depth
      /\ t.cap = s.cap /\ t.asked = s.asked
  BY <1>1 DEF Searches
<1>6. t \in Searches
  BY <1>1, <1>3, <1>4 DEF Searches
<1>7. ShapeOK(t)
  BY <1>5 DEF ShapeOK
<1>8. QueueOK(t, es) /\ HeadCovered(t, es)
  BY <1>5, <1>6, FreshQueue
<1>9. /\ EdgeSet(t, es) = EdgeSet(s, es) /\ Targets(t) = Targets(s)
      /\ \A pair : AskedFor(pair, t, ns) <=> AskedFor(pair, s, ns)
  BY <1>5 DEF EdgeSet, Targets, AskedFor
<1>10. FoundOK(t, ns, es) /\ CapOK(t, es)
  BY <1>5, <1>9 DEF SearchOK, FoundOK, IsFound, CapOK
\* The pairs that wait are those that waited, but for the first.
<1>11. /\ Len(rest) \in Nat /\ \A k \in 1..Len(rest) : k + 1 \in 1..Len(s.pairs) /\ rest[k] = s.pairs[k + 1]
       /\ \A k \in 1..Len(s.pairs) : s.pairs # <<>> /\ (k = 1 \/ (k - 1 \in 1..Len(rest) /\ rest[k - 1] = s.pairs[k]))
  <2>1. CASE s.pairs = <<>>
    <3>1. Len(s.pairs) = 0 /\ rest = s.pairs
      BY <2>1
    <3> QED
      BY <3>1
  <2>2. CASE s.pairs # <<>>
    <3>1. rest = Tail(s.pairs)
      BY <2>2
    <3>2. /\ Len(rest) = Len(s.pairs) - 1 /\ Len(s.pairs) \in Nat /\ Len(rest) \in Nat
          /\ \A k \in 1..Len(rest) : rest[k] = s.pairs[k + 1]
      BY <1>2, <2>2, <3>1
    <3>3. \A k \in 1..Len(rest) : k + 1 \in 1..Len(s.pairs)
      BY <3>2
    <3>4. ASSUME NEW k \in 1..Len(s.pairs), k # 1
          PROVE  k - 1 \in 1..Len(rest) /\ rest[k - 1] = s.pairs[k]
      <4>1. k - 1 \in 1..Len(rest) /\ (k - 1) + 1 = k
        BY <3>2, <3>4
      <4> QED
        BY <3>2, <4>1
    <3> QED
      BY <2>2, <3>2, <3>3, <3>4
  <2> QED
    BY <2>1, <2>2
<1>12. PairsOK(t, ns)
  <2>1. \A k \in 1..Len(s.pairs) : AskedFor(s.pairs[k], s, ns)
    BY DEF SearchOK, PairsOK
  <2>2. ASSUME NEW k \in 1..Len(rest) PROVE AskedFor(rest[k], t, ns)
    <3>1. AskedFor(s.pairs[k + 1], s, ns) /\ rest[k] = s.pairs[k + 1]
      BY <1>11, <2>1
    <3> QED
      BY <1>9, <3>1
  <2> QED
    BY <1>5, <2>2 DEF PairsOK
<1>13. ASSUME Len(s.found) < s.cap PROVE AllCovered(t, ns, es)
  <2>1. AllCovered(s, ns, es) /\ HeadCovered(s, es)
    BY <1>13 DEF SearchOK, CoverOK
  <2>2. \A k : k \notin 1..Len(s.queue)
    <3>1. s.queue = <<>>
      BY <1>2, <1>13
    <3> QED
      BY <3>1
  <2>3. s.pairs # <<>> => Complete(s.pairs[1], s, es)
    BY <2>1, <2>2 DEF HeadCovered, Complete
  <2>4. \A pair : Complete(pair, s, es) <=> Complete(pair, t, es)
    BY <1>5, <1>9 DEF Complete, Reached
  <2> SUFFICES ASSUME NEW pair \in Ids \X Ids, AskedFor(pair, t, ns)
               PROVE  Awaited(pair, t) \/ Complete(pair, s, es)
    BY <2>4 DEF AllCovered
  <2>5. Awaited(pair, s) \/ Complete(pair, s, es)
    BY <1>9, <2>1 DEF AllCovered
  <2>6. ASSUME NEW k \in 1..Len(s.pairs), s.pairs[k] = pair
        PROVE  Awaited(pair, t) \/ Complete(pair, s, es)
    <3>1. CASE k = 1
      BY <1>11, <2>3, <2>6, <3>1
    <3>2. CASE k - 1 \in 1..Len(rest) /\ rest[k - 1] = s.pairs[k]
      BY <1>5, <2>6, <3>2 DEF Awaited
    <3> QED
      BY <1>11, <3>1, <3>2
  <2> QED
    BY <2>5, <2>6 DEF Awaited
<1>14. CoverOK(t, ns, es)
  BY <1>5, <1>8, <1>13 DEF CoverOK
<1> QED
  BY <1>6, <1>7, <1>8, <1>10, <1>12, <1>14 DEF SearchOK

\* A list and another behind it hold what either holds.
Has(s, x) == \E k \in 1..Len(s) : s[k] = x

LEMMA Concatenated ==
  ASSUME NEW S, NEW a \in Seq(S), NEW b \in Seq(S)
  PROVE  /\ a \o b \in Seq(S) /\ Len(a \o b) = Len(a) + Len(b) /\ Len(a) \in Nat /\ Len(b) \in Nat
         /\ \A x : Has(a \o b, x) <=> Has(a, x) \/ Has(b, x)
<1> DEFINE u == a \o b
<1>1. /\ u \in Seq(S) /\ Len(u) = Len(a) + Len(b) /\ Len(a) \in Nat /\ Len(b) \in Nat
      /\ \A k \in 1..Len(a) : u[k] = a[k]
      /\ \A k \in 1..Len(b) : u[Len(a) + k] = b[k]
  OBVIOUS
<1> HIDE DEF u
<1>2. ASSUME NEW x, NEW k \in 1..Len(u), u[k] = x PROVE Has(a, x) \/ Has(b, x)
  <2>1. CASE k \in 1..Len(a)
    BY <1>1, <1>2, <2>1 DEF Has
  <2>2. CASE k \notin 1..Len(a)
    <3>1. k - Len(a) \in 1..Len(b) /\ Len(a) + (k - Len(a)) = k
      BY <1>1, <2>2
    <3> QED
      BY <1>1, <1>2, <3>1 DEF Has
  <2> QED
    BY <2>1, <2>2
<1>3. ASSUME NEW k \in 1..Len(a) PROVE Has(u, a[k])
  <2>1. k \in 1..Len(u)
    BY <1>1
  <2> QED
    BY <1>1, <2>1 DEF Has
<1>4. ASSUME NEW k \in 1..Len(b) PROVE Has(u, b[k])
  <2>1. Len(a) + k \in 1..Len(u)
    BY <1>1
  <2> QED
    BY <1>1, <2>1 DEF Has
<1>5. \A x : Has(u, x) <=> Has(a, x) \/ Has(b, x)
  BY <1>2, <1>3, <1>4 DEF Has
<1> QED
  BY <1>1, <1>5 DEF u

LEMMA TailHolds ==
  ASSUME NEW S, NEW a \in Seq(S), a # <<>>
  PROVE  /\ Tail(a) \in Seq(S) /\ Head(a) = a[1] /\ Has(a, a[1])
         /\ \A x : Has(a, x) <=> x = a[1] \/ Has(Tail(a), x)
<1> DEFINE u == Tail(a)
<1>1. /\ u \in Seq(S) /\ Head(a) = a[1] /\ Len(u) = Len(a) - 1 /\ Len(a) \in Nat /\ Len(u) \in Nat
      /\ 1 \in 1..Len(a) /\ \A k \in 1..Len(u) : u[k] = a[k + 1]
  OBVIOUS
<1> HIDE DEF u
<1>2. ASSUME NEW k \in 1..Len(u) PROVE Has(a, u[k])
  <2>1. k + 1 \in 1..Len(a)
    BY <1>1
  <2> QED
    BY <1>1, <2>1 DEF Has
<1>3. ASSUME NEW k \in 1..Len(a), k # 1 PROVE Has(u, a[k])
  <2>1. k - 1 \in 1..Len(u) /\ (k - 1) + 1 = k
    BY <1>1, <1>3
  <2>2. u[k - 1] = a[k]
    BY <1>1, <2>1
  <2> QED
    BY <2>1, <2>2 DEF Has
<1>4. Has(a, a[1])
  BY <1>1 DEF Has
<1>5. \A x : Has(a, x) <=> x = a[1] \/ Has(u, x)
  BY <1>2, <1>3, <1>4 DEF Has
<1> QED
  BY <1>1, <1>4, <1>5 DEF u

\* The positions a dequeued path may be extended by are those of the edges it may
\* follow to a node it has not visited.
LEMMA ExtensionsAre ==
  ASSUME edges \in Seq(Links), NEW p
  PROVE  /\ extensions(p) \in SUBSET DOMAIN edges
         /\ \A k \in extensions(p) : /\ edges[k] \in EdgeSet(search, edges)
                                     /\ edges[k].from = endOf(p) /\ edges[k].to \notin visited(p)
         /\ \A e \in EdgeSet(search, edges) :
              e.from = endOf(p) /\ e.to \notin visited(p) => \E k \in extensions(p) : edges[k] = e
<1>1. ASSUME NEW k \in extensions(p)
      PROVE  /\ k \in DOMAIN edges /\ edges[k] \in EdgeSet(search, edges)
             /\ edges[k].from = endOf(p) /\ edges[k].to \notin visited(p)
  BY DEF extensions, adjacency, follows, EdgeSet, Range
<1>2. ASSUME NEW e \in EdgeSet(search, edges), e.from = endOf(p), e.to \notin visited(p)
      PROVE  \E k \in extensions(p) : edges[k] = e
  <2>1. PICK k \in DOMAIN edges : edges[k] = e
    BY DEF EdgeSet, Range
  <2>2. k \in extensions(p)
    BY <1>2, <2>1 DEF extensions, adjacency, follows, EdgeSet
  <2> QED
    BY <2>1, <2>2
<1> QED
  BY <1>1, <1>2

\* The edges between two nodes are finitely many, and a set of positions of such
\* edges has no more elements.
LEMMA ParallelCount ==
  ASSUME NEW es \in Seq(Links), EdgesOnce(es), NEW x, NEW y,
         NEW K \in SUBSET DOMAIN es, \A k \in K : es[k].from = x /\ es[k].to = y
  PROVE  /\ Cardinality(K) \in Nat /\ Cardinality(Parallel(es, x, y)) \in Nat
         /\ Cardinality(K) <= Cardinality(Parallel(es, x, y))
         /\ Cardinality(Parallel(es, x, y)) <= Cardinality(Range(es)) /\ Cardinality(Range(es)) \in Nat
<1> DEFINE P == Parallel(es, x, y)
           R == Range(es)
<1>1. IsFiniteSet(DOMAIN es)
  <2>1. DOMAIN es = 1..Len(es) /\ Len(es) \in Nat
    OBVIOUS
  <2> QED
    BY <2>1, FS_Interval
<1>2. IsFiniteSet(R)
  <2>1. es \in Surjection(DOMAIN es, R)
    BY DEF Surjection, Range
  <2> QED
    BY <1>1, <2>1, FS_Surjection
<1>3. P \in SUBSET R
  BY DEF Parallel
<1>4. IsFiniteSet(P) /\ Cardinality(P) <= Cardinality(R)
  BY <1>2, <1>3, FS_Subset
<1>5. IsFiniteSet(K)
  BY <1>1, FS_Subset
<1> DEFINE f == [k \in K |-> es[k]]
<1>6. f \in Injection(K, P)
  <2>1. \A k \in K : es[k] \in P
    BY DEF Parallel, Range
  <2>2. f \in [K -> P]
    BY <2>1
  <2>3. IsInjective(f)
    BY DEF IsInjective, EdgesOnce
  <2> QED
    BY <2>2, <2>3 DEF Injection
<1> HIDE DEF f, P, R
<1>7. Cardinality(K) <= Cardinality(P)
  BY <1>4, <1>6, FS_Injection
<1> QED
  BY <1>2, <1>4, <1>5, <1>7, FS_CardinalityType DEF P, R

\* Dequeue: the extensions of the first path of the queue take its place.
LEMMA DequeueOK ==
  ASSUME GraphInv, Dequeue
  PROVE  SearchOK(search', nodes, edges)
<1> DEFINE s == search
           t == search'
           E == EdgeSet(s, edges)
           p == Head(s.queue)
           exts == IF mayExtend(p) THEN extensions(p) ELSE {}
           hitAt == reaching(exts)
           restAt == {k \in exts : edges[k].to # Target /\ mayExtend(extended(p, edges[k]))}
           hits == extendBy(p, hitAt)
           rest == extendBy(p, restAt)
<1>1. /\ s.at = "running" /\ s.queue # <<>> /\ Len(s.found) < s.cap
      /\ t = [s EXCEPT !.queue = Tail(s.queue) \o rest, !.found = s.found \o hits]
  BY DEF Dequeue
<1>2. edges \in Seq(Links) /\ EdgesOnce(edges) /\ nodes \in Seq(Node) /\ SearchOK(s, nodes, edges)
  BY DEF GraphInv
<1>3. s \in Searches
  BY <1>2 DEF SearchOK
<1>4. /\ s.pairs \in Seq(Ids \X Ids) /\ s.found \in Seq(Path(Links)) /\ s.queue \in Seq(Path(Links))
      /\ s.depth \in Nat /\ s.cap \in Nat
  BY <1>3 DEF Searches
<1>5. /\ Tail(s.queue) \in Seq(Path(Links)) /\ p = s.queue[1] /\ Has(s.queue, p)
      /\ \A x : Has(s.queue, x) <=> x = p \/ Has(Tail(s.queue), x)
  BY <1>1, <1>4, TailHolds
<1>6. E \in SUBSET Links
  BY <1>2, EdgeSetLinks
<1>7. \A x : Has(s.queue, x) => Trail(x, E) /\ s.pairs # <<>> /\ x.src = s.pairs[1][1]
  BY <1>2 DEF SearchOK, QueueOK, Has
<1>8. Trail(p, E) /\ s.pairs # <<>> /\ p.src = s.pairs[1][1] /\ p \in Path(Links)
  <2>1. p \in Path(Links)
    BY <1>4, <1>5 DEF Has
  <2> QED
    BY <1>5, <1>7, <2>1
<1>9. s.pairs[1] \in Ids \X Ids /\ Source = s.pairs[1][1] /\ Target = s.pairs[1][2] /\ 1 \in 1..Len(s.pairs)
  BY <1>4, <1>8 DEF Source, Target
<1>10. /\ exts \in SUBSET DOMAIN edges
       /\ \A k \in exts : /\ edges[k] \in E /\ edges[k].from = endOf(p)
                          /\ edges[k].to \notin visited(p) /\ Len(p.edges) < s.depth
  BY <1>2, ExtensionsAre DEF mayExtend
<1>11. ASSUME NEW e \in E, e.from = endOf(p), e.to \notin visited(p), Len(p.edges) < s.depth
       PROVE  \E k \in exts : edges[k] = e
  <2>1. \E k \in extensions(p) : edges[k] = e
    BY <1>2, <1>11, ExtensionsAre
  <2> QED
    BY <1>11, <2>1 DEF mayExtend
<1>12. hitAt \in SUBSET DOMAIN edges /\ restAt \in SUBSET DOMAIN edges
  BY <1>10 DEF reaching
<1>13. /\ hits \in Seq(Path(Links)) /\ Extends(hits, p, hitAt)
       /\ rest \in Seq(Path(Links)) /\ Extends(rest, p, restAt)
  BY <1>2, <1>8, <1>12, ExtendByHolds
<1>14. /\ \A k \in hitAt : k \in exts /\ edges[k].to = Target
       /\ \A k \in restAt : k \in exts /\ edges[k].to # Target
       /\ \A k \in exts : /\ (edges[k].to = Target => k \in hitAt)
                          /\ (edges[k].to # Target /\ Len(extended(p, edges[k]).edges) < s.depth => k \in restAt)
  BY DEF mayExtend, reaching
<1> HIDE DEF s, t, E, p, exts, hitAt, restAt, hits, rest
<1>15. /\ \A x : Has(hits, x) <=> \E k \in hitAt : x = extended(p, edges[k])
       /\ \A x : Has(rest, x) <=> \E k \in restAt : x = extended(p, edges[k])
  BY <1>13 DEF Extends, Has
<1> DEFINE queue2 == Tail(s.queue) \o rest
           found2 == s.found \o hits
<1>16. queue2 \in Seq(Path(Links)) /\ \A x : Has(queue2, x) <=> Has(Tail(s.queue), x) \/ Has(rest, x)
  BY <1>5, <1>13, Concatenated
<1>17. /\ found2 \in Seq(Path(Links)) /\ Len(found2) = Len(s.found) + Len(hits)
       /\ Len(s.found) \in Nat /\ Len(hits) \in Nat
       /\ \A x : Has(found2, x) <=> Has(s.found, x) \/ Has(hits, x)
  BY <1>4, <1>13, Concatenated
<1>18. t = [s EXCEPT !.queue = queue2, !.found = found2]
  BY <1>1
<1> HIDE DEF queue2, found2
<1>19. /\ t.at = s.at /\ t.kind = s.kind /\ t.pairs = s.pairs /\ t.queue = queue2 /\ t.found = found2
       /\ t.depth = s.depth /\ t.cap = s.cap /\ t.asked = s.asked /\ t \in Searches
  BY <1>3, <1>16, <1>17, <1>18 DEF Searches
<1>20. /\ EdgeSet(t, edges) = E /\ Targets(t) = Targets(s)
       /\ \A pair : AskedFor(pair, t, nodes) <=> AskedFor(pair, s, nodes)
  BY <1>19 DEF EdgeSet, Targets, AskedFor, E
<1>21. ShapeOK(t) /\ PairsOK(t, nodes)
  BY <1>1, <1>2, <1>19, <1>20 DEF ShapeOK, PairsOK, SearchOK
\* Every extension is a trail from the same source.
<1>22. ASSUME NEW k \in exts
       PROVE  LET q == extended(p, edges[k])
              IN  /\ Trail(q, E) /\ q.src = s.pairs[1][1] /\ endOf(q) = edges[k].to
                  /\ 1 <= Len(q.edges) /\ Len(q.edges) <= s.depth
  <2> DEFINE q == extended(p, edges[k])
  <2>1. edges[k] \in E /\ edges[k].from = endOf(p) /\ edges[k].to \notin visited(p) /\ Len(p.edges) < s.depth
    BY <1>10
  <2>2. /\ Trail(q, E) /\ q.src = p.src /\ Len(q.edges) = Len(p.edges) + 1 /\ endOf(q) = edges[k].to
    BY <1>6, <1>8, <2>1, TrailGrows
  <2>3. Len(p.edges) \in Nat
    BY <1>6, <1>8, WalkIs DEF Trail
  <2> HIDE DEF q
  <2>4. 1 <= Len(q.edges) /\ Len(q.edges) <= s.depth
    BY <1>4, <2>1, <2>2, <2>3
  <2> QED
    BY <1>8, <2>2, <2>4 DEF q
<1>23. QueueOK(t, edges)
  <2>1. ASSUME NEW x, Has(queue2, x) PROVE Trail(x, E) /\ s.pairs # <<>> /\ x.src = s.pairs[1][1]
    BY <1>5, <1>7, <1>8, <1>14, <1>15, <1>16, <1>22, <2>1
  <2> QED
    BY <1>19, <1>20, <2>1 DEF QueueOK, Has
<1>24. FoundOK(t, nodes, edges)
  <2>1. ASSUME NEW x, Has(s.found, x) PROVE IsFound(x, t, nodes, edges)
    <3>1. IsFound(x, s, nodes, edges)
      BY <1>2, <2>1 DEF SearchOK, FoundOK, Has
    <3> QED
      BY <1>19, <1>20, <3>1 DEF IsFound, E
  <2>2. ASSUME NEW k \in hitAt PROVE IsFound(extended(p, edges[k]), t, nodes, edges)
    <3> DEFINE q == extended(p, edges[k])
    <3>1. /\ Trail(q, E) /\ q.src = s.pairs[1][1] /\ endOf(q) = edges[k].to /\ edges[k].to = Target
          /\ 1 <= Len(q.edges) /\ Len(q.edges) <= s.depth
      BY <1>14, <1>22
    <3> HIDE DEF q
    <3>2. <<q.src, endOf(q)>> = s.pairs[1]
      BY <1>9, <3>1
    <3>3. AskedFor(s.pairs[1], s, nodes)
      BY <1>2, <1>9 DEF SearchOK, PairsOK
    <3>4. AskedFor(<<q.src, endOf(q)>>, t, nodes)
      BY <1>20, <3>2, <3>3
    <3>5. IsFound(q, t, nodes, edges)
      BY <1>19, <1>20, <3>1, <3>4 DEF IsFound
    <3> QED
      BY <3>5 DEF q
  <2>3. ASSUME NEW x, Has(found2, x) PROVE IsFound(x, t, nodes, edges)
    BY <1>15, <1>17, <2>1, <2>2, <2>3
  <2> QED
    BY <1>19, <2>3 DEF FoundOK, Has
<1>25. AllCovered(s, nodes, edges) /\ HeadCovered(s, edges)
  BY <1>1, <1>2 DEF SearchOK, CoverOK, s
<1>26. /\ \A q : Reached(q, s) <=> \E x : Has(s.found, x) /\ Walk(x) = q
       /\ \A q : Reached(q, t) <=> \E x : Has(found2, x) /\ Walk(x) = q
  BY <1>19 DEF Reached, Has
<1>27. \A q : Reached(q, s) => Reached(q, t)
  BY <1>17, <1>26
<1>28. AllCovered(t, nodes, edges)
  <2>1. \A pair : (Awaited(pair, s) => Awaited(pair, t)) /\ (Complete(pair, s, edges) => Complete(pair, t, edges))
    BY <1>19, <1>20, <1>27 DEF Awaited, Complete, E
  <2> QED
    BY <1>20, <1>25, <2>1 DEF AllCovered
<1>29. HeadCovered(t, edges)
  <2> SUFFICES ASSUME NEW q \in Simple(s.pairs[1][1], s.pairs[1][2], E, s.depth)
               PROVE  Reached(q, t) \/ \E x : Has(queue2, x) /\ OnTheWay(x, q)
    BY <1>19, <1>20 DEF HeadCovered, Has
  <2>1. Reached(q, s) \/ \E x : Has(s.queue, x) /\ OnTheWay(x, q)
    BY <1>8, <1>25 DEF HeadCovered, Has, E
  <2>2. CASE Reached(q, s)
    BY <1>27, <2>2
  <2>3. ASSUME NEW x, Has(s.queue, x), OnTheWay(x, q), x # p
        PROVE  Has(queue2, x)
    BY <1>5, <1>16, <2>3
  <2>4. ASSUME OnTheWay(p, q) PROVE Reached(q, t) \/ \E x : Has(queue2, x) /\ OnTheWay(x, q)
    <3>1. /\ Len(p.edges) < s.depth
          /\ \E e \in E : /\ e.from = endOf(p) /\ e.to \notin visited(p)
                          /\ e.to = s.pairs[1][2] => Walk(extended(p, e)) = q
                          /\ e.to # s.pairs[1][2] => /\ OnTheWay(extended(p, e), q)
                                                     /\ Len(extended(p, e).edges) < s.depth
      BY <1>4, <1>6, <1>8, <2>4, GetsCloser
    <3>2. PICK e \in E : /\ e.from = endOf(p) /\ e.to \notin visited(p)
                         /\ e.to = s.pairs[1][2] => Walk(extended(p, e)) = q
                         /\ e.to # s.pairs[1][2] => /\ OnTheWay(extended(p, e), q)
                                                    /\ Len(extended(p, e).edges) < s.depth
      BY <3>1
    <3>3. PICK k \in exts : edges[k] = e
      BY <1>11, <3>1, <3>2
    <3>4. CASE e.to = s.pairs[1][2]
      <4>1. k \in hitAt
        BY <1>9, <1>14, <3>3, <3>4
      <4>2. Has(found2, extended(p, e)) /\ Walk(extended(p, e)) = q
        BY <1>15, <1>17, <3>2, <3>3, <3>4, <4>1
      <4> QED
        BY <1>26, <4>2
    <3>5. CASE e.to # s.pairs[1][2]
      <4>1. k \in restAt
        BY <1>9, <1>14, <3>2, <3>3, <3>5
      <4>2. Has(queue2, extended(p, e)) /\ OnTheWay(extended(p, e), q)
        BY <1>15, <1>16, <3>2, <3>3, <3>5, <4>1
      <4> QED
        BY <4>2
    <3> QED
      BY <3>4, <3>5
  <2> QED
    BY <2>1, <2>2, <2>3, <2>4
<1>30. CapOK(t, edges)
  <2> DEFINE P == Parallel(edges, endOf(p), Target)
  <2>1. \A k \in hitAt : edges[k].from = endOf(p) /\ edges[k].to = Target
    BY <1>10, <1>14
  <2>2. Cardinality(hitAt) <= Cardinality(P) /\ Cardinality(hitAt) \in Nat /\ Cardinality(P) \in Nat
    BY <1>2, <1>12, <2>1, ParallelCount
  <2>3. Len(hits) = Cardinality(hitAt)
    BY <1>13 DEF Extends
  <2>4. endOf(p) \in Ids
    BY <1>6, <1>8, WalkEnds DEF Trail
  <2>5. Target \in Targets(s)
    <3>1. AskedFor(s.pairs[1], s, nodes)
      BY <1>2, <1>9 DEF SearchOK, PairsOK
    <3> QED
      BY <1>9, <3>1 DEF AskedFor, Targets
  <2> HIDE DEF P
  <2>6. Len(found2) <= s.cap - 1 + Cardinality(P)
    BY <1>1, <1>4, <1>17, <2>2, <2>3
  <2> QED
    BY <1>19, <1>20, <2>4, <2>5, <2>6 DEF CapOK, P
<1>31. CoverOK(t, nodes, edges)
  BY <1>28, <1>29 DEF CoverOK
<1>32. SearchOK(t, nodes, edges)
  BY <1>19, <1>21, <1>23, <1>24, <1>30, <1>31 DEF SearchOK
<1> QED
  BY <1>32 DEF t

-----------------------------------------------------------------------------
(* The invariant is inductive *)

LEMMA InitInv == Init => GraphInv
<1> SUFFICES ASSUME Init PROVE GraphInv
  OBVIOUS
<1>1. nodes = <<>> /\ edges = <<>> /\ edits = 0 /\ search = Idle
  BY DEF Init
<1>2. nodes \in Seq(Node) /\ edges \in Seq(Links) /\ edits \in Nat
  BY <1>1
<1>3. EdgesOnce(edges)
  BY <1>1 DEF EdgesOnce
<1> QED
  BY <1>1, <1>2, <1>3, IdleOK DEF GraphInv

\* sec_graph_add: the node is appended, or replaces the first of its id.
LEMMA AddInv ==
  ASSUME GraphInv, NEW id \in Ids, NEW t \in DOMAIN Levels, sec_graph_add(id, t)
  PROVE  GraphInv'
<1> DEFINE node == [id |-> id, type |-> t]
<1>1. /\ search.at = "idle" /\ nodes' = upsertNode(node) /\ edits' = edits + 1
      /\ edges' = edges /\ search' = search
  BY DEF sec_graph_add
<1>2. nodes \in Seq(Node) /\ edges \in Seq(Links) /\ EdgesOnce(edges) /\ edits \in Nat /\ search = Idle
  BY <1>1 DEF GraphInv, SearchOK, ShapeOK
<1>3. node \in Node
  BY DEF Node
<1> HIDE DEF node
<1>4. upsertNode(node) \in Seq(Node)
  <2>1. CASE findNode(node.id) = {}
    BY <1>2, <1>3, <2>1 DEF upsertNode
  <2>2. CASE findNode(node.id) # {}
    <3> DEFINE k == Min(findNode(node.id))
    <3>1. upsertNode(node) = [nodes EXCEPT ![k] = node]
      BY <2>2 DEF upsertNode
    <3> HIDE DEF k
    <3>2. nodes \in [1..Len(nodes) -> Node] /\ Len(nodes) \in Nat
      BY <1>2
    <3>3. upsertNode(node) \in [1..Len(nodes) -> Node]
      BY <1>3, <3>1, <3>2
    <3> QED
      BY <3>2, <3>3
  <2> QED
    BY <2>1, <2>2
<1>5. SearchOK(search', nodes', edges')
  BY <1>1, <1>2, IdleOK
<1> QED
  BY <1>1, <1>2, <1>4, <1>5 DEF GraphInv

\* sec_graph_link: an edge is recorded once.
LEMMA LinkInv ==
  ASSUME GraphInv, NEW e \in Links, sec_graph_link(e)
  PROVE  GraphInv'
<1>1. /\ search.at = "idle" /\ edges' = addEdge(e) /\ edits' = edits + 1
      /\ nodes' = nodes /\ search' = search
  BY DEF sec_graph_link
<1>2. nodes \in Seq(Node) /\ edges \in Seq(Links) /\ EdgesOnce(edges) /\ edits \in Nat /\ search = Idle
  BY <1>1 DEF GraphInv, SearchOK, ShapeOK
<1>3. edges' \in Seq(Links) /\ EdgesOnce(edges')
  <2>1. CASE e \in Range(edges)
    BY <1>1, <1>2, <2>1 DEF addEdge
  <2>2. CASE e \notin Range(edges)
    <3>1. edges' = Append(edges, e) /\ Len(edges) \in Nat /\ DOMAIN edges = 1..Len(edges)
      BY <1>1, <1>2, <2>2 DEF addEdge
    <3>2. /\ edges' \in Seq(Links) /\ DOMAIN edges' = 1..(Len(edges) + 1) /\ edges'[Len(edges) + 1] = e
          /\ \A k \in 1..Len(edges) : edges'[k] = edges[k]
      BY <1>2, <3>1
    <3>3. \A k \in 1..Len(edges) : edges[k] # e
      BY <2>2, <3>1 DEF Range
    <3>4. \A k \in 1..(Len(edges) + 1) : k \in 1..Len(edges) \/ k = Len(edges) + 1
      BY <3>1
    <3>5. \A i, j \in 1..Len(edges) : edges[i] = edges[j] => i = j
      BY <1>2, <3>1 DEF EdgesOnce
    <3> QED
      BY <3>2, <3>3, <3>4, <3>5 DEF EdgesOnce
  <2> QED
    BY <2>1, <2>2
<1>4. SearchOK(search', nodes', edges')
  BY <1>1, <1>2, IdleOK
<1> QED
  BY <1>1, <1>2, <1>3, <1>4 DEF GraphInv

\* A path search between two nodes.
LEMMA PairInv ==
  ASSUME GraphInv, NEW pair \in Queries, NEW kind \in {"paths", "targeted"}, NEW depth \in Nat,
         Begin(kind, <<pair>>, {pair}, depth, PathCap)
  PROVE  GraphInv'
<1>1. /\ search' = Begun(kind, <<pair>>, {pair}, depth, PathCap)
      /\ nodes' = nodes /\ edges' = edges /\ edits' = edits
  BY DEF Begin, Begun
<1>2. nodes \in Seq(Node) /\ edges \in Seq(Links) /\ EdgesOnce(edges) /\ edits \in Nat
  BY DEF GraphInv
<1>3. pair \in Ids \X Ids /\ PathCap \in Nat \ {0}
  BY GraphAssumption
<1>4. search'.kind = kind /\ search'.asked = {pair}
  BY <1>1 DEF Begun
<1> DEFINE s == search'
           pairs == <<pair>>
<1>5. pairs \in Seq(Ids \X Ids) /\ Len(pairs) = 1 /\ pairs[1] = pair /\ {pair} \in SUBSET (Ids \X Ids)
  BY <1>3
<1>6. \A x : AskedFor(x, s, nodes) <=> x = pair
  BY <1>4 DEF AskedFor
<1>7. s = Begun(kind, pairs, {pair}, depth, PathCap)
  BY <1>1
<1> HIDE DEF s, pairs
<1>8. RightPairs(pairs, s, nodes)
  BY <1>5, <1>6 DEF RightPairs
<1>9. SearchOK(s, nodes, edges)
  BY <1>2, <1>3, <1>5, <1>7, <1>8, BegunOK
<1> QED
  BY <1>1, <1>2, <1>9 DEF GraphInv, s

\* A search for chains between all pairs.
LEMMA ChainsInv ==
  ASSUME GraphInv, NEW depth \in Nat, findAttackChains(depth)
  PROVE  GraphInv'
<1> DEFINE all == attackPairs
           pairs == filtered(all, {n \in DOMAIN all : all[n][1] # all[n][2]})
           s == search'
<1>1. s = Begun("chains", pairs, {}, depth, ChainCap) /\ nodes' = nodes /\ edges' = edges /\ edits' = edits
  BY DEF findAttackChains, Begin, Begun
<1>2. nodes \in Seq(Node) /\ edges \in Seq(Links) /\ EdgesOnce(edges) /\ edits \in Nat
  BY DEF GraphInv
<1>3. /\ pairs \in Seq(Ids \X Ids) /\ \A n \in 1..Len(pairs) : LowHigh(pairs[n], nodes)
      /\ \A pair \in Ids \X Ids : LowHigh(pair, nodes) /\ pair[1] # pair[2]
                                    => \E n \in 1..Len(pairs) : pairs[n] = pair
  BY <1>2, ChainPairs
<1> HIDE DEF pairs, all, s
<1>4. s.kind = "chains"
  BY <1>1 DEF Begun
<1>5. \A x : AskedFor(x, s, nodes) <=> LowHigh(x, nodes)
  BY <1>4 DEF AskedFor
<1>6. ChainCap \in Nat \ {0} /\ {} \in SUBSET (Ids \X Ids)
  BY GraphAssumption
<1>7. RightPairs(pairs, s, nodes)
  BY <1>3, <1>5 DEF RightPairs
<1>8. SearchOK(s, nodes, edges)
  BY <1>1, <1>2, <1>3, <1>6, <1>7, BegunOK
<1> QED
  BY <1>1, <1>2, <1>8 DEF GraphInv, s

LEMMA StepInv == GraphInv /\ [Next]_vars => GraphInv'
<1> SUFFICES ASSUME GraphInv, [Next]_vars PROVE GraphInv'
  OBVIOUS
<1>1. ASSUME NEW id \in Ids, NEW t \in DOMAIN Levels, sec_graph_add(id, t) PROVE GraphInv'
  BY <1>1, AddInv
<1>2. ASSUME NEW e \in Links, sec_graph_link(e) PROVE GraphInv'
  BY <1>2, LinkInv
<1>3. Depths \subseteq Nat /\ DefaultDepth \in Nat
  BY GraphAssumption
<1>4. ASSUME NEW pair \in Queries, NEW d \in Depths, sec_graph_query(pair, d) PROVE GraphInv'
  BY <1>3, <1>4, PairInv DEF sec_graph_query
<1>5. ASSUME NEW d \in Depths, sec_graph_find_chains(d) PROVE GraphInv'
  <2>1. findAttackChains(d) \/ \E pair \in Queries : Begin("targeted", <<pair>>, {pair}, d, PathCap)
    BY <1>5 DEF sec_graph_find_chains
  <2> QED
    BY <1>3, <2>1, ChainsInv, PairInv
<1>6. ASSUME graphSummary \/ sec_graph_export PROVE GraphInv'
  BY <1>3, <1>6, ChainsInv DEF graphSummary, sec_graph_export
<1>7. nodes \in Seq(Node) /\ edges \in Seq(Links) /\ EdgesOnce(edges) /\ edits \in Nat
      /\ SearchOK(search, nodes, edges)
  BY DEF GraphInv
<1>8. ASSUME Dequeue PROVE GraphInv'
  <2>1. nodes' = nodes /\ edges' = edges /\ edits' = edits
    BY <1>8 DEF Dequeue
  <2> QED
    BY <1>7, <1>8, <2>1, DequeueOK DEF GraphInv
<1>9. ASSUME NextPair PROVE GraphInv'
  <2> DEFINE rest == IF search.pairs = <<>> THEN <<>> ELSE Tail(search.pairs)
  <2>1. /\ nodes' = nodes /\ edges' = edges /\ edits' = edits
        /\ search.at = "running" /\ (search.queue = <<>> \/ Len(search.found) >= search.cap)
        /\ search' = [search EXCEPT !.pairs = rest, !.queue = startQueue(rest),
                                    !.at = IF rest = <<>> THEN "done" ELSE "running"]
    BY <1>9 DEF NextPair
  <2>2. SearchOK(search', nodes, edges)
    BY <1>7, <2>1, NextPairOK
  <2> QED
    BY <1>7, <2>1, <2>2 DEF GraphInv
<1>10. ASSUME Return PROVE GraphInv'
  BY <1>7, <1>10, IdleOK DEF Return, GraphInv
<1>11. ASSUME UNCHANGED vars PROVE GraphInv'
  BY <1>7, <1>11 DEF vars, GraphInv
<1> QED
  BY <1>1, <1>2, <1>4, <1>5, <1>6, <1>8, <1>9, <1>10, <1>11 DEF Next

-----------------------------------------------------------------------------
(* The theorems *)

\* In every reachable state the graph is well formed, each edge recorded once, and
\* the search accounts for every path it has found and every path it has not.
THEOREM GraphSafe == Spec => []GraphInv
<1> QED
  BY InitInv, StepInv, PTL DEF Spec

\* What findPaths and findAttackChains return are simple paths along edges of the
\* graph, within max_depth, from the source to the target of a pair that was asked for.
THEOREM FoundSound == Spec => []FoundArePaths
<1>1. ASSUME GraphInv PROVE FoundArePaths
  <2> SUFFICES ASSUME NEW k \in DOMAIN search.found
               PROVE  LET w == Walk(search.found[k])
                      IN <<w[1], w[Len(w)]>> \in Asked /\ w \in SimplePaths(w[1], w[Len(w)])
    BY DEF FoundArePaths, Walks
  <2> DEFINE p == search.found[k]
             w == Walk(p)
             E == EdgeSet(search, edges)
  <2>1. edges \in Seq(Links) /\ search \in Searches /\ FoundOK(search, nodes, edges)
    BY <1>1 DEF GraphInv, SearchOK
  <2>2. search.found \in Seq(Path(Links)) /\ search.depth \in Nat
    BY <2>1 DEF Searches
  <2>3. IsFound(p, search, nodes, edges)
    <3>1. k \in 1..Len(search.found)
      BY <2>2
    <3> QED
      BY <2>1, <3>1 DEF FoundOK
  <2>4. E \in SUBSET Links /\ Allowed = E
    BY <2>1, EdgeSetLinks DEF Allowed, follows, EdgeSet
  <2>5. Trail(p, E) /\ 1 <= Len(p.edges) /\ Len(p.edges) <= search.depth
    BY <2>3 DEF IsFound
  <2> HIDE DEF p, E
  <2>6. w \in Simple(w[1], w[Len(w)], E, search.depth) /\ w[1] = p.src /\ w[Len(w)] = endOf(p)
    BY <2>2, <2>4, <2>5, TrailIsSimple
  <2> HIDE DEF w
  <2>7. w \in SimplePaths(w[1], w[Len(w)])
    BY <2>4, <2>6, SimpleIs
  <2>8. <<w[1], w[Len(w)]>> \in Asked
    <3>1. AskedFor(<<w[1], w[Len(w)]>>, search, nodes)
      BY <2>3, <2>6 DEF IsFound
    <3>2. CASE search.kind = "chains"
      <4>1. PICK i, j \in DOMAIN nodes : /\ nodes[i].id = w[1] /\ levelOf(i) <= 2
                                         /\ nodes[j].id = w[Len(w)] /\ levelOf(j) >= 4
        BY <3>1, <3>2 DEF AskedFor, LowHigh, levelOf
      <4> QED
        BY <3>2, <4>1 DEF Asked
    <3>3. CASE search.kind # "chains"
      BY <3>1, <3>3 DEF AskedFor, Asked
    <3> QED
      BY <3>2, <3>3
  <2> QED
    BY <2>7, <2>8 DEF w, p
<1> QED
  BY <1>1, GraphSafe, PTL

\* A search that ends below its cap has found every path it was asked for: the
\* queue, the visited sets and the two depth tests lose none, for every graph.
THEOREM SearchComplete == Spec => []NonePassedOver
<1>1. ASSUME GraphInv, search.at = "done", Len(search.found) < search.cap PROVE NonePassedOver
  <2>1. /\ edges \in Seq(Links) /\ nodes \in Seq(Node) /\ search \in Searches
        /\ ShapeOK(search) /\ AllCovered(search, nodes, edges)
    BY <1>1 DEF GraphInv, SearchOK, CoverOK
  <2>2. search.found \in Seq(Path(Links)) /\ search.pairs = <<>> /\ search.asked \in SUBSET (Ids \X Ids)
    BY <1>1, <2>1 DEF Searches, ShapeOK
  <2>3. \A pair : ~Awaited(pair, search)
    <3>1. \A k : k \notin 1..Len(search.pairs)
      BY <2>2
    <3> QED
      BY <3>1 DEF Awaited
  <2>4. ASSUME NEW pair \in Asked PROVE pair \in Ids \X Ids /\ AskedFor(pair, search, nodes)
    <3>1. CASE search.kind = "chains"
      <4>1. PICK i \in {k \in DOMAIN nodes : levelOf(k) <= 2}, j \in {k \in DOMAIN nodes : levelOf(k) >= 4} :
              pair = <<nodes[i].id, nodes[j].id>>
        BY <2>4, <3>1 DEF Asked
      <4>2. nodes[i] \in Node /\ nodes[j] \in Node
        BY <2>1
      <4>3. nodes[i].id \in Ids /\ nodes[j].id \in Ids
        BY <4>2 DEF Node
      <4>4. LowHigh(pair, nodes)
        BY <4>1 DEF LowHigh, levelOf
      <4> QED
        BY <3>1, <4>1, <4>3, <4>4 DEF AskedFor
    <3>2. CASE search.kind # "chains"
      BY <2>2, <2>4, <3>2 DEF AskedFor, Asked
    <3> QED
      BY <3>1, <3>2
  <2>5. Allowed = EdgeSet(search, edges)
    BY DEF Allowed, follows, EdgeSet
  <2>6. ASSUME NEW q, Reached(q, search) PROVE q \in Walks
    <3>1. PICK k \in 1..Len(search.found) : Walk(search.found[k]) = q
      BY <2>6 DEF Reached
    <3>2. k \in DOMAIN search.found
      BY <2>2
    <3> QED
      BY <3>1, <3>2 DEF Walks
  <2>7. ASSUME NEW pair \in Asked PROVE SimplePaths(pair[1], pair[2]) \subseteq Walks
    <3>1. Complete(pair, search, edges)
      BY <2>1, <2>3, <2>4 DEF AllCovered
    <3>2. SimplePaths(pair[1], pair[2]) = Simple(pair[1], pair[2], EdgeSet(search, edges), search.depth)
      BY <2>5, SimpleIs
    <3> QED
      BY <2>6, <3>1, <3>2 DEF Complete
  <2>8. \A pair \in Asked : SimplePaths(pair[1], pair[2]) \subseteq Walks
    BY <2>7
  <2> QED
    BY <2>8 DEF NonePassedOver
<1>2. ASSUME GraphInv PROVE NonePassedOver
  <2>1. ASSUME ~(search.at = "done" /\ Len(search.found) < search.cap) PROVE NonePassedOver
    BY <2>1 DEF NonePassedOver
  <2> QED
    BY <1>1, <1>2, <2>1
<1> QED
  BY <1>2, GraphSafe, PTL

\* A set of natural numbers with a bound has a largest element.
LEMMA MaxOf ==
  ASSUME NEW B \in SUBSET Nat, B # {}, NEW n \in Nat, \A b \in B : b <= n
  PROVE  Max(B) \in B /\ \A b \in B : b <= Max(B)
<1> DEFINE C == {i \in Nat : \A b \in B : b <= i}
<1>1. C \in SUBSET Nat /\ n \in C
  OBVIOUS
<1>2. PICK m \in C : \A j \in C : ~(j < m)
  BY <1>1, LeastOf
<1>3. m \in Nat /\ \A b \in B : b <= m
  BY <1>2
<1>4. m \in B
  <2> SUFFICES ASSUME m \notin B PROVE FALSE
    OBVIOUS
  <2>1. \A b \in B : b < m /\ b \in Nat
    BY <1>3
  <2>2. m # 0
    <3>1. PICK b \in B : TRUE
      OBVIOUS
    <3> QED
      BY <1>3, <2>1, <3>1
  <2>3. m - 1 \in C /\ m - 1 < m
    BY <1>3, <2>1, <2>2
  <2> QED
    BY <1>2, <2>3
<1>5. \A b \in B : m >= b
  BY <1>3
<1>6. Max(B) \in B /\ \A b \in B : Max(B) >= b
  BY <1>4, <1>5 DEF Max
<1> QED
  BY <1>6

\* A search returns at most cap - 1 paths and those that complete one more dequeued
\* path, one for each parallel edge to the target, however large the graph.
THEOREM CapBounded == Spec => []CapOvershoot
<1>1. ASSUME GraphInv PROVE CapOvershoot
  <2> DEFINE count(x, y) == Cardinality({e \in Range(edges) : e.from = x /\ e.to = y})
             B == {1} \cup {count(x, y) : x \in Ids, y \in Targets(search)}
  <2>1. edges \in Seq(Links) /\ EdgesOnce(edges) /\ search \in Searches /\ CapOK(search, edges)
    BY <1>1 DEF GraphInv, SearchOK
  <2>2. Len(search.found) \in Nat /\ search.cap \in Nat
    BY <2>1 DEF Searches
  <2>3. ASSUME NEW x, NEW y
        PROVE  /\ count(x, y) = Cardinality(Parallel(edges, x, y)) /\ count(x, y) \in Nat
               /\ count(x, y) <= Cardinality(Range(edges)) /\ Cardinality(Range(edges)) \in Nat
    <3>1. count(x, y) = Cardinality(Parallel(edges, x, y))
      BY DEF Parallel
    <3>2. {} \in SUBSET DOMAIN edges /\ \A k \in {} : edges[k].from = x /\ edges[k].to = y
      OBVIOUS
    <3>3. /\ Cardinality(Parallel(edges, x, y)) \in Nat
          /\ Cardinality(Parallel(edges, x, y)) <= Cardinality(Range(edges)) /\ Cardinality(Range(edges)) \in Nat
      BY <2>1, <3>2, ParallelCount
    <3> QED
      BY <3>1, <3>3
  <2> HIDE DEF count
  <2> DEFINE n == Cardinality(Range(edges)) + 1
  <2>4. Cardinality(Range(edges)) \in Nat
    BY <2>3
  <2>5. B \in SUBSET Nat /\ B # {} /\ n \in Nat /\ \A b \in B : b <= n
    BY <2>3, <2>4
  <2> HIDE DEF n, B
  <2>6. Max(B) \in B /\ \A b \in B : b <= Max(B)
    BY <2>5, MaxOf
  <2>7. Max(B) \in Nat /\ 1 <= Max(B)
    <3>1. 1 \in B
      BY DEF B
    <3> QED
      BY <2>5, <2>6, <3>1
  <2>8. Len(search.found) <= search.cap + Max(B) - 1
    <3>1. CASE Len(search.found) <= search.cap
      BY <2>2, <2>7, <3>1
    <3>2. ASSUME NEW x \in Ids, NEW y \in Targets(search),
                 Len(search.found) <= search.cap - 1 + Cardinality(Parallel(edges, x, y))
          PROVE  Len(search.found) <= search.cap + Max(B) - 1
      <4>1. count(x, y) \in B /\ count(x, y) \in Nat
        BY <2>3 DEF B
      <4>2. count(x, y) <= Max(B)
        BY <2>6, <4>1
      <4> QED
        BY <2>2, <2>3, <2>7, <3>2, <4>1, <4>2
    <3> QED
      BY <2>1, <3>1, <3>2 DEF CapOK
  <2> QED
    BY <2>8 DEF CapOvershoot, Targets, count, B
<1> QED
  BY <1>1, GraphSafe, PTL
=============================================================================
