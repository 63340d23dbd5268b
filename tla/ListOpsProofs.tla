---------------------------- MODULE ListOpsProofs ----------------------------
(***************************************************************************)
(* Lemmas about lists that the proofs of several components need: what     *)
(* filtered returns, and that a function may be defined by recursion on    *)
(* the natural numbers.  Both are by a least counterexample.               *)
(***************************************************************************)
EXTENDS ListOps, FiniteSetTheorems, SequenceTheorems, WellFoundedInduction,
        NaturalsInduction, TLAPS

\* A set of natural numbers has a least element.
LEMMA LeastOf ==
  ASSUME NEW B \in SUBSET Nat, B # {}
  PROVE  \E i \in B : \A j \in B : ~(j < i)
<1>1. PICK i \in B : \A j \in B : ~(<<j, i>> \in OpToRel(<, Nat))
  BY WFMin, NatLessThanWellFounded
<1> QED
  BY <1>1 DEF OpToRel

\* A function may be defined by recursion on the natural numbers: for each n there
\* is one on 0..n, any two of them agree, and together they are one on Nat.
Iterates(f, n, first, step) ==
  f[0] = first /\ \A k \in 0..(n - 1) : f[k + 1] = step[k + 1][f[k]]

LEMMA IterationAgrees ==
  ASSUME NEW first, NEW step, NEW m \in Nat, NEW n \in Nat, NEW f, NEW g,
         Iterates(f, m, first, step), Iterates(g, n, first, step)
  PROVE  \A k \in Nat : k <= m /\ k <= n => f[k] = g[k]
<1> DEFINE Bad == {k \in Nat : k <= m /\ k <= n /\ f[k] # g[k]}
<1>1. ASSUME Bad # {} PROVE FALSE
  <2>1. PICK i \in Bad : \A j \in Bad : ~(j < i)
    BY <1>1, LeastOf
  <2>2. i \in Nat /\ i <= m /\ i <= n /\ f[i] # g[i] /\ \A j \in Bad : ~(j < i)
    BY <2>1
  <2>3. i # 0
    BY <2>2 DEF Iterates
  <2>4. i - 1 \in Nat /\ i - 1 < i /\ i - 1 \in 0..(m - 1) /\ i - 1 \in 0..(n - 1) /\ (i - 1) + 1 = i
    BY <2>2, <2>3
  <2>5. f[i - 1] = g[i - 1]
    BY <2>2, <2>4
  <2> QED
    BY <2>2, <2>4, <2>5 DEF Iterates
<1> QED
  BY <1>1

LEMMA IterationExists ==
  ASSUME NEW S, NEW first \in S, NEW step \in [Nat -> [S -> S]]
  PROVE  \E f \in [Nat -> S] : \A n \in Nat : Iterates(f, n, first, step)
<1> DEFINE Good(n) == \E f \in [0..n -> S] : Iterates(f, n, first, step)
           Bad == {n \in Nat : ~Good(n)}
<1>1. ASSUME Bad # {} PROVE FALSE
  <2>1. PICK i \in Bad : \A j \in Bad : ~(j < i)
    BY <1>1, LeastOf
  <2>2. i \in Nat /\ ~Good(i) /\ \A j \in Nat : j < i => Good(j)
    BY <2>1
  <2>3. i # 0
    <3> DEFINE g == [k \in 0..0 |-> first]
    <3>1. g \in [0..0 -> S] /\ g[0] = first
      OBVIOUS
    <3> HIDE DEF g
    <3>2. Iterates(g, 0, first, step)
      BY <3>1 DEF Iterates
    <3> QED
      BY <2>2, <3>1, <3>2
  <2>4. i - 1 \in Nat /\ i - 1 < i
    BY <2>2, <2>3
  <2>5. Good(i - 1)
    BY <2>2, <2>4
  <2>6. PICK f \in [0..(i - 1) -> S] : Iterates(f, i - 1, first, step)
    BY <2>5
  <2>7. /\ f[0] = first /\ \A k \in 0..(i - 1) : f[k] \in S
        /\ \A k \in 0..((i - 1) - 1) : f[k + 1] = step[k + 1][f[k]]
    BY <2>6 DEF Iterates
  <2>8. step[i][f[i - 1]] \in S
    <3>1. f[i - 1] \in S /\ i \in Nat
      BY <2>2, <2>4, <2>7
    <3> QED
      BY <3>1
  <2> DEFINE g == [k \in 0..i |-> IF k = i THEN step[i][f[i - 1]] ELSE f[k]]
  <2> HIDE DEF Bad, Good
  <2>9. /\ g[i] = step[i][f[i - 1]] /\ DOMAIN g = 0..i
        /\ \A k \in 0..(i - 1) : k \in 0..i /\ g[k] = f[k]
        /\ \A k \in 0..i : k = i \/ k \in 0..(i - 1)
    BY <2>2, <2>4
  <2>10. g \in [0..i -> S]
    BY <2>7, <2>8, <2>9
  <2> HIDE DEF g
  <2>11. g[0] = first
    BY <2>4, <2>7, <2>9
  <2>12. ASSUME NEW k \in 0..(i - 1) PROVE g[k + 1] = step[k + 1][g[k]]
    <3>1. CASE k = i - 1
      BY <2>2, <2>9, <3>1
    <3>2. CASE k # i - 1
      <4>1. k \in 0..((i - 1) - 1) /\ k + 1 \in 0..(i - 1)
        BY <2>2, <3>2
      <4> QED
        BY <2>7, <2>9, <4>1
    <3> QED
      BY <3>1, <3>2
  <2>13. Iterates(g, i, first, step)
    BY <2>11, <2>12 DEF Iterates
  <2> QED
    BY <2>2, <2>10, <2>13 DEF Good
<1>2. \A n \in Nat : Good(n)
  BY <1>1
<1> DEFINE F(n) == CHOOSE f \in [0..n -> S] : Iterates(f, n, first, step)
           h == [n \in Nat |-> F(n)[n]]
<1>3. \A n \in Nat : F(n) \in [0..n -> S] /\ Iterates(F(n), n, first, step)
  BY <1>2
<1> HIDE DEF F
<1>4. ASSUME NEW n \in Nat, NEW k \in Nat, k <= n PROVE F(n)[k] = F(k)[k]
  <2>1. Iterates(F(n), n, first, step) /\ Iterates(F(k), k, first, step) /\ k <= k
    BY <1>3
  <2> QED
    BY <1>4, <2>1, IterationAgrees
<1>5. h \in [Nat -> S]
  <2>1. \A n \in Nat : F(n)[n] \in S
    BY <1>3
  <2> QED
    BY <2>1
<1>6. h[0] = first
  BY <1>3 DEF Iterates
<1>7. ASSUME NEW k \in Nat PROVE h[k + 1] = step[k + 1][h[k]]
  <2>1. k + 1 \in Nat /\ k <= k + 1 /\ k \in 0..((k + 1) - 1)
    OBVIOUS
  <2>2. F(k + 1)[k] = F(k)[k]
    BY <1>4, <2>1
  <2>3. F(k + 1)[k + 1] = step[k + 1][F(k + 1)[k]]
    BY <1>3, <2>1 DEF Iterates
  <2> QED
    BY <2>1, <2>2, <2>3
<1> HIDE DEF h
<1>8. ASSUME NEW n \in Nat PROVE Iterates(h, n, first, step)
  <2>1. \A k \in 0..(n - 1) : k \in Nat
    OBVIOUS
  <2> QED
    BY <1>6, <1>7, <2>1 DEF Iterates
<1> QED
  BY <1>5, <1>8

\* What filtered computes, one position at a time.
Filters(f, x, kept) ==
  /\ f[0] = <<>>
  /\ \A n \in 1..Len(x) : f[n] = IF n \in kept THEN Append(f[n - 1], x[n]) ELSE f[n - 1]

LEMMA FilterRun ==
  ASSUME NEW S, NEW x \in Seq(S), NEW kept
  PROVE  \E f \in [0..Len(x) -> Seq(S)] : Filters(f, x, kept) /\ filtered(x, kept) = f[Len(x)]
<1> DEFINE L == Len(x)
           none == <<>>
           add(s, n) == IF n \in kept THEN Append(s, x[n]) ELSE s
           step == [n \in Nat |-> [s \in Seq(S) |-> IF n \in 1..L THEN add(s, n) ELSE s]]
           Def(f) == f = [n \in 0..L |-> IF n = 0 THEN none ELSE add(f[n - 1], n)]
<1>1. L \in Nat /\ \A n \in 1..L : x[n] \in S
  OBVIOUS
<1>2. none \in Seq(S)
  OBVIOUS
<1> DEFINE h == CHOOSE e : Def(e)
<1>3. filtered(x, kept) = h[L]
  BY DEF filtered
<1> HIDE DEF L, none
<1>4. ASSUME NEW n \in 1..L, NEW s \in Seq(S) PROVE add(s, n) \in Seq(S)
  BY <1>1
<1> HIDE DEF add
<1>5. ASSUME NEW n \in Nat, NEW s \in Seq(S)
      PROVE  (IF n \in 1..L THEN add(s, n) ELSE s) \in Seq(S)
  BY <1>4
<1>6. step \in [Nat -> [Seq(S) -> Seq(S)]]
  BY <1>5
<1>7. \A n \in 1..L, s \in Seq(S) : step[n][s] = add(s, n)
  BY <1>1
<1> HIDE DEF step
<1>8. PICK g \in [Nat -> Seq(S)] : \A n \in Nat : Iterates(g, n, none, step)
  BY <1>2, <1>6, IterationExists
<1>9. g[0] = none /\ \A k \in 0..(L - 1) : g[k + 1] = step[k + 1][g[k]]
  BY <1>1, <1>8 DEF Iterates
<1> DEFINE f == [n \in 0..L |-> g[n]]
<1>10. /\ f \in [0..L -> Seq(S)] /\ f[0] = none
       /\ \A n \in 0..L : f[n] = g[n] /\ g[n] \in Seq(S)
  <2>1. \A n \in 0..L : g[n] \in Seq(S)
    BY <1>1, <1>8
  <2>2. 0 \in 0..L
    BY <1>1
  <2> QED
    BY <1>9, <2>1, <2>2
<1>11. ASSUME NEW n \in 1..L PROVE f[n] = add(f[n - 1], n)
  <2>1. n - 1 \in 0..(L - 1) /\ (n - 1) + 1 = n /\ n - 1 \in 0..L /\ n \in 0..L
    BY <1>1
  <2>2. g[n] = step[n][g[n - 1]] /\ f[n] = g[n] /\ f[n - 1] = g[n - 1] /\ g[n - 1] \in Seq(S)
    BY <1>9, <1>10, <2>1
  <2> QED
    BY <1>7, <2>2
<1> HIDE DEF f
<1>12. Def(f)
  <2>1. \A n \in 0..L : n = 0 \/ n \in 1..L
    BY <1>1
  <2>2. \A n \in 0..L : f[n] = IF n = 0 THEN none ELSE add(f[n - 1], n)
    BY <1>10, <1>11, <2>1
  <2> QED
    BY <1>10, <2>2
<1>13. Def(h)
  BY <1>12
<1> HIDE DEF h
<1>14. /\ \A n \in 0..L : h[n] = IF n = 0 THEN none ELSE add(h[n - 1], n)
       /\ h[0] = none /\ \A n \in 1..L : h[n] = add(h[n - 1], n)
  <2>1. \A n \in 0..L : h[n] = IF n = 0 THEN none ELSE add(h[n - 1], n)
    BY <1>13
  <2> QED
    BY <1>1, <2>1
<1> HIDE DEF Def
<1> DEFINE Bad == {n \in Nat : n <= L /\ h[n] # f[n]}
<1>15. ASSUME Bad # {} PROVE FALSE
  <2>1. PICK i \in Bad : \A j \in Bad : ~(j < i)
    BY <1>15, LeastOf
  <2>2. i \in Nat /\ i <= L /\ i \in 0..L /\ h[i] # f[i]
    BY <1>1, <2>1
  <2>3. i # 0
    BY <1>10, <1>14, <2>2
  <2>4. i - 1 \in Nat /\ i - 1 <= L /\ i - 1 < i /\ i \in 1..L
    BY <1>1, <2>2, <2>3
  <2>5. h[i - 1] = f[i - 1]
    BY <2>1, <2>4
  <2> QED
    BY <1>11, <1>14, <2>2, <2>4, <2>5
<1>16. h[L] = f[L]
  BY <1>1, <1>15
<1>17. Filters(f, x, kept)
  BY <1>10, <1>11 DEF Filters, L, none, add
<1> QED
  BY <1>3, <1>10, <1>16, <1>17 DEF L

\* filtered(x, kept) consists of the elements of x at the positions kept, each
\* of them once and in their order: the first prefix of x of which this is not
\* so would be empty, or its last position be added to the list of the others.
Enumerates(p, K) == K = Range(p) /\ \A a, b \in DOMAIN p : a < b => p[a] < p[b]
Selects(s, x, K) == \E pos \in [1..Cardinality(K) -> K] :
                      Enumerates(pos, K) /\ s = [a \in 1..Cardinality(K) |-> x[pos[a]]]

LEMMA SelectsMore ==
  ASSUME NEW S, NEW s \in Seq(S), NEW x, NEW i \in Nat \ {0}, x[i] \in S,
         NEW J \in SUBSET (1..(i - 1)), Selects(s, x, J)
  PROVE  Selects(Append(s, x[i]), x, J \cup {i})
<1> DEFINE c == Cardinality(J)
<1>1. IsFiniteSet(J) /\ c \in Nat /\ i \notin J
  <2>1. IsFiniteSet(1..(i - 1))
    BY FS_Interval
  <2>2. IsFiniteSet(J)
    BY <2>1, FS_Subset
  <2>3. i \notin J
    OBVIOUS
  <2> QED
    BY <2>2, <2>3, FS_CardinalityType
<1>2. Cardinality(J \cup {i}) = c + 1
  BY <1>1, FS_AddElement
<1>3. PICK q \in [1..c -> J] : Enumerates(q, J) /\ s = [a \in 1..c |-> x[q[a]]]
  BY DEF Selects
<1> HIDE DEF c
<1> DEFINE p == [a \in 1..(c + 1) |-> IF a = c + 1 THEN i ELSE q[a]]
<1>4. /\ \A a \in 1..c : p[a] = q[a] /\ q[a] \in J /\ a # c + 1
      /\ p[c + 1] = i /\ DOMAIN p = 1..(c + 1) /\ DOMAIN q = 1..c
      /\ \A a \in 1..(c + 1) : a \in 1..c \/ a = c + 1
      /\ c + 1 \in 1..(c + 1) /\ \A a \in 1..c : a \in 1..(c + 1)
  BY <1>1, <1>3
<1>5. p \in [1..(c + 1) -> J \cup {i}]
  BY <1>4
<1> HIDE DEF p
<1>6. J \cup {i} = Range(p)
  <2>1. \A y \in J : \E a \in 1..c : q[a] = y
    BY <1>3, <1>4 DEF Enumerates, Range
  <2>2. \A y \in J \cup {i} : \E a \in 1..(c + 1) : p[a] = y
    BY <1>4, <2>1
  <2>3. \A a \in 1..(c + 1) : p[a] \in J \cup {i}
    BY <1>4
  <2>4. Range(p) = {p[a] : a \in 1..(c + 1)}
    BY <1>4 DEF Range
  <2> QED
    BY <2>2, <2>3, <2>4
<1>7. ASSUME NEW a \in 1..(c + 1), NEW b \in 1..(c + 1), a < b PROVE p[a] < p[b]
  <2>1. a \in 1..c
    BY <1>1, <1>7
  <2>2. CASE b = c + 1
    <3>1. q[a] \in 1..(i - 1)
      BY <1>4, <2>1
    <3> QED
      BY <1>4, <2>1, <2>2, <3>1
  <2>3. CASE b # c + 1
    BY <1>3, <1>4, <1>7, <2>1, <2>3 DEF Enumerates
  <2> QED
    BY <2>2, <2>3
<1>8. Append(s, x[i]) = [a \in 1..(c + 1) |-> x[p[a]]]
  <2> DEFINE t == Append(s, x[i])
  <2>1. DOMAIN s = 1..c /\ Len(s) = c /\ \A a \in 1..c : s[a] = x[q[a]]
    BY <1>1, <1>3
  <2>2. t \in Seq(S) /\ Len(t) = c + 1 /\ t[c + 1] = x[i] /\ \A a \in 1..c : t[a] = x[q[a]]
    BY <1>1, <2>1
  <2> HIDE DEF t
  <2>3. \A a \in 1..(c + 1) : t[a] = x[p[a]]
    BY <1>4, <2>2
  <2>4. t = [a \in 1..Len(t) |-> t[a]]
    BY <2>2
  <2> QED
    BY <2>2, <2>3, <2>4 DEF t
<1>9. Enumerates(p, J \cup {i})
  BY <1>4, <1>6, <1>7 DEF Enumerates
<1> QED
  BY <1>2, <1>5, <1>8, <1>9 DEF Selects

LEMMA Filtered ==
  ASSUME NEW S, NEW x \in Seq(S), NEW kept \in SUBSET DOMAIN x
  PROVE  \E c \in Nat, pos \in [1..Cardinality(kept) -> kept] :
           /\ c = Cardinality(kept) /\ kept = Range(pos)
           /\ \A a, b \in DOMAIN pos : a < b => pos[a] < pos[b]
           /\ filtered(x, kept) = [n \in DOMAIN pos |-> x[pos[n]]]
           /\ filtered(x, kept) \in Seq(S)
<1> DEFINE L == Len(x)
           K(n) == kept \cap (1..n)
<1>1. DOMAIN x = 1..L /\ L \in Nat /\ \A k \in 1..L : x[k] \in S
  OBVIOUS
<1>2. PICK f \in [0..L -> Seq(S)] : Filters(f, x, kept) /\ filtered(x, kept) = f[L]
  BY FilterRun
<1> DEFINE Bad == {n \in Nat : n <= L /\ ~Selects(f[n], x, K(n))}
<1>3. f[0] = <<>> /\ \A n \in 1..L : f[n] = IF n \in kept THEN Append(f[n - 1], x[n]) ELSE f[n - 1]
  BY <1>2 DEF Filters
<1> HIDE DEF L
<1>4. ASSUME Bad # {} PROVE FALSE
  <2>1. PICK i \in Bad : \A j \in Bad : ~(j < i)
    BY <1>4, LeastOf
  <2>2. i \in Nat /\ i <= L /\ ~Selects(f[i], x, K(i))
    BY <1>1, <2>1
  <2>3. i # 0
    <3> SUFFICES ASSUME i = 0 PROVE FALSE
      OBVIOUS
    <3>1. K(0) = {} /\ Cardinality({}) = 0
      BY FS_EmptySet
    <3>2. <<>> \in [1..0 -> {}] /\ Enumerates(<<>>, {}) /\ f[0] = [a \in 1..0 |-> x[<<>>[a]]]
      BY <1>3 DEF Enumerates, Range
    <3>3. Selects(f[0], x, {})
      BY <3>1, <3>2 DEF Selects
    <3> QED
      BY <2>2, <3>1, <3>3
  <2>4. i - 1 \in Nat /\ i - 1 <= L /\ i - 1 < i /\ i \in 1..L /\ i - 1 \in 0..L /\ i \in Nat \ {0}
    BY <1>1, <2>2, <2>3
  <2>5. Selects(f[i - 1], x, K(i - 1))
    BY <2>1, <2>4
  <2>6. f[i] = IF i \in kept THEN Append(f[i - 1], x[i]) ELSE f[i - 1]
    BY <1>3, <2>4
  <2>7. CASE i \notin kept
    <3>1. K(i) = K(i - 1)
      BY <2>2, <2>4, <2>7
    <3> QED
      BY <2>2, <2>5, <2>6, <2>7, <3>1
  <2>8. CASE i \in kept
    <3>1. K(i) = K(i - 1) \cup {i} /\ K(i - 1) \in SUBSET (1..(i - 1))
      BY <2>4, <2>8
    <3>2. f[i - 1] \in Seq(S) /\ x[i] \in S
      BY <1>1, <1>2, <2>4
    <3> HIDE DEF K
    <3>3. Selects(Append(f[i - 1], x[i]), x, K(i - 1) \cup {i})
      BY <2>4, <2>5, <3>1, <3>2, SelectsMore
    <3> QED
      BY <2>2, <2>6, <2>8, <3>1, <3>3
  <2> QED
    BY <2>7, <2>8
<1>5. Selects(f[L], x, K(L))
  <2>1. L \notin Bad
    BY <1>4
  <2> QED
    BY <1>1, <2>1
<1>6. K(L) = kept
  BY <1>1
<1>7. Cardinality(kept) \in Nat
  <2>1. IsFiniteSet(DOMAIN x)
    BY <1>1, FS_Interval
  <2> QED
    BY <2>1, FS_Subset, FS_CardinalityType
<1> HIDE DEF K
<1>8. PICK pos \in [1..Cardinality(kept) -> kept] :
        Enumerates(pos, kept) /\ f[L] = [a \in 1..Cardinality(kept) |-> x[pos[a]]]
  BY <1>5, <1>6 DEF Selects
<1>9. DOMAIN pos = 1..Cardinality(kept) /\ f[L] \in Seq(S)
  BY <1>1, <1>2
<1> QED
  BY <1>2, <1>7, <1>8, <1>9 DEF Enumerates
=============================================================================
