-------------------------- MODULE ScopeGuardProofs --------------------------
(***************************************************************************)
(* Proofs about ScopeGuard for any number of sessions, hosts, values and   *)
(* calls, and any width of an address.  Three facts carry them: matching a *)
(* value is membership in what its rule denotes (the arithmetic of the     *)
(* masks), parsing a saved scope gives it back without its quotes, and     *)
(* what a call that is about to write owes to the file it read.            *)
(***************************************************************************)
EXTENDS ScopeGuard, ListOpsProofs

-----------------------------------------------------------------------------
(* Powers of two and masks.                                                 *)

\* pow2 is the function its definition describes.
LEMMA Pow2Def == pow2[0] = 1 /\ \A n \in Nat : pow2[n] \in Nat \ {0} /\ pow2[n + 1] = 2 * pow2[n]
<1> DEFINE step == [n \in Nat |-> [x \in Nat |-> 2 * x]]
           Def(f) == f = [n \in Nat |-> IF n = 0 THEN 1 ELSE 2 * f[n - 1]]
<1>1. step \in [Nat -> [Nat -> Nat]] /\ \A n, x \in Nat : step[n][x] = 2 * x
  OBVIOUS
<1> HIDE DEF step
<1>2. PICK f \in [Nat -> Nat] : \A n \in Nat : Iterates(f, n, 1, step)
  BY <1>1, IterationExists
<1>3. f[0] = 1
  BY <1>2 DEF Iterates
<1>4. ASSUME NEW n \in Nat PROVE f[n + 1] = 2 * f[n] /\ f[n] \in Nat
  <2>1. n + 1 \in Nat /\ n \in 0..((n + 1) - 1) /\ f[n] \in Nat
    BY <1>2
  <2>2. f[n + 1] = step[n + 1][f[n]]
    BY <1>2, <2>1 DEF Iterates
  <2> QED
    BY <1>1, <2>1, <2>2
<1>5. Def(f)
  <2>1. ASSUME NEW n \in Nat PROVE f[n] = IF n = 0 THEN 1 ELSE 2 * f[n - 1]
    <3>1. CASE n = 0
      BY <1>3, <3>1
    <3>2. CASE n # 0
      <4>1. n - 1 \in Nat /\ (n - 1) + 1 = n
        BY <3>2
      <4> QED
        BY <1>4, <3>2, <4>1
    <3> QED
      BY <3>1, <3>2
  <2> QED
    BY <1>2, <2>1
<1>6. pow2 = CHOOSE g : Def(g)
  BY DEF pow2
<1>7. Def(pow2)
  BY <1>5, <1>6
<1> HIDE DEF Def
<1>8. \A n \in Nat : pow2[n] = IF n = 0 THEN 1 ELSE 2 * pow2[n - 1]
  BY <1>7 DEF Def
<1>9. pow2[0] = 1
  BY <1>8
<1>10. ASSUME NEW n \in Nat PROVE pow2[n + 1] = 2 * pow2[n]
  <2>1. n + 1 \in Nat /\ n + 1 # 0 /\ (n + 1) - 1 = n
    OBVIOUS
  <2> QED
    BY <1>8, <2>1
<1> DEFINE Bad == {n \in Nat : ~(pow2[n] \in Nat \ {0})}
<1>11. ASSUME Bad # {} PROVE FALSE
  <2>1. PICK i \in Bad : \A j \in Bad : ~(j < i)
    BY <1>11, LeastOf
  <2>2. i # 0
    BY <1>9, <2>1
  <2>3. i - 1 \in Nat /\ i - 1 < i /\ (i - 1) + 1 = i
    BY <2>1, <2>2
  <2>4. pow2[i - 1] \in Nat \ {0}
    BY <2>1, <2>3
  <2>5. pow2[i] = 2 * pow2[i - 1]
    BY <1>10, <2>3
  <2>6. pow2[i] \in Nat \ {0}
    BY <2>4, <2>5
  <2> QED
    BY <2>1, <2>6
<1> QED
  BY <1>9, <1>10, <1>11

\* A smaller power is smaller.
LEMMA Pow2Less == \A n \in Nat, m \in Nat : n < m => pow2[n] < pow2[m]
<1> DEFINE Bad == {m \in Nat : \E n \in Nat : n < m /\ ~(pow2[n] < pow2[m])}
<1>1. ASSUME Bad # {} PROVE FALSE
  <2>1. PICK i \in Bad : \A j \in Bad : ~(j < i)
    BY <1>1, LeastOf
  <2>2. PICK n \in Nat : n < i /\ ~(pow2[n] < pow2[i])
    BY <2>1
  <2>3. i - 1 \in Nat /\ i - 1 < i /\ (i - 1) + 1 = i
    BY <2>1, <2>2
  <2>4. pow2[i] = 2 * pow2[i - 1] /\ pow2[i - 1] \in Nat \ {0} /\ pow2[n] \in Nat
    BY <2>3, Pow2Def
  <2>5. CASE n = i - 1
    BY <2>2, <2>4, <2>5
  <2>6. CASE n # i - 1
    <3>1. n < i - 1
      BY <2>1, <2>2, <2>6
    <3>2. pow2[n] < pow2[i - 1]
      BY <2>1, <2>3, <3>1
    <3> QED
      BY <2>2, <2>4, <3>2
  <2> QED
    BY <2>5, <2>6
<1> QED
  BY <1>1

\* Division.
LEMMA Remainder ==
  ASSUME NEW q \in Nat, NEW r \in Nat, NEW m \in Nat \ {0}, r < m
  PROVE  (m * q + r) % m = r
OBVIOUS

LEMMA Small ==
  ASSUME NEW m \in Nat, NEW x \in Nat, x < m
  PROVE  x % m = x /\ x \div m = 0
OBVIOUS

LEMMA One ==
  ASSUME NEW x \in Nat
  PROVE  x % 1 = 0 /\ x \div 1 = x
OBVIOUS

LEMMA SameBlock ==
  ASSUME NEW x \in Nat, NEW y \in Nat, NEW m \in Nat \ {0}
  PROVE  (x - (x % m) = y - (y % m)) <=> (x \div m = y \div m)
OBVIOUS

\* The number 2^Width.
LEMMA Modulus == Width \in Nat \ {0} /\ pow2[Width] \in Nat \ {0} /\ pow2[Width - 1] \in Nat
<1>1. Width \in Nat \ {0} /\ Width - 1 \in Nat
  BY ScopeAssumption
<1> QED
  BY <1>1, Pow2Def

LEMMA Wrap ==
  ASSUME NEW m \in Nat \ {0}, NEW u \in 0..(m - 1)
  PROVE  u % m = u /\ (u - m) % m = u
OBVIOUS

\* Signed or not, a number of Width bits has the same bits.
LEMMA Unsigned ==
  /\ \A x \in 0..(pow2[Width] - 1) : unsigned(x) = x
  /\ \A x \in Int : unsigned(x) \in 0..(pow2[Width] - 1) /\ unsigned(signed(x)) = unsigned(x)
<1>1. pow2[Width] \in Nat \ {0} /\ pow2[Width - 1] \in Nat
  BY Modulus
<1>2. ASSUME NEW x \in 0..(pow2[Width] - 1) PROVE unsigned(x) = x
  BY <1>1, Wrap DEF unsigned
<1>3. ASSUME NEW x \in Int PROVE unsigned(x) \in 0..(pow2[Width] - 1)
  BY <1>1 DEF unsigned
<1>4. ASSUME NEW x \in Int PROVE unsigned(signed(x)) = unsigned(x)
  <2> DEFINE u == unsigned(x)
             W == pow2[Width]
  <2>1. u \in 0..(W - 1)
    BY <1>3
  <2>2. signed(x) = u \/ signed(x) = u - W
    BY DEF signed
  <2> HIDE DEF u, W
  <2>3. u % W = u /\ (u - W) % W = u
    BY <1>1, <2>1, Wrap DEF W
  <2>4. unsigned(signed(x)) = u
    BY <2>2, <2>3 DEF unsigned, W
  <2> QED
    BY <2>4 DEF u
<1> QED
  BY <1>2, <1>3, <1>4

\* The mask of a prefix length has zeros for the other bits.
LEMMA MaskValue ==
  ASSUME NEW bits \in 1..Width
  PROVE  /\ pow2[Width] - unsigned(mask(bits)) = pow2[Width - bits]
         /\ pow2[Width - bits] \in Nat \ {0}
<1>1. Width \in Nat \ {0}
  BY ScopeAssumption
<1> DEFINE n == Width - bits
           W == pow2[Width]
           k == pow2[n]
<1>2. n \in Nat /\ n < Width /\ (bits # Width => n \in 1..(Width - 1)) /\ (bits = Width => n = 0)
  BY <1>1
<1>3. k \in Nat \ {0} /\ W \in Nat \ {0} /\ k < W
  BY <1>1, <1>2, Pow2Def, Pow2Less
<1>4. CASE bits = Width
  <2>1. k = 1 /\ mask(bits) = W - 1
    BY <1>2, <1>4, Pow2Def DEF mask
  <2>2. unsigned(mask(bits)) = W - 1
    BY <1>3, <2>1, Unsigned
  <2> QED
    BY <1>3, <2>1, <2>2
<1>5. CASE bits # Width
  <2>1. n % Width = n
    BY <1>1, <1>2, Small
  <2>2. mask(bits) = unsigned(signed((-1) * k))
    BY <1>5, <2>1 DEF mask, shiftLeft
  <2>3. (-1) * k \in Int /\ W - k \in 0..(W - 1) /\ (-1) * k = (W - k) - W
    BY <1>3
  <2>4. mask(bits) = unsigned((-1) * k)
    BY <2>2, <2>3, Unsigned
  <2>5. mask(bits) = W - k
    BY <1>3, <2>3, <2>4, Wrap DEF unsigned
  <2>6. unsigned(mask(bits)) = W - k
    BY <2>3, <2>5, Unsigned
  <2> QED
    BY <1>3, <2>6
<1> QED
  BY <1>4, <1>5

\* The bits of an address under a mask.
LEMMA Masked ==
  ASSUME NEW bits \in 1..Width, NEW a \in Addresses
  PROVE  /\ a - (a % pow2[Width - bits]) \in 0..(pow2[Width] - 1)
         /\ unsigned(bitAnd(ipToInt(a), mask(bits))) = a - (a % pow2[Width - bits])
<1> DEFINE k == pow2[Width - bits]
<1>1. k \in Nat \ {0} /\ pow2[Width] - unsigned(mask(bits)) = k /\ pow2[Width] \in Nat \ {0}
  BY MaskValue, Modulus
<1>2. a \in 0..(pow2[Width] - 1)
  BY DEF Addresses
<1>3. unsigned(ipToInt(a)) = a
  BY <1>1, <1>2, Unsigned DEF ipToInt
<1> HIDE DEF k
<1>4. a - (a % k) \in 0..(pow2[Width] - 1)
  BY <1>1, <1>2
<1>5. bitAnd(ipToInt(a), mask(bits)) = signed(a - (a % k))
  BY <1>1, <1>3 DEF bitAnd
<1>6. unsigned(bitAnd(ipToInt(a), mask(bits))) = a - (a % k)
  BY <1>1, <1>4, <1>5, Unsigned
<1> QED
  BY <1>4, <1>6 DEF k

\* ipInCIDR compares the leading bits, at every prefix length.
LEMMA CIDRExact ==
  ASSUME NEW ip \in Addresses, NEW cidr, cidr.net \in Addresses, cidr.bits \in 0..Width
  PROVE  ipInCIDR(ip, cidr)
           <=> ip \div pow2[Width - cidr.bits] = cidr.net \div pow2[Width - cidr.bits]
<1> DEFINE net == cidr.net
           bits == cidr.bits
           k == pow2[Width - bits]
<1>1. Width \in Nat \ {0} /\ pow2[Width] \in Nat \ {0}
  BY Modulus
<1>2. /\ ip \in Nat /\ net \in Nat /\ ip < pow2[Width] /\ net < pow2[Width]
  BY <1>1 DEF Addresses
<1>3. CASE bits = 0
  <2>1. Width - bits = Width
    BY <1>1, <1>3
  <2>2. ip \div pow2[Width] = 0 /\ net \div pow2[Width] = 0
    BY <1>1, <1>2, Small
  <2> QED
    BY <1>3, <2>1, <2>2 DEF ipInCIDR
<1>4. CASE bits # 0
  <2>1. bits \in 1..Width
    BY <1>1, <1>4
  <2> DEFINE x == bitAnd(ipToInt(ip), mask(bits))
             y == bitAnd(ipToInt(net), mask(bits))
  <2>2. ipInCIDR(ip, cidr) <=> x = y
    BY <1>4 DEF ipInCIDR
  <2>3. x = signed(ip - (ip % k)) /\ y = signed(net - (net % k))
    <3>1. pow2[Width] - unsigned(mask(bits)) = k
      BY <2>1, MaskValue
    <3>2. unsigned(ipToInt(ip)) = ip /\ unsigned(ipToInt(net)) = net
      BY <1>1, <1>2, Unsigned DEF ipToInt
    <3> QED
      BY <3>1, <3>2 DEF bitAnd
  <2>4. unsigned(x) = ip - (ip % k) /\ unsigned(y) = net - (net % k)
    BY <2>1, Masked
  <2>5. x = y <=> ip - (ip % k) = net - (net % k)
    BY <2>3, <2>4
  <2>6. k \in Nat \ {0}
    BY <2>1, MaskValue
  <2> QED
    BY <1>2, <2>2, <2>5, <2>6, SameBlock
<1> QED
  BY <1>3, <1>4

\* A value matches the hosts its rule stands for, unless it is in quotes.
LEMMA MatchExact ==
  ASSUME NEW h \in Hosts, NEW v \in Value
  PROVE  /\ matchesAny(h, v) <=> ~v.quoted /\ h \in Denotes(v.rule)
         /\ domainMatches(h, v.rule) <=> ~isCIDR(v.rule) /\ h \in Denotes(v.rule)
<1>1. v.rule \in Rules
  BY DEF Value
<1>2. CASE ~isCIDR(v.rule)
  BY <1>2 DEF matchesAny, domainMatches, Denotes
<1>3. CASE isCIDR(v.rule)
  <2> DEFINE r == v.rule
  <2>1. r.net \in Addresses /\ r.bits \in 0..Width /\ ~isIPv4(r) /\ ~isName(r)
    BY <1>1, <1>3, ScopeAssumption
  <2>2. ~domainMatches(h, r)
    BY <2>1 DEF domainMatches
  <2>3. ASSUME isIPv4(h)
        PROVE  ipInCIDR(h.ip, r) <=> h.ip \div pow2[Width - r.bits] = r.net \div pow2[Width - r.bits]
    BY <2>1, <2>3, CIDRExact, ScopeAssumption
  <2>4. h \in Denotes(r) <=> isIPv4(h) /\ h.ip \div pow2[Width - r.bits] = r.net \div pow2[Width - r.bits]
    BY <1>3, <2>1 DEF Denotes
  <2>5. matchesAny(h, v) <=> ~v.quoted /\ isIPv4(h) /\ ipInCIDR(h.ip, r)
    BY <1>3 DEF matchesAny
  <2> QED
    BY <1>3, <2>2, <2>3, <2>4, <2>5
<1> QED
  BY <1>2, <1>3

-----------------------------------------------------------------------------
(* scope.yaml.                                                              *)

Config == [targets : Seq(Value), allowed_domains : Seq(Value), excluded : Seq(Value),
           enforce : BOOLEAN]
Line == [section : Lists] \cup [item : Value] \cup [enforce : BOOLEAN]
Acc == [section : Lists \cup {"none"}, config : Config]

\* The list vs, and the scope c, without the quotes.
Stripped(vs) == [k \in DOMAIN vs |-> stripValue(vs[k])]
Bare(c) == [targets |-> Stripped(c.targets), allowed_domains |-> Stripped(c.allowed_domains),
            excluded |-> Stripped(c.excluded), enforce |-> c.enforce]

\* The scope c with the list vs under the header list.
With(c, list, vs) == [c EXCEPT ![list] = vs]

LEMMA StripType ==
  ASSUME NEW v \in Value
  PROVE  /\ stripValue(v) \in Value /\ stripValue(v).rule = v.rule /\ stripValue(v).quoted = FALSE
         /\ ~v.quoted => stripValue(v) = v
BY DEF stripValue, Value

LEMMA StrippedType ==
  ASSUME NEW vs \in Seq(Value)
  PROVE  /\ Stripped(vs) \in Seq(Value) /\ DOMAIN Stripped(vs) = DOMAIN vs
         /\ \A k \in DOMAIN vs : Stripped(vs)[k] = stripValue(vs[k])
<1>1. \A k \in 1..Len(vs) : vs[k] \in Value
  OBVIOUS
<1>2. \A v \in Value : stripValue(v) \in Value
  BY StripType
<1> QED
  BY <1>1, <1>2 DEF Stripped

LEMMA WithType ==
  ASSUME NEW c \in Config, NEW list \in Lists, NEW vs \in Seq(Value)
  PROVE  /\ With(c, list, vs) \in Config /\ c[list] \in Seq(Value) /\ With(c, list, vs)[list] = vs
         /\ \A ws \in Seq(Value) : With(With(c, list, vs), list, ws) = With(c, list, ws)
<1>1. CASE list = "targets"
  BY <1>1 DEF With, Config
<1>2. CASE list = "allowed_domains"
  BY <1>2 DEF With, Config
<1>3. CASE list = "excluded"
  BY <1>3 DEF With, Config
<1> QED
  BY <1>1, <1>2, <1>3 DEF Lists

\* The scope with the four entries given.
ScopeOf(t, a, x, e) == [targets |-> t, allowed_domains |-> a, excluded |-> x, enforce |-> e]

LEMMA WithIs ==
  ASSUME NEW t, NEW a, NEW x, NEW e, NEW vs
  PROVE  /\ With(ScopeOf(t, a, x, e), "targets", vs) = ScopeOf(vs, a, x, e)
         /\ With(ScopeOf(t, a, x, e), "allowed_domains", vs) = ScopeOf(t, vs, x, e)
         /\ With(ScopeOf(t, a, x, e), "excluded", vs) = ScopeOf(t, a, vs, e)
         /\ With(ScopeOf(t, a, x, e), "enforce", vs) = ScopeOf(t, a, x, vs)
         /\ ScopeOf(t, a, x, e)["targets"] = t /\ ScopeOf(t, a, x, e)["allowed_domains"] = a
         /\ ScopeOf(t, a, x, e)["excluded"] = x
<1> DEFINE R(T, A, X, E) == [targets : {T}, allowed_domains : {A}, excluded : {X}, enforce : {E}]
           c == ScopeOf(t, a, x, e)
<1>1. c \in R(t, a, x, e)
  BY DEF ScopeOf
<1>2. /\ [c EXCEPT !.targets = vs] \in R(vs, a, x, e) /\ [c EXCEPT !.allowed_domains = vs] \in R(t, vs, x, e)
      /\ [c EXCEPT !.excluded = vs] \in R(t, a, vs, e) /\ [c EXCEPT !.enforce = vs] \in R(t, a, x, vs)
  BY <1>1
<1>3. \A T, A, X, E, r : r \in R(T, A, X, E) => r = ScopeOf(T, A, X, E)
  BY DEF ScopeOf
<1>4. c["targets"] = t /\ c["allowed_domains"] = a /\ c["excluded"] = x
  BY DEF ScopeOf
<1> QED
  BY <1>2, <1>3, <1>4 DEF With

LEMMA ParseLine ==
  ASSUME NEW acc \in Acc
  PROVE  /\ \A list \in Lists : parseLine(acc, Section(list)) = [section |-> list, config |-> acc.config]
         /\ \A v \in Value, list \in Lists : acc.section = list =>
              parseLine(acc, Item(v))
                = [section |-> list,
                   config |-> With(acc.config, list, Append(acc.config[list], stripValue(v)))]
         /\ \A b \in BOOLEAN : parseLine(acc, Enforce(b))
                                 = [section |-> "none", config |-> [acc.config EXCEPT !.enforce = b]]
<1>1. acc = [section |-> acc.section, config |-> acc.config]
  BY DEF Acc
<1>2. ASSUME NEW list \in Lists PROVE parseLine(acc, Section(list)) = [section |-> list, config |-> acc.config]
  BY <1>1 DEF parseLine, Section, Acc
<1>3. ASSUME NEW v \in Value, NEW list \in Lists, acc.section = list
      PROVE  parseLine(acc, Item(v))
                = [section |-> list,
                   config |-> With(acc.config, list, Append(acc.config[list], stripValue(v)))]
  BY <1>1, <1>3 DEF parseLine, Item, Acc, With
<1>4. ASSUME NEW b \in BOOLEAN
      PROVE parseLine(acc, Enforce(b)) = [section |-> "none", config |-> [acc.config EXCEPT !.enforce = b]]
  BY <1>1 DEF parseLine, Enforce, Acc
<1> QED
  BY <1>2, <1>3, <1>4

LEMMA ParseLineType ==
  ASSUME NEW acc \in Acc, NEW line \in Line
  PROVE  parseLine(acc, line) \in Acc
<1>0. acc.config \in Config /\ acc.section \in Lists \cup {"none"}
  BY DEF Acc
<1>1. CASE line \in [section : Lists]
  <2>1. PICK list \in Lists : line = Section(list)
    BY <1>1 DEF Section
  <2> QED
    BY <1>0, <2>1, ParseLine DEF Acc
<1>2. CASE line \in [item : Value]
  <2>1. PICK v \in Value : line = Item(v)
    BY <1>2 DEF Item
  <2>2. CASE acc.section \in Lists
    <3> DEFINE list == acc.section
               vs == Append(acc.config[list], stripValue(v))
    <3>1. acc.config[list] \in Seq(Value) /\ stripValue(v) \in Value
      <4>1. <<>> \in Seq(Value)
        OBVIOUS
      <4>2. acc.config[list] \in Seq(Value)
        BY <1>0, <2>2, <4>1, WithType
      <4>3. stripValue(v) \in Value
        BY StripType
      <4> QED
        BY <4>2, <4>3
    <3>2. vs \in Seq(Value)
      BY <3>1
    <3>3. With(acc.config, list, vs) \in Config
      BY <1>0, <2>2, <3>2, WithType
    <3>4. parseLine(acc, line) = [section |-> list, config |-> With(acc.config, list, vs)]
      BY <2>1, <2>2, ParseLine
    <3> QED
      BY <2>2, <3>3, <3>4 DEF Acc
  <2>3. CASE acc.section \notin Lists
    BY <2>1, <2>3 DEF parseLine, Item
  <2> QED
    BY <2>2, <2>3
<1>3. CASE line \in [enforce : BOOLEAN]
  <2>1. PICK b \in BOOLEAN : line = Enforce(b)
    BY <1>3 DEF Enforce
  <2>2. [acc.config EXCEPT !.enforce = b] \in Config
    BY <1>0 DEF Config
  <2> QED
    BY <2>1, <2>2, ParseLine DEF Acc
<1> QED
  BY <1>1, <1>2, <1>3 DEF Line

\* Parsing runs through the lines from the empty scope.
First == [section |-> "none", config |-> emptyScope]

LEMMA FirstType == First \in Acc /\ emptyScope \in Config
BY DEF First, Acc, Config, emptyScope

Parses(f, lines) ==
  /\ f \in [0..Len(lines) -> Acc] /\ f[0] = First
  /\ \A k \in 0..(Len(lines) - 1) : f[k + 1] = parseLine(f[k], lines[k + 1])

LEMMA ParseRun ==
  ASSUME NEW lines \in Seq(Line)
  PROVE  \E f : Parses(f, lines) /\ parseScopeYaml(lines) = f[Len(lines)].config
<1> DEFINE L == Len(lines)
           step == [n \in Nat |-> [a \in Acc |-> IF n \in 1..L THEN parseLine(a, lines[n]) ELSE a]]
           Def(f) == f = [n \in 0..L |-> IF n = 0 THEN First ELSE parseLine(f[n - 1], lines[n])]
<1>1. L \in Nat /\ \A n \in 1..L : lines[n] \in Line
  OBVIOUS
<1> HIDE DEF L
<1>2. ASSUME NEW n \in Nat, NEW a \in Acc
      PROVE  (IF n \in 1..L THEN parseLine(a, lines[n]) ELSE a) \in Acc
  BY <1>1, ParseLineType
<1>3. step \in [Nat -> [Acc -> Acc]]
  BY <1>2
<1>4. \A n \in 1..L, a \in Acc : step[n][a] = parseLine(a, lines[n])
  BY <1>1
<1> HIDE DEF step
<1>5. PICK g \in [Nat -> Acc] : \A n \in Nat : Iterates(g, n, First, step)
  BY <1>3, FirstType, IterationExists
<1>6. g[0] = First /\ \A k \in 0..(L - 1) : g[k + 1] = step[k + 1][g[k]]
  BY <1>1, <1>5 DEF Iterates
<1> DEFINE f == [n \in 0..L |-> g[n]]
<1>7. /\ f \in [0..L -> Acc] /\ f[0] = First
      /\ \A n \in 0..L : f[n] = g[n] /\ g[n] \in Acc
  BY <1>1, <1>5, <1>6
<1>8. ASSUME NEW n \in 1..L PROVE f[n] = parseLine(f[n - 1], lines[n])
  <2>1. n - 1 \in 0..(L - 1) /\ (n - 1) + 1 = n /\ n - 1 \in 0..L /\ n \in 0..L
    BY <1>1
  <2>2. g[n] = step[n][g[n - 1]] /\ f[n] = g[n] /\ f[n - 1] = g[n - 1] /\ g[n - 1] \in Acc
    BY <1>6, <1>7, <2>1
  <2> QED
    BY <1>4, <2>2
<1> HIDE DEF f
<1>9. Def(f)
  <2>1. \A n \in 0..L : n = 0 \/ n \in 1..L
    BY <1>1
  <2>2. \A n \in 0..L : f[n] = IF n = 0 THEN First ELSE parseLine(f[n - 1], lines[n])
    BY <1>7, <1>8, <2>1
  <2> QED
    BY <1>7, <2>2
<1> DEFINE h == CHOOSE e : Def(e)
<1>10. Def(h)
  BY <1>9
<1>11. parseScopeYaml(lines) = h[L].config
  BY DEF parseScopeYaml, L, First
<1> HIDE DEF h
<1>12. \A n \in 0..L : h[n] = IF n = 0 THEN First ELSE parseLine(h[n - 1], lines[n])
  BY <1>10
<1> HIDE DEF Def
<1> DEFINE Bad == {n \in Nat : n <= L /\ h[n] # f[n]}
<1>13. ASSUME Bad # {} PROVE FALSE
  <2>1. PICK i \in Bad : \A j \in Bad : ~(j < i)
    BY <1>13, LeastOf
  <2>2. i \in Nat /\ i <= L /\ i \in 0..L /\ h[i] # f[i]
    BY <1>1, <2>1
  <2>3. i # 0
    BY <1>1, <1>7, <1>12, <2>2
  <2>4. i - 1 \in Nat /\ i - 1 <= L /\ i - 1 < i /\ i \in 1..L
    BY <1>1, <2>2, <2>3
  <2>5. h[i - 1] = f[i - 1]
    BY <2>1, <2>4
  <2> QED
    BY <1>8, <1>12, <2>2, <2>3, <2>4, <2>5
<1>14. h[L] = f[L]
  BY <1>1, <1>13
<1>15. Parses(f, lines)
  <2>1. ASSUME NEW k \in 0..(L - 1) PROVE f[k + 1] = parseLine(f[k], lines[k + 1])
    <3>1. k + 1 \in 1..L /\ (k + 1) - 1 = k
      BY <1>1
    <3> QED
      BY <1>8, <3>1
  <2> QED
    BY <1>7, <2>1 DEF Parses, L
<1> QED
  BY <1>11, <1>14, <1>15 DEF L

\* After line a come the header of a list and its items vs.
ListAt(lines, a, list, vs) ==
  /\ a \in Nat /\ a + 1 + Len(vs) <= Len(lines)
  /\ lines[a + 1] = Section(list) /\ \A k \in 1..Len(vs) : lines[a + 1 + k] = Item(vs[k])

NothingYet(f, a, list) == f[a].config[list] = <<>>

Reads(f, a, list, vs) ==
  f[a + 1 + Len(vs)] = [section |-> list, config |-> With(f[a].config, list, Stripped(vs))]

\* After these lines the list holds the items.
LEMMA ParseList ==
  ASSUME NEW lines \in Seq(Line), NEW f, Parses(f, lines), NEW list \in Lists,
         NEW vs \in Seq(Value), NEW a, ListAt(lines, a, list, vs), NothingYet(f, a, list)
  PROVE  Reads(f, a, list, vs)
<1> DEFINE c == f[a].config
           St(j) == [section |-> list, config |-> With(c, list, SubSeq(Stripped(vs), 1, j))]
           Bad == {j \in Nat : j <= Len(vs) /\ f[a + 1 + j] # St(j)}
<1>0. /\ a \in Nat /\ a + 1 + Len(vs) <= Len(lines)
      /\ lines[a + 1] = Section(list) /\ \A k \in 1..Len(vs) : lines[a + 1 + k] = Item(vs[k])
      /\ c[list] = <<>>
  BY DEF ListAt, NothingYet
<1>1. /\ Len(lines) \in Nat /\ Len(vs) \in Nat /\ a \in 0..(Len(lines) - 1) /\ a + 1 \in 0..Len(lines)
      /\ \A j \in Nat : j < Len(vs) => /\ a + 1 + j \in 0..(Len(lines) - 1)
                                       /\ (a + 1 + j) + 1 = a + 1 + (j + 1) /\ j + 1 \in 1..Len(vs)
  BY <1>0
<1>2. f[a] \in Acc /\ c \in Config
  <2>1. a \in 0..Len(lines)
    BY <1>1
  <2>2. f[a] \in Acc
    BY <2>1 DEF Parses
  <2> QED
    BY <2>2 DEF Acc
<1>3. /\ Stripped(vs) \in Seq(Value) /\ Len(Stripped(vs)) = Len(vs)
      /\ \A k \in 1..Len(vs) : Stripped(vs)[k] = stripValue(vs[k])
  BY <1>1, StrippedType
<1>4. With(c, list, <<>>) = c
  <2>1. CASE list = "targets"
    BY <1>0, <1>2, <2>1 DEF With, Config
  <2>2. CASE list = "allowed_domains"
    BY <1>0, <1>2, <2>2 DEF With, Config
  <2>3. CASE list = "excluded"
    BY <1>0, <1>2, <2>3 DEF With, Config
  <2> QED
    BY <2>1, <2>2, <2>3 DEF Lists
<1>5. f[a + 1] = [section |-> list, config |-> c]
  BY <1>0, <1>1, <1>2, ParseLine DEF Parses
<1> HIDE DEF c
<1>6. ASSUME Bad # {} PROVE FALSE
  <2>1. PICK i \in Bad : \A j \in Bad : ~(j < i)
    BY <1>6, LeastOf
  <2>2. i \in Nat /\ i <= Len(vs) /\ f[a + 1 + i] # St(i)
    BY <2>1
  <2>3. i # 0
    <3>1. SubSeq(Stripped(vs), 1, 0) = <<>> /\ a + 1 + 0 = a + 1
      BY <1>0, <1>3
    <3> QED
      BY <1>4, <1>5, <2>2, <3>1
  <2> DEFINE j == i - 1
             ws == SubSeq(Stripped(vs), 1, j)
  <2>4. j \in Nat /\ j < i /\ j < Len(vs) /\ j <= Len(vs) /\ j + 1 = i
    BY <1>1, <2>2, <2>3
  <2>5. f[a + 1 + j] = St(j)
    BY <2>1, <2>4
  <2> HIDE DEF j
  <2>6. /\ ws \in Seq(Value) /\ stripValue(vs[i]) \in Value
        /\ SubSeq(Stripped(vs), 1, i) = Append(ws, stripValue(vs[i]))
    <3>1. i \in 1..Len(vs)
      BY <2>2, <2>3
    <3>2. Stripped(vs)[i] = stripValue(vs[i])
      BY <1>3, <3>1
    <3>3. SubSeq(Stripped(vs), 1, j + 1) = Append(ws, Stripped(vs)[j + 1])
      BY <1>3, <2>4
    <3> QED
      BY <1>3, <2>4, <3>1, <3>2, <3>3, StripType
  <2> HIDE DEF ws
  <2>7. With(c, list, ws) \in Config /\ With(c, list, ws)[list] = ws
    BY <1>2, <2>6, WithType
  <2> DEFINE acc == [section |-> list, config |-> With(c, list, ws)]
  <2>8. f[a + 1 + j] = acc
    BY <2>5 DEF ws
  <2>9. acc \in Acc
    BY <2>7 DEF Acc
  <2>10. lines[a + 1 + i] = Item(vs[i]) /\ vs[i] \in Value
    <3>1. i \in 1..Len(vs)
      BY <2>2, <2>3
    <3> QED
      BY <1>0, <3>1
  <2>11. f[a + 1 + i] = parseLine(acc, Item(vs[i]))
    <3>1. a + 1 + j \in 0..(Len(lines) - 1) /\ (a + 1 + j) + 1 = a + 1 + i
      BY <1>0, <1>1, <2>4
    <3> QED
      BY <2>8, <2>10, <3>1 DEF Parses
  <2>12. acc.section = list /\ acc.config = With(c, list, ws)
    OBVIOUS
  <2> HIDE DEF acc
  <2>13. parseLine(acc, Item(vs[i]))
           = [section |-> list,
              config |-> With(acc.config, list, Append(acc.config[list], stripValue(vs[i])))]
    BY <2>9, <2>10, <2>12, ParseLine
  <2>14. With(With(c, list, ws), list, Append(ws, stripValue(vs[i])))
           = With(c, list, Append(ws, stripValue(vs[i])))
    <3>1. Append(ws, stripValue(vs[i])) \in Seq(Value)
      BY <2>6
    <3> QED
      BY <1>2, <2>6, <3>1, WithType
  <2> QED
    BY <2>2, <2>6, <2>7, <2>11, <2>12, <2>13, <2>14
<1>7. f[a + 1 + Len(vs)] = St(Len(vs))
  <2> HIDE DEF St
  <2>1. Bad = {} /\ Len(vs) <= Len(vs)
    BY <1>1, <1>6
  <2> QED
    BY <1>1, <2>1
<1>8. SubSeq(Stripped(vs), 1, Len(vs)) = Stripped(vs)
  BY <1>1, <1>3
<1> QED
  BY <1>7, <1>8 DEF c, Reads

\* z is x followed by y.
Joins(z, x, y) ==
  /\ Len(z) = Len(x) + Len(y) /\ Len(x) \in Nat /\ Len(y) \in Nat
  /\ \A k \in 1..Len(x) : z[k] = x[k]
  /\ \A k \in 1..Len(y) : z[Len(x) + k] = y[k]

LEMMA Joined ==
  ASSUME NEW S, NEW x \in Seq(S), NEW y \in Seq(S)
  PROVE  x \o y \in Seq(S) /\ Joins(x \o y, x, y)
BY DEF Joins

Items(vs) == [k \in DOMAIN vs |-> Item(vs[k])]

\* y is x followed by the lines of a list.
Lengthens(y, x, list, vs) ==
  /\ Len(x) \in Nat /\ Len(vs) \in Nat /\ Len(y) = Len(x) + 1 + Len(vs)
  /\ \A k \in 1..Len(x) : y[k] = x[k]
  /\ y[Len(x) + 1] = Section(list)
  /\ \A k \in 1..Len(vs) : y[Len(x) + 1 + k] = Item(vs[k])

LEMMA Lengthened ==
  ASSUME NEW x \in Seq(Line), NEW list \in Lists, NEW vs \in Seq(Value)
  PROVE  /\ (x \o <<Section(list)>>) \o Items(vs) \in Seq(Line)
         /\ Lengthens((x \o <<Section(list)>>) \o Items(vs), x, list, vs)
<1> DEFINE h == <<Section(list)>>
           i == Items(vs)
           z == x \o h
           y == z \o i
<1>1. h \in Seq(Line) /\ Len(h) = 1 /\ h[1] = Section(list)
  <2>1. Section(list) \in Line
    BY DEF Section, Line
  <2> QED
    BY <2>1
<1>2. i \in Seq(Line) /\ Len(i) = Len(vs) /\ \A k \in 1..Len(vs) : i[k] = Item(vs[k])
  <2>1. \A v \in Value : Item(v) \in Line
    BY DEF Item, Line
  <2>2. \A k \in 1..Len(vs) : vs[k] \in Value
    OBVIOUS
  <2> QED
    BY <2>1, <2>2 DEF Items
<1> HIDE DEF h, i
<1>3. z \in Seq(Line) /\ Joins(z, x, h)
  BY <1>1, Joined
<1> HIDE DEF z
<1>4. y \in Seq(Line) /\ Joins(y, z, i)
  BY <1>2, <1>3, Joined
<1> HIDE DEF y
<1>5. /\ Len(z) = Len(x) + 1 /\ Len(x) \in Nat
      /\ \A k \in 1..Len(x) : z[k] = x[k]
      /\ z[Len(x) + 1] = Section(list)
  BY <1>1, <1>3 DEF Joins
<1>6. Lengthens(y, x, list, vs)
  BY <1>2, <1>4, <1>5 DEF Joins, Lengthens
<1> QED
  BY <1>4, <1>6 DEF y, z, h, i

\* Lines that follow do not matter.
LEMMA ListStays ==
  ASSUME NEW y, NEW x, NEW list, NEW vs, NEW z, NEW w,
         Lengthens(y, x, list, vs), Joins(z, y, w)
  PROVE  ListAt(z, Len(x), list, vs)
BY DEF Lengthens, Joins, ListAt

LEMMA ListStays2 ==
  ASSUME NEW y, NEW x, NEW list, NEW vs, NEW z, NEW list2, NEW vs2,
         Lengthens(y, x, list, vs), Lengthens(z, y, list2, vs2)
  PROVE  ListAt(z, Len(x), list, vs)
BY DEF Lengthens, ListAt

LEMMA ListStays3 ==
  ASSUME NEW y, NEW a, NEW list, NEW vs, NEW z, NEW list2, NEW vs2, Len(vs) \in Nat,
         ListAt(y, a, list, vs), Lengthens(z, y, list2, vs2)
  PROVE  ListAt(z, a, list, vs)
<1>1. a + 1 \in 1..Len(y) /\ \A k \in 1..Len(vs) : a + 1 + k \in 1..Len(y)
  BY DEF Lengthens, ListAt
<1>2. a + 1 + Len(vs) <= Len(z) /\ \A k \in 1..Len(y) : z[k] = y[k]
  BY DEF Lengthens, ListAt
<1> QED
  BY <1>1, <1>2 DEF ListAt

LEMMA ListStays4 ==
  ASSUME NEW y, NEW a, NEW list, NEW vs, NEW z, NEW w, Len(vs) \in Nat,
         ListAt(y, a, list, vs), Joins(z, y, w)
  PROVE  ListAt(z, a, list, vs)
<1>1. a + 1 \in 1..Len(y) /\ \A k \in 1..Len(vs) : a + 1 + k \in 1..Len(y)
  BY DEF Joins, ListAt
<1>2. a + 1 + Len(vs) <= Len(z) /\ \A k \in 1..Len(y) : z[k] = y[k]
  BY DEF Joins, ListAt
<1> QED
  BY <1>1, <1>2 DEF ListAt

\* What is parsed from a saved scope is the scope without its quotes.
LEMMA RoundTrip ==
  ASSUME NEW c \in Config
  PROVE  saveScopeYaml(c) \in Seq(Line) /\ parseScopeYaml(saveScopeYaml(c)) = Bare(c)
<1> DEFINE T == c.targets
           A == c.allowed_domains
           X == c.excluded
           x0 == <<>>
           x1 == (x0 \o <<Section("targets")>>) \o Items(T)
           x2 == (x1 \o <<Section("allowed_domains")>>) \o Items(A)
           x3 == (x2 \o <<Section("excluded")>>) \o Items(X)
           last == <<Enforce(c.enforce)>>
           lines == x3 \o last
<1>1. /\ T \in Seq(Value) /\ A \in Seq(Value) /\ X \in Seq(Value) /\ c.enforce \in BOOLEAN
      /\ "targets" \in Lists /\ "allowed_domains" \in Lists /\ "excluded" \in Lists
      /\ x0 \in Seq(Line) /\ Len(x0) = 0
  BY DEF Config, Lists
<1>2. saveScopeYaml(c) = lines
  BY DEF saveScopeYaml, Items
<1> HIDE DEF T, A, X, x0
<1>3. x1 \in Seq(Line) /\ Lengthens(x1, x0, "targets", T)
  BY <1>1, Lengthened
<1> HIDE DEF x1
<1>4. x2 \in Seq(Line) /\ Lengthens(x2, x1, "allowed_domains", A)
  BY <1>1, <1>3, Lengthened
<1> HIDE DEF x2
<1>5. x3 \in Seq(Line) /\ Lengthens(x3, x2, "excluded", X)
  BY <1>1, <1>4, Lengthened
<1> HIDE DEF x3
<1>6. last \in Seq(Line) /\ Len(last) = 1 /\ last[1] = Enforce(c.enforce)
  <2>1. Enforce(c.enforce) \in Line
    BY <1>1 DEF Enforce, Line
  <2> QED
    BY <2>1
<1> HIDE DEF last
<1>7. lines \in Seq(Line) /\ Joins(lines, x3, last)
  BY <1>5, <1>6, Joined
<1> HIDE DEF lines
<1>8. PICK f : Parses(f, lines) /\ parseScopeYaml(lines) = f[Len(lines)].config
  BY <1>7, ParseRun
<1> DEFINE n1 == Len(x1)
           n2 == Len(x2)
           n3 == Len(x3)
           none == <<>>
           on == TRUE
           c1 == ScopeOf(Stripped(T), none, none, on)
           c2 == ScopeOf(Stripped(T), Stripped(A), none, on)
           c3 == ScopeOf(Stripped(T), Stripped(A), Stripped(X), on)
<1>9. Len(T) \in Nat /\ Len(A) \in Nat /\ Len(X) \in Nat
  BY <1>1
<1>10. ListAt(lines, Len(x0), "targets", T)
  BY <1>3, <1>4, <1>5, <1>7, <1>9, ListStays2, ListStays3, ListStays4
<1>11. ListAt(lines, n1, "allowed_domains", A) /\ ListAt(lines, n2, "excluded", X)
  BY <1>4, <1>5, <1>7, <1>9, ListStays, ListStays2, ListStays4
<1>12. /\ Stripped(T) \in Seq(Value) /\ Stripped(A) \in Seq(Value) /\ Stripped(X) \in Seq(Value)
  BY <1>1, StrippedType
<1>13. f[n1] = [section |-> "targets", config |-> c1]
  <2>1. f[Len(x0)].config = emptyScope
    BY <1>1, <1>8 DEF Parses, First
  <2>2. emptyScope = ScopeOf(none, none, none, on)
    BY DEF emptyScope, ScopeOf
  <2> HIDE DEF none, on
  <2>3. emptyScope["targets"] = none /\ With(emptyScope, "targets", Stripped(T)) = c1
    BY <2>2, WithIs
  <2>4. NothingYet(f, Len(x0), "targets")
    BY <2>1, <2>3 DEF NothingYet, none
  <2>5. Reads(f, Len(x0), "targets", T)
    BY <1>1, <1>7, <1>8, <1>10, <2>4, ParseList
  <2>6. Len(x0) + 1 + Len(T) = n1
    BY <1>3 DEF Lengthens
  <2> QED
    BY <2>1, <2>3, <2>5, <2>6 DEF Reads
<1>14. f[n2] = [section |-> "allowed_domains", config |-> c2]
  <2>1. f[n1].config = c1
    BY <1>13
  <2> HIDE DEF none, on
  <2>2. c1["allowed_domains"] = none /\ With(c1, "allowed_domains", Stripped(A)) = c2
    BY WithIs
  <2> HIDE DEF c1, c2
  <2>3. NothingYet(f, n1, "allowed_domains")
    BY <2>1, <2>2 DEF NothingYet, none
  <2>4. Reads(f, n1, "allowed_domains", A)
    BY <1>1, <1>7, <1>8, <1>11, <2>3, ParseList
  <2>5. n1 + 1 + Len(A) = n2
    BY <1>4 DEF Lengthens
  <2> QED
    BY <2>1, <2>2, <2>4, <2>5 DEF Reads
<1>15. f[n3] = [section |-> "excluded", config |-> c3]
  <2>1. f[n2].config = c2
    BY <1>14
  <2> HIDE DEF none, on
  <2>2. c2["excluded"] = none /\ With(c2, "excluded", Stripped(X)) = c3
    BY WithIs
  <2> HIDE DEF c2, c3
  <2>3. NothingYet(f, n2, "excluded")
    BY <2>1, <2>2 DEF NothingYet, none
  <2>4. Reads(f, n2, "excluded", X)
    BY <1>1, <1>7, <1>8, <1>11, <2>3, ParseList
  <2>5. n2 + 1 + Len(X) = n3
    BY <1>5 DEF Lengthens
  <2> QED
    BY <2>1, <2>2, <2>4, <2>5 DEF Reads
<1>16. c3 \in Config /\ With(c3, "enforce", c.enforce) = Bare(c)
  <2>1. c3 \in Config
    BY <1>12 DEF Config, ScopeOf
  <2> HIDE DEF on
  <2>2. With(c3, "enforce", c.enforce) = ScopeOf(Stripped(T), Stripped(A), Stripped(X), c.enforce)
    BY WithIs
  <2>3. With(c3, "enforce", c.enforce) = Bare(c)
    BY <2>2 DEF Bare, T, A, X, ScopeOf
  <2> QED
    BY <2>1, <2>3
<1> HIDE DEF c3, n3
<1>17. f[Len(lines)] = parseLine(f[n3], Enforce(c.enforce))
  <2>1. /\ Len(lines) = n3 + 1 /\ n3 \in 0..(Len(lines) - 1)
        /\ lines[n3 + 1] = Enforce(c.enforce)
    BY <1>6, <1>7 DEF Joins, n3
  <2> QED
    BY <1>8, <2>1 DEF Parses
<1>18. f[n3] \in Acc
  BY <1>15, <1>16 DEF Acc, Lists
<1>19. f[Len(lines)].config = With(c3, "enforce", c.enforce)
  BY <1>1, <1>15, <1>17, <1>18, ParseLine DEF With
<1> QED
  BY <1>2, <1>7, <1>8, <1>16, <1>19

\* A file that was truncated reads as the empty scope.
LEMMA ParseEmpty == parseScopeYaml(<<>>) = emptyScope
<1>1. <<>> \in Seq(Line) /\ Len(<<>>) = 0
  OBVIOUS
<1>2. PICK f : Parses(f, <<>>) /\ parseScopeYaml(<<>>) = f[Len(<<>>)].config
  BY <1>1, ParseRun
<1> QED
  BY <1>1, <1>2 DEF Parses, First

-----------------------------------------------------------------------------
(* What the files and the running calls hold.                               *)

\* The scope c names no target or domain that nobody has listed, and enforces unless
\* that was turned off; g is what was ever listed, off whether enforcement was ever off.
Fine(c, g, off) ==
  /\ c \in Config /\ (~off => c.enforce)
  /\ \A v \in Range(c.targets) \cup Range(c.allowed_domains) : v.rule \in g

Saved(body, g, off) == body = <<>> \/ \E c \in Config : body = saveScopeYaml(c) /\ Fine(c, g, off)

ProfileOK(p, g, off) ==
  /\ p \in Profile /\ (~off => p.enforce)
  /\ \A v \in Range(p.targets) \cup Range(p.allowed_domains.body) : v.rule \in g

\* The domains of the profile's scope p.
Domains(p) == IF p.allowed_domains.there THEN p.allowed_domains.body ELSE p.targets

\* The scope that is read when scope.yaml is f and the profile's scope is p.
Loads(f, p) ==
  IF f.there THEN parseScopeYaml(f.body)
  ELSE ScopeOf(p.targets, Domains(p), p.excluded, p.enforce)

\* Every exclusion of the scope c that is in force is in the lines body.
KeepsExcluded(c, body) ==
  \A v \in Range(c.excluded) : ~v.quoted => v \in Range(parseScopeYaml(body).excluded)

Shape(p) ==
  /\ p \in [dst : {"none", "scope", "violations"}, body : {p.body}, open : BOOLEAN,
            stale : BOOLEAN, why : {p.why}]
  /\ p.dst = "none" => ~p.open

\* What the running call p owes to the files f and log it read.
Owes(p, f, log, pr, g, off) ==
  /\ p.dst = "scope" => /\ Saved(p.body, g, off)
                        /\ ~p.open /\ ~p.stale /\ p.why # "set" => KeepsExcluded(Loads(f, pr), p.body)
  /\ p.dst = "violations" => /\ p.body \in Seq(Nat)
                             /\ ~p.open /\ ~p.stale => IsStrictPrefix(log.body, p.body)

TypeOK ==
  /\ files = [f \in {"scope", "violations"} |-> files[f]] /\ profile \in Profile
  /\ proc = [s \in Sessions |-> proc[s]] /\ \A s \in Sessions : Shape(proc[s])
  /\ calls \in Nat /\ files["violations"].body \in Seq(Nat)

ScopeInv ==
  /\ TypeOK
  /\ Saved(files["scope"].body, listed, turnedOff) /\ ProfileOK(profile, listed, turnedOff)
  /\ \A s \in Sessions : Owes(proc[s], files["scope"], files["violations"], profile, listed, turnedOff)

LEMMA BareFine ==
  ASSUME NEW c, NEW g, NEW off, Fine(c, g, off)
  PROVE  Fine(Bare(c), g, off)
<1>1. c \in Config /\ c.targets \in Seq(Value) /\ c.allowed_domains \in Seq(Value) /\ c.excluded \in Seq(Value)
  BY DEF Fine, Config
<1>2. Bare(c) \in Config /\ Bare(c).enforce = c.enforce
  BY <1>1, StrippedType DEF Bare, Config
<1>3. ASSUME NEW vs \in Seq(Value), NEW v \in Range(Stripped(vs))
      PROVE  \E w \in Range(vs) : w.rule = v.rule
  <2>1. PICK k \in DOMAIN vs : v = stripValue(vs[k])
    BY StrippedType DEF Range
  <2>2. vs[k] \in Value /\ vs[k] \in Range(vs)
    BY DEF Range
  <2> QED
    BY <2>1, <2>2, StripType
<1>4. Bare(c).targets = Stripped(c.targets) /\ Bare(c).allowed_domains = Stripped(c.allowed_domains)
  BY DEF Bare
<1> QED
  BY <1>1, <1>2, <1>3, <1>4 DEF Fine

\* What is read from a file that is empty or was saved is fine.
LEMMA ParseFine ==
  ASSUME NEW body, NEW g, NEW off, Saved(body, g, off)
  PROVE  Fine(parseScopeYaml(body), g, off)
<1>1. CASE body = <<>>
  <2>1. Range(<<>>) = {}
    BY DEF Range
  <2>2. emptyScope.targets = <<>> /\ emptyScope.allowed_domains = <<>> /\ emptyScope.enforce
    BY DEF emptyScope
  <2>3. Fine(emptyScope, g, off)
    BY <2>1, <2>2, FirstType DEF Fine
  <2> QED
    BY <1>1, <2>3, ParseEmpty
<1>2. ASSUME NEW c \in Config, body = saveScopeYaml(c), Fine(c, g, off)
      PROVE  Fine(parseScopeYaml(body), g, off)
  BY <1>2, RoundTrip, BareFine
<1> QED
  BY <1>1, <1>2 DEF Saved

LEMMA LoadFine ==
  ASSUME NEW f, NEW p, NEW g, NEW off, Saved(f.body, g, off), ProfileOK(p, g, off)
  PROVE  Fine(Loads(f, p), g, off)
<1>1. CASE f.there
  BY <1>1, ParseFine DEF Loads
<1>2. CASE ~f.there
  <2> DEFINE c == ScopeOf(p.targets, Domains(p), p.excluded, p.enforce)
  <2>1. /\ p \in Profile /\ p.targets \in Seq(Value) /\ p.excluded \in Seq(Value) /\ p.enforce \in BOOLEAN
        /\ Domains(p) \in Seq(Value) /\ Domains(p) \in {p.targets, p.allowed_domains.body}
    BY DEF ProfileOK, Profile, Domains
  <2>2. c \in Config /\ c.targets = p.targets /\ c.allowed_domains = Domains(p) /\ c.enforce = p.enforce
    BY <2>1 DEF ScopeOf, Config
  <2> HIDE DEF c
  <2>3. Fine(c, g, off)
    BY <2>1, <2>2 DEF ProfileOK, Fine
  <2> QED
    BY <1>2, <2>3 DEF Loads, c
<1> QED
  BY <1>1, <1>2

\* Nothing listed is ever taken back.
LEMMA Grown ==
  ASSUME NEW g, NEW off \in BOOLEAN, NEW g2, NEW off2 \in BOOLEAN, g \subseteq g2, off => off2
  PROVE  /\ \A c : Fine(c, g, off) => Fine(c, g2, off2)
         /\ \A b : Saved(b, g, off) => Saved(b, g2, off2)
         /\ \A p : ProfileOK(p, g, off) => ProfileOK(p, g2, off2)
         /\ \A p, f, l, pr : Owes(p, f, l, pr, g, off) => Owes(p, f, l, pr, g2, off2)
<1>1. \A c : Fine(c, g, off) => Fine(c, g2, off2)
  BY DEF Fine
<1>2. \A b : Saved(b, g, off) => Saved(b, g2, off2)
  BY <1>1 DEF Saved
<1>3. \A p : ProfileOK(p, g, off) => ProfileOK(p, g2, off2)
  BY DEF ProfileOK
<1>4. \A p, f, l, pr : Owes(p, f, l, pr, g, off) => Owes(p, f, l, pr, g2, off2)
  BY <1>2 DEF Owes
<1> QED
  BY <1>1, <1>2, <1>3, <1>4

\* Saving keeps the exclusions that are in force.
LEMMA SaveKeeps ==
  ASSUME NEW c \in Config, NEW old, \A v \in Range(old.excluded) : ~v.quoted => v \in Range(c.excluded)
  PROVE  KeepsExcluded(old, saveScopeYaml(c))
<1>1. parseScopeYaml(saveScopeYaml(c)).excluded = Stripped(c.excluded)
  BY RoundTrip DEF Bare
<1>2. c.excluded \in Seq(Value)
  BY DEF Config
<1>3. ASSUME NEW v \in Range(c.excluded), ~v.quoted PROVE v \in Range(Stripped(c.excluded))
  <2>1. PICK k \in DOMAIN c.excluded : v = c.excluded[k]
    BY DEF Range
  <2>2. v \in Value
    BY <1>2, <2>1
  <2>3. Stripped(c.excluded)[k] = v /\ k \in DOMAIN Stripped(c.excluded)
    <3>1. Stripped(c.excluded)[k] = stripValue(v) /\ k \in DOMAIN Stripped(c.excluded)
      BY <1>2, <2>1, StrippedType
    <3>2. stripValue(v) = v
      BY <1>3, <2>2, StripType
    <3> QED
      BY <3>1, <3>2
  <2> QED
    BY <2>3 DEF Range
<1> QED
  BY <1>1, <1>3 DEF KeepsExcluded

LEMMA Lengthen ==
  ASSUME NEW S, NEW x \in Seq(S), NEW e \in S
  PROVE  Append(x, e) \in Seq(S) /\ IsStrictPrefix(x, Append(x, e))
<1> DEFINE y == Append(x, e)
<1>1. y \in Seq(S) /\ Len(y) = Len(x) + 1 /\ Len(x) \in Nat /\ \A k \in 1..Len(x) : y[k] = x[k]
  OBVIOUS
<1> HIDE DEF y
<1>2. SubSeq(x, 1, Len(x)) = SubSeq(y, 1, Len(x))
  BY <1>1
<1>3. x # y /\ Len(x) <= Len(y)
  BY <1>1
<1> QED
  BY <1>1, <1>2, <1>3 DEF IsStrictPrefix, IsPrefix, y

-----------------------------------------------------------------------------
(* The steps.                                                               *)

\* A state function and its next value.
LEMMA LoadIs ==
  /\ loadScope = Loads(files["scope"], profile)
  /\ loadScope' = Loads(files["scope"]', profile')
BY DEF loadScope, Loads, ScopeOf, Domains

LEMMA CallShape ==
  ASSUME NEW dst \in {"none", "scope", "violations"}, NEW body, NEW why
  PROVE  /\ Shape(Call(dst, body, why))
         /\ Call(dst, body, why).dst = dst /\ Call(dst, body, why).body = body
         /\ Call(dst, body, why).why = why
BY DEF Call, Shape

LEMMA InitInv == Init => ScopeInv
<1> SUFFICES ASSUME Init PROVE ScopeInv
  OBVIOUS
<1>1. profile \in Profile
  BY ScopeAssumption DEF Init
<1>2. files["scope"].body = <<>> /\ files["violations"].body = <<>>
  BY DEF Init, Absent
<1>3. \A s \in Sessions : proc[s] = Idle
  BY DEF Init
<1>4. Shape(Idle) /\ Idle.dst = "none"
  BY CallShape DEF Idle
<1>5. TypeOK
  <2>1. /\ files = [f \in {"scope", "violations"} |-> files[f]]
        /\ proc = [s \in Sessions |-> proc[s]] /\ calls \in Nat
    BY DEF Init
  <2>2. files["violations"].body \in Seq(Nat)
    BY <1>2
  <2> QED
    BY <1>1, <1>3, <1>4, <2>1, <2>2 DEF TypeOK
<1>6. ProfileOK(profile, listed, turnedOff)
  BY <1>1 DEF Init, ProfileOK
<1>7. Saved(files["scope"].body, listed, turnedOff)
  BY <1>2 DEF Saved
<1>8. \A s \in Sessions :
        Owes(proc[s], files["scope"], files["violations"], profile, listed, turnedOff)
  BY <1>3, <1>4 DEF Owes
<1> QED
  BY <1>5, <1>6, <1>7, <1>8 DEF ScopeInv

\* A call that starts leaves the files alone; what it owes is up to the call.
LEMMA StartInv ==
  ASSUME ScopeInv, NEW s \in Sessions, NEW why, NEW dst \in {"scope", "violations"}, NEW body,
         Start(s, why, dst, body), listed \subseteq listed', turnedOff \in BOOLEAN,
         turnedOff' \in BOOLEAN, turnedOff => turnedOff',
         Owes(Call(dst, body, why), files["scope"], files["violations"], profile, listed', turnedOff')
  PROVE  ScopeInv'
<1>1. /\ files' = files /\ profile' = profile /\ calls' = calls + 1
      /\ proc' = [proc EXCEPT ![s] = Call(dst, body, why)]
  BY DEF Start
<1>2. /\ proc = [t \in Sessions |-> proc[t]] /\ calls \in Nat
      /\ \A t \in Sessions : Shape(proc[t])
  BY DEF ScopeInv, TypeOK
<1>3. /\ proc' = [t \in Sessions |-> proc'[t]]
      /\ \A t \in Sessions : proc'[t] = IF t = s THEN Call(dst, body, why) ELSE proc[t]
  BY <1>1, <1>2
<1>4. Shape(Call(dst, body, why))
  BY CallShape
<1>5. TypeOK'
  <2>1. \A t \in Sessions : Shape(proc'[t])
    BY <1>2, <1>3, <1>4
  <2>2. calls' \in Nat
    BY <1>1, <1>2
  <2> QED
    BY <1>1, <1>3, <2>1, <2>2 DEF ScopeInv, TypeOK
<1>6. ASSUME NEW t \in Sessions
      PROVE  Owes(proc'[t], files["scope"], files["violations"], profile, listed', turnedOff')
  <2>1. Owes(proc[t], files["scope"], files["violations"], profile, listed, turnedOff)
    BY DEF ScopeInv
  <2>2. Owes(proc[t], files["scope"], files["violations"], profile, listed', turnedOff')
    BY <2>1, Grown
  <2> QED
    BY <1>3, <2>2
<1>7. Saved(files["scope"].body, listed', turnedOff') /\ ProfileOK(profile, listed', turnedOff')
  BY Grown DEF ScopeInv
<1> QED
  BY <1>1, <1>5, <1>6, <1>7 DEF ScopeInv

\* The commands that save a scope.
LEMMA SaveInv ==
  ASSUME ScopeInv, NEW s \in Sessions, NEW why, NEW c, Save(s, why, c), listed \subseteq listed',
         turnedOff \in BOOLEAN, Fine(c, listed', turnedOff'),
         why # "set" => \A v \in Range(loadScope.excluded) : ~v.quoted => v \in Range(c.excluded)
  PROVE  ScopeInv'
<1>1. Start(s, why, "scope", saveScopeYaml(c)) /\ turnedOff' \in BOOLEAN /\ (turnedOff => turnedOff')
  BY DEF Save
<1>2. c \in Config /\ Saved(saveScopeYaml(c), listed', turnedOff')
  BY DEF Fine, Saved
<1>3. why # "set" => KeepsExcluded(Loads(files["scope"], profile), saveScopeYaml(c))
  BY <1>2, SaveKeeps, LoadIs
<1>4. Owes(Call("scope", saveScopeYaml(c), why), files["scope"], files["violations"], profile,
           listed', turnedOff')
  BY <1>2, <1>3, CallShape DEF Owes
<1> QED
  BY <1>1, <1>4, StartInv

\* A list with one more value.
LEMMA Included ==
  ASSUME NEW list \in Seq(Value), NEW v \in Value
  PROVE  Include(list, v) \in Seq(Value) /\ Range(Include(list, v)) = Range(list) \cup {v}
<1>1. CASE v \in Range(list)
  BY <1>1 DEF Include
<1>2. CASE v \notin Range(list)
  <2> DEFINE y == Append(list, v)
  <2>1. /\ y \in Seq(Value) /\ y[Len(list) + 1] = v /\ DOMAIN y = DOMAIN list \cup {Len(list) + 1}
        /\ \A k \in DOMAIN list : y[k] = list[k]
    OBVIOUS
  <2>2. Include(list, v) = y
    BY <1>2 DEF Include
  <2> HIDE DEF y
  <2>3. Range(y) = Range(list) \cup {v}
    BY <2>1 DEF Range
  <2> QED
    BY <2>1, <2>2, <2>3
<1> QED
  BY <1>1, <1>2

LEMMA CommandInv ==
  ASSUME ScopeInv, turnedOff \in BOOLEAN, NEW s \in Sessions,
         scopeSet(s) \/ scopeAdd(s) \/ scopeAllowed(s) \/ scopeExclude(s) \/ scopeEnforce(s)
  PROVE  ScopeInv'
<1> DEFINE c == loadScope
<1>1. Fine(c, listed, turnedOff)
  BY LoadIs, LoadFine DEF ScopeInv
<1>2. /\ c \in Config /\ c.targets \in Seq(Value) /\ c.allowed_domains \in Seq(Value)
      /\ c.excluded \in Seq(Value) /\ c.enforce \in BOOLEAN
  BY <1>1 DEF Fine, Config
<1>3. Values \subseteq Value
  BY ScopeAssumption
<1>4. ASSUME scopeSet(s) PROVE ScopeInv'
  <2>1. PICK v \in Values :
          /\ Save(s, "set", [emptyScope EXCEPT !.targets = <<v>>, !.allowed_domains = <<v>>])
          /\ Listed({v.rule})
    BY <1>4 DEF scopeSet
  <2> DEFINE n == [emptyScope EXCEPT !.targets = <<v>>, !.allowed_domains = <<v>>]
  <2>2. n \in Config /\ n.targets = <<v>> /\ n.allowed_domains = <<v>> /\ n.enforce
    <3> DEFINE t == <<v>>
    <3>1. t \in Seq(Value)
      BY <1>3
    <3>2. emptyScope \in Config /\ emptyScope.enforce
      BY FirstType DEF emptyScope
    <3> HIDE DEF t
    <3>3. n \in Config /\ n.targets = t /\ n.allowed_domains = t /\ n.enforce = emptyScope.enforce
      BY <3>1, <3>2 DEF Config, t
    <3> QED
      BY <3>2, <3>3 DEF t
  <2> HIDE DEF n
  <2>3. Range(<<v>>) = {v}
    BY DEF Range
  <2>4. listed' = listed \cup {v.rule}
    BY <2>1 DEF Listed
  <2>5. Fine(n, listed', turnedOff')
    BY <2>2, <2>3, <2>4 DEF Fine
  <2> QED
    BY <2>1, <2>4, <2>5, SaveInv DEF n
<1>5. ASSUME scopeAdd(s) PROVE ScopeInv'
  <2>1. PICK v \in Values : /\ Save(s, "add", [c EXCEPT !.targets = Include(c.targets, v)])
                            /\ Listed({v.rule})
    BY <1>5 DEF scopeAdd
  <2> DEFINE n == [c EXCEPT !.targets = Include(c.targets, v)]
  <2>2. Include(c.targets, v) \in Seq(Value) /\ Range(Include(c.targets, v)) = Range(c.targets) \cup {v}
    BY <1>2, <1>3, Included
  <2>3. /\ n \in Config /\ n.targets = Include(c.targets, v) /\ n.allowed_domains = c.allowed_domains
        /\ n.enforce = c.enforce /\ n.excluded = c.excluded
    BY <1>2, <2>2 DEF Config
  <2> HIDE DEF n
  <2>4. listed' = listed \cup {v.rule} /\ turnedOff' = turnedOff
    BY <2>1 DEF Listed, Save
  <2>5. Fine(n, listed', turnedOff')
    BY <1>1, <2>2, <2>3, <2>4 DEF Fine
  <2>6. \A w \in Range(loadScope.excluded) : ~w.quoted => w \in Range(n.excluded)
    BY <2>3
  <2> QED
    BY <2>1, <2>4, <2>5, <2>6, SaveInv DEF n
<1>6. ASSUME scopeAllowed(s) PROVE ScopeInv'
  <2>1. PICK v \in Values :
          /\ Save(s, "allowed", [c EXCEPT !.allowed_domains = Include(c.allowed_domains, v)])
          /\ Listed({v.rule})
    BY <1>6 DEF scopeAllowed
  <2> DEFINE n == [c EXCEPT !.allowed_domains = Include(c.allowed_domains, v)]
  <2>2. /\ Include(c.allowed_domains, v) \in Seq(Value)
        /\ Range(Include(c.allowed_domains, v)) = Range(c.allowed_domains) \cup {v}
    BY <1>2, <1>3, Included
  <2>3. /\ n \in Config /\ n.allowed_domains = Include(c.allowed_domains, v) /\ n.targets = c.targets
        /\ n.enforce = c.enforce /\ n.excluded = c.excluded
    BY <1>2, <2>2 DEF Config
  <2> HIDE DEF n
  <2>4. listed' = listed \cup {v.rule} /\ turnedOff' = turnedOff
    BY <2>1 DEF Listed, Save
  <2>5. Fine(n, listed', turnedOff')
    BY <1>1, <2>2, <2>3, <2>4 DEF Fine
  <2>6. \A w \in Range(loadScope.excluded) : ~w.quoted => w \in Range(n.excluded)
    BY <2>3
  <2> QED
    BY <2>1, <2>4, <2>5, <2>6, SaveInv DEF n
<1>7. ASSUME scopeExclude(s) PROVE ScopeInv'
  <2>1. PICK v \in Values : /\ Save(s, "exclude", [c EXCEPT !.excluded = Include(c.excluded, v)])
                            /\ Listed({})
    BY <1>7 DEF scopeExclude
  <2> DEFINE n == [c EXCEPT !.excluded = Include(c.excluded, v)]
  <2>2. /\ Include(c.excluded, v) \in Seq(Value)
        /\ Range(Include(c.excluded, v)) = Range(c.excluded) \cup {v}
    BY <1>2, <1>3, Included
  <2>3. /\ n \in Config /\ n.allowed_domains = c.allowed_domains /\ n.targets = c.targets
        /\ n.enforce = c.enforce /\ n.excluded = Include(c.excluded, v)
    BY <1>2, <2>2 DEF Config
  <2> HIDE DEF n
  <2>4. listed' = listed /\ turnedOff' = turnedOff
    BY <2>1 DEF Listed, Save
  <2>5. Fine(n, listed', turnedOff')
    BY <1>1, <2>3, <2>4 DEF Fine
  <2>6. \A w \in Range(loadScope.excluded) : ~w.quoted => w \in Range(n.excluded)
    BY <2>2, <2>3
  <2> QED
    BY <2>1, <2>4, <2>5, <2>6, SaveInv DEF n
<1>8. ASSUME scopeEnforce(s) PROVE ScopeInv'
  <2>1. PICK on \in BOOLEAN : Save(s, "enforce", [c EXCEPT !.enforce = on]) /\ Listed({})
    BY <1>8 DEF scopeEnforce
  <2> DEFINE n == [c EXCEPT !.enforce = on]
  <2>2. /\ n \in Config /\ n.allowed_domains = c.allowed_domains /\ n.targets = c.targets
        /\ n.enforce = on /\ n.excluded = c.excluded
    BY <1>2 DEF Config
  <2>3. turnedOff' = (turnedOff \/ ~n.enforce)
    BY <2>1 DEF Save
  <2> HIDE DEF n
  <2>4. listed' = listed
    BY <2>1 DEF Listed
  <2>5. Fine(n, listed', turnedOff')
    BY <1>1, <2>2, <2>3, <2>4 DEF Fine
  <2>6. \A w \in Range(loadScope.excluded) : ~w.quoted => w \in Range(n.excluded)
    BY <2>2
  <2> QED
    BY <2>1, <2>4, <2>5, <2>6, SaveInv DEF n
<1> QED
  BY <1>4, <1>5, <1>6, <1>7, <1>8

\* The calls that record a violation append to the log they read.
LEMMA RecordInv ==
  ASSUME ScopeInv, turnedOff \in BOOLEAN, NEW s \in Sessions, scope_violation(s) \/ tool_call(s)
  PROVE  ScopeInv'
<1> DEFINE log == files["violations"].body
           body == Append(log, calls + 1)
<1>1. log \in Seq(Nat) /\ calls + 1 \in Nat
  BY DEF ScopeInv, TypeOK
<1>2. body \in Seq(Nat) /\ IsStrictPrefix(log, body)
  BY <1>1, Lengthen
<1>3. PICK why : Start(s, why, "violations", body) /\ listed' = listed /\ turnedOff' = turnedOff
  BY DEF scope_violation, tool_call, recordViolation
<1> HIDE DEF body
<1>4. Owes(Call("violations", body, why), files["scope"], files["violations"], profile,
           listed', turnedOff')
  BY <1>2, CallShape DEF Owes
<1> QED
  BY <1>3, <1>4, StartInv

\* A profile that is replaced excludes nothing any more.
LEMMA ProfileInv ==
  ASSUME ScopeInv, turnedOff \in BOOLEAN, scope_set
  PROVE  ScopeInv'
<1>1. PICK v \in Values, authorized \in BOOLEAN :
        /\ calls' = calls + 1
        /\ profile' = [authorized |-> authorized, targets |-> <<v>>, excluded |-> <<>>,
                       enforce |-> TRUE, allowed_domains |-> Absent]
        /\ Listed({v.rule}) /\ files' = files /\ proc' = proc /\ turnedOff' = turnedOff
  BY DEF scope_set
<1>2. listed' = listed \cup {v.rule} /\ v \in Value
  BY <1>1, ScopeAssumption DEF Listed
<1>3. /\ profile' \in Profile /\ profile'.targets = <<v>> /\ profile'.excluded = <<>> /\ profile'.enforce
      /\ profile'.allowed_domains.body = <<>>
  BY <1>1, <1>2 DEF Profile, Absent
<1>4. ProfileOK(profile', listed', turnedOff')
  <2>1. Range(<<v>>) = {v} /\ Range(<<>>) = {}
    BY DEF Range
  <2> QED
    BY <1>2, <1>3, <2>1 DEF ProfileOK
<1>5. TypeOK'
  BY <1>1, <1>3 DEF ScopeInv, TypeOK
<1>6. Saved(files["scope"].body, listed', turnedOff')
  <2>1. listed \subseteq listed' /\ turnedOff' \in BOOLEAN /\ (turnedOff => turnedOff')
    BY <1>1, <1>2
  <2>2. Saved(files["scope"].body, listed, turnedOff)
    BY DEF ScopeInv
  <2> QED
    BY <2>1, <2>2, Grown
<1>7. ASSUME NEW t \in Sessions
      PROVE  Owes(proc[t], files["scope"], files["violations"], profile', listed', turnedOff')
  <2>1. Owes(proc[t], files["scope"], files["violations"], profile, listed', turnedOff')
    <3>1. listed \subseteq listed' /\ turnedOff' = turnedOff
      BY <1>1, <1>2
    <3>2. Owes(proc[t], files["scope"], files["violations"], profile, listed, turnedOff)
      BY DEF ScopeInv
    <3> QED
      BY <3>1, <3>2, Grown
  <2>2. ASSUME NEW body, KeepsExcluded(Loads(files["scope"], profile), body)
        PROVE  KeepsExcluded(Loads(files["scope"], profile'), body)
    <3>1. CASE files["scope"].there
      BY <2>2, <3>1 DEF Loads
    <3>2. CASE ~files["scope"].there
      <4>1. Loads(files["scope"], profile').excluded = <<>>
        BY <1>3, <3>2 DEF Loads, ScopeOf
      <4>2. Range(<<>>) = {}
        BY DEF Range
      <4> QED
        BY <4>1, <4>2 DEF KeepsExcluded
    <3> QED
      BY <3>1, <3>2
  <2> QED
    BY <2>1, <2>2 DEF Owes
<1> QED
  BY <1>1, <1>4, <1>5, <1>6, <1>7 DEF ScopeInv

\* A call that another one overtook owes no more than a file that can be read.
LEMMA StaleOwes ==
  ASSUME NEW p, Shape(p), NEW f, NEW l, NEW f2, NEW l2, NEW pr, NEW g, NEW off,
         Owes(p, f, l, pr, g, off)
  PROVE  /\ Shape([p EXCEPT !.stale = TRUE])
         /\ Owes([p EXCEPT !.stale = TRUE], f2, l2, pr, g, off)
<1> DEFINE q == [p EXCEPT !.stale = TRUE]
<1>1. /\ q.dst = p.dst /\ q.body = p.body /\ q.open = p.open /\ q.why = p.why /\ q.stale
      /\ q \in [dst : {"none", "scope", "violations"}, body : {p.body}, open : BOOLEAN,
                stale : BOOLEAN, why : {p.why}]
  BY DEF Shape
<1> HIDE DEF q
<1>2. Shape(q)
  BY <1>1 DEF Shape
<1>3. Owes(q, f2, l2, pr, g, off)
  BY <1>1 DEF Owes
<1> QED
  BY <1>2, <1>3 DEF q

\* A call on another file is not concerned.
LEMMA OtherOwes ==
  ASSUME NEW p, NEW f, NEW l, NEW f2, NEW l2, NEW pr, NEW g, NEW off, Owes(p, f, l, pr, g, off),
         p.dst = "scope" => f2 = f, p.dst = "violations" => l2 = l
  PROVE  Owes(p, f2, l2, pr, g, off)
BY DEF Owes

\* A call that rewrites its file overtakes the others on that file: new is what it
\* goes on with and body what the file holds now.
LEMMA WriteInv ==
  ASSUME ScopeInv, NEW s \in Sessions, NEW d \in {"scope", "violations"}, NEW new, NEW body,
         Shape(new),
         files' = [files EXCEPT ![d] = File(body)],
         proc' = Overtaken(s, d, [proc EXCEPT ![s] = new]),
         UNCHANGED <<profile, calls, listed, turnedOff>>,
         d = "scope" => Saved(body, listed, turnedOff),
         d = "violations" => body \in Seq(Nat),
         Owes(new, files'["scope"], files'["violations"], profile, listed, turnedOff)
  PROVE  ScopeInv'
<1>1. /\ files = [f \in {"scope", "violations"} |-> files[f]]
      /\ proc = [t \in Sessions |-> proc[t]] /\ \A t \in Sessions : Shape(proc[t])
      /\ files["violations"].body \in Seq(Nat) /\ Saved(files["scope"].body, listed, turnedOff)
  BY DEF ScopeInv, TypeOK
<1>2. /\ files' = [f \in {"scope", "violations"} |-> files'[f]]
      /\ \A f \in {"scope", "violations"} : files'[f] = IF f = d THEN File(body) ELSE files[f]
  BY <1>1
<1>3. File(body).body = body
  BY DEF File
<1>4. Saved(files'["scope"].body, listed, turnedOff) /\ files'["violations"].body \in Seq(Nat)
  BY <1>1, <1>2, <1>3
<1>5. /\ proc' = [t \in Sessions |-> proc'[t]] /\ proc'[s] = new
      /\ \A t \in Sessions : t # s => proc'[t] = IF proc[t].dst = d THEN [proc[t] EXCEPT !.stale = TRUE]
                                                ELSE proc[t]
  BY <1>1 DEF Overtaken
<1>6. ASSUME NEW t \in Sessions
      PROVE  /\ Shape(proc'[t])
             /\ Owes(proc'[t], files'["scope"], files'["violations"], profile, listed, turnedOff)
  <2>1. Owes(proc[t], files["scope"], files["violations"], profile, listed, turnedOff)
    BY DEF ScopeInv
  <2>2. CASE t = s
    BY <1>5, <2>2
  <2>3. CASE t # s /\ proc[t].dst = d
    <3> DEFINE q == [proc[t] EXCEPT !.stale = TRUE]
    <3>1. Shape(q) /\ Owes(q, files'["scope"], files'["violations"], profile, listed, turnedOff)
      BY <1>1, <2>1, StaleOwes
    <3>2. proc'[t] = q
      BY <1>5, <2>3
    <3> HIDE DEF q
    <3> QED
      BY <3>1, <3>2
  <2>4. CASE t # s /\ proc[t].dst # d
    <3>1. /\ proc[t].dst = "scope" => files'["scope"] = files["scope"]
          /\ proc[t].dst = "violations" => files'["violations"] = files["violations"]
      BY <1>2, <2>4
    <3>2. Owes(proc[t], files'["scope"], files'["violations"], profile, listed, turnedOff)
      BY <2>1, <3>1, OtherOwes
    <3>3. proc'[t] = proc[t]
      BY <1>5, <2>4
    <3> QED
      BY <1>1, <3>2, <3>3
  <2> QED
    BY <2>2, <2>3, <2>4
<1>7. TypeOK'
  BY <1>2, <1>4, <1>5, <1>6 DEF ScopeInv, TypeOK
<1> QED
  BY <1>4, <1>6, <1>7 DEF ScopeInv

LEMMA FileInv ==
  ASSUME ScopeInv, NEW s \in Sessions, Open(s) \/ Write(s) \/ Crash(s)
  PROVE  ScopeInv'
<1> DEFINE p == proc[s]
<1>1. /\ Shape(p) /\ proc = [t \in Sessions |-> proc[t]]
      /\ Owes(p, files["scope"], files["violations"], profile, listed, turnedOff)
  BY DEF ScopeInv, TypeOK
<1>2. Shape(Idle) /\ Idle.dst = "none"
  BY CallShape DEF Idle
<1>3. ASSUME Open(s) PROVE ScopeInv'
  <2> DEFINE new == [p EXCEPT !.open = TRUE]
  <2>1. p.dst \in {"scope", "violations"}
    BY <1>1, <1>3 DEF Open, Shape
  <2>2. [proc EXCEPT ![s].open = TRUE] = [proc EXCEPT ![s] = new]
    OBVIOUS
  <2>3. /\ files' = [files EXCEPT ![p.dst] = File(<<>>)]
        /\ proc' = Overtaken(s, p.dst, [proc EXCEPT ![s] = new])
        /\ UNCHANGED <<profile, calls, listed, turnedOff>>
    BY <1>3, <2>2 DEF Open
  <2>4. /\ new.dst = p.dst /\ new.body = p.body /\ new.open /\ new.why = p.why
        /\ new \in [dst : {"none", "scope", "violations"}, body : {p.body}, open : BOOLEAN,
                   stale : BOOLEAN, why : {p.why}]
    BY <1>1 DEF Shape
  <2> HIDE DEF new
  <2>5. Shape(new)
    BY <2>1, <2>4 DEF Shape
  <2>6. Owes(new, files'["scope"], files'["violations"], profile, listed, turnedOff)
    BY <1>1, <2>4 DEF Owes
  <2>7. Saved(<<>>, listed, turnedOff) /\ <<>> \in Seq(Nat)
    BY DEF Saved
  <2> QED
    BY <2>1, <2>3, <2>5, <2>6, <2>7, WriteInv
<1>4. ASSUME Write(s) PROVE ScopeInv'
  <2>1. p.dst \in {"scope", "violations"} /\ p.open
    BY <1>1, <1>4 DEF Write, Shape
  <2>2. /\ files' = [files EXCEPT ![p.dst] = File(p.body)]
        /\ proc' = Overtaken(s, p.dst, [proc EXCEPT ![s] = Idle])
        /\ UNCHANGED <<profile, calls, listed, turnedOff>>
    BY <1>4 DEF Write
  <2>3. /\ p.dst = "scope" => Saved(p.body, listed, turnedOff)
        /\ p.dst = "violations" => p.body \in Seq(Nat)
    BY <1>1 DEF Owes
  <2>4. Owes(Idle, files'["scope"], files'["violations"], profile, listed, turnedOff)
    BY <1>2 DEF Owes
  <2> QED
    BY <1>2, <2>1, <2>2, <2>3, <2>4, WriteInv
<1>5. ASSUME Crash(s) PROVE ScopeInv'
  <2>1. proc' = [proc EXCEPT ![s] = Idle] /\ UNCHANGED <<files, profile, calls, listed, turnedOff>>
    BY <1>5 DEF Crash
  <2>2. /\ proc' = [t \in Sessions |-> proc'[t]]
        /\ \A t \in Sessions : proc'[t] = IF t = s THEN Idle ELSE proc[t]
    BY <1>1, <2>1
  <2>3. TypeOK'
    BY <1>2, <2>1, <2>2 DEF ScopeInv, TypeOK
  <2>4. Owes(Idle, files["scope"], files["violations"], profile, listed, turnedOff)
    BY <1>2 DEF Owes
  <2> QED
    BY <2>1, <2>2, <2>3, <2>4 DEF ScopeInv
<1> QED
  BY <1>3, <1>4, <1>5

\* turnedOff is a Boolean.
LEMMA OffType ==
  /\ Init => turnedOff \in BOOLEAN
  /\ turnedOff \in BOOLEAN /\ [Next]_vars => turnedOff' \in BOOLEAN
<1>1. Init => turnedOff \in BOOLEAN
  BY DEF Init
<1>2. ASSUME turnedOff \in BOOLEAN, [Next]_vars PROVE turnedOff' \in BOOLEAN
  <2>1. CASE UNCHANGED vars
    BY <1>2, <2>1 DEF vars
  <2>2. CASE scope_set
    BY <1>2, <2>2 DEF scope_set
  <2>3. ASSUME NEW s \in Sessions, scopeSet(s) \/ scopeAdd(s) \/ scopeAllowed(s) \/ scopeExclude(s) \/ scopeEnforce(s)
        PROVE  turnedOff' \in BOOLEAN
    BY <2>3 DEF scopeSet, scopeAdd, scopeAllowed, scopeExclude, scopeEnforce, Save
  <2>4. ASSUME NEW s \in Sessions, scope_violation(s) \/ tool_call(s) \/ Open(s) \/ Write(s) \/ Crash(s)
        PROVE  turnedOff' \in BOOLEAN
    BY <1>2, <2>4 DEF scope_violation, tool_call, Open, Write, Crash
  <2> QED
    BY <1>2, <2>1, <2>2, <2>3, <2>4 DEF Next
<1> QED
  BY <1>1, <1>2

LEMMA StepInv ==
  ASSUME ScopeInv, turnedOff \in BOOLEAN, [Next]_vars
  PROVE  ScopeInv'
<1>1. CASE UNCHANGED vars
  BY <1>1 DEF vars, ScopeInv, TypeOK
<1>2. CASE scope_set
  BY <1>2, ProfileInv
<1>3. ASSUME NEW s \in Sessions, scopeSet(s) \/ scopeAdd(s) \/ scopeAllowed(s) \/ scopeExclude(s) \/ scopeEnforce(s)
      PROVE  ScopeInv'
  BY <1>3, CommandInv
<1>4. ASSUME NEW s \in Sessions, scope_violation(s) \/ tool_call(s) PROVE ScopeInv'
  BY <1>4, RecordInv
<1>5. ASSUME NEW s \in Sessions, Open(s) \/ Write(s) \/ Crash(s) PROVE ScopeInv'
  BY <1>5, FileInv
<1> QED
  BY <1>1, <1>2, <1>3, <1>4, <1>5 DEF Next

\* The inductive invariant: scope.yaml is empty or a scope somebody saved that names
\* nothing nobody has listed, and every call about to write owes its file what it read.
THEOREM ScopeSafe == Spec => [](ScopeInv /\ turnedOff \in BOOLEAN)
<1>1. Init => ScopeInv /\ turnedOff \in BOOLEAN
  BY InitInv, OffType
<1>2. (ScopeInv /\ turnedOff \in BOOLEAN) /\ [Next]_vars => (ScopeInv /\ turnedOff \in BOOLEAN)'
  BY StepInv, OffType
<1> QED
  BY <1>1, <1>2, PTL DEF Spec

-----------------------------------------------------------------------------
(* The properties.                                                          *)

LEMMA ListIn == ASSUME NEW vs \in Seq(Value) PROVE \A v \in Range(vs) : v \in Value
BY DEF Range

\* The hook of tool_call lets a command run only on hosts that a rule covers which some
\* command or the profile has listed, with the flag authorized set or not, unless
\* enforcement was turned off: no crash, torn file or overlap of sessions opens the guard.
THEOREM GuardFailsClosed == Spec => []FailsClosed
<1>1. ASSUME ScopeInv, turnedOff \in BOOLEAN PROVE FailsClosed
  <2> SUFFICES ASSUME ~turnedOff, NEW h \in Hosts, h \notin UNION {Denotes(r) : r \in listed},
                      mayRun(h, loadScope)
               PROVE  FALSE
    BY DEF FailsClosed
  <2> DEFINE c == loadScope
  <2>1. Fine(c, listed, turnedOff)
    BY <1>1, LoadIs, LoadFine DEF ScopeInv
  <2>2. /\ c \in Config /\ c.targets \in Seq(Value) /\ c.allowed_domains \in Seq(Value) /\ c.enforce
        /\ \A v \in Range(c.targets) \cup Range(c.allowed_domains) : v.rule \in listed
    BY <2>1 DEF Fine, Config
  <2> HIDE DEF c
  <2>3. checkScope(h, c) = "authorized"
    BY <2>2 DEF mayRun, c
  <2>4. PICK v \in Range(c.targets) \cup Range(c.allowed_domains) :
          matchesAny(h, v) \/ domainMatches(h, v.rule)
    BY <2>3 DEF checkScope
  <2>5. v \in Value
    BY <2>2, ListIn
  <2>6. h \in Denotes(v.rule)
    BY <2>4, <2>5, MatchExact
  <2> QED
    BY <2>2, <2>6
<1> QED
  BY <1>1, ScopeSafe, PTL

\* checkScope decides by membership in the sets that the entries of the saved and
\* parsed scope stand for, exclusion first, for every width and prefix length.
THEOREM DecisionsExact == Spec => []DecisionExact
<1>1. ASSUME ScopeInv, turnedOff \in BOOLEAN PROVE DecisionExact
  <2> DEFINE c == loadScope
             Of(list) == UNION {Denotes(v.rule) : v \in {w \in Range(list) : ~w.quoted}}
  <2>1. Fine(c, listed, turnedOff)
    BY <1>1, LoadIs, LoadFine DEF ScopeInv
  <2>2. /\ c.targets \in Seq(Value) /\ c.allowed_domains \in Seq(Value) /\ c.excluded \in Seq(Value)
    BY <2>1 DEF Fine, Config
  <2> HIDE DEF c
  <2>3. ASSUME NEW list \in Seq(Value), NEW h \in Hosts
        PROVE  (\E v \in Range(list) : matchesAny(h, v)) <=> h \in Of(list)
    BY ListIn, MatchExact
  <2>4. ASSUME NEW h \in Hosts
        PROVE  (\E v \in Range(c.allowed_domains) : ~v.quoted /\ domainMatches(h, v.rule))
                 <=> (\E v \in Range(c.allowed_domains) :
                        ~v.quoted /\ ~isCIDR(v.rule) /\ h \in Denotes(v.rule))
    BY <2>2, ListIn, MatchExact
  <2> HIDE DEF Of
  <2>5. ASSUME NEW h \in Hosts
        PROVE  checkScope(h, c) = IF h \in Of(c.excluded) THEN "excluded"
                                  ELSE IF \/ h \in Of(c.targets)
                                          \/ \E v \in Range(c.allowed_domains) :
                                               ~v.quoted /\ ~isCIDR(v.rule) /\ h \in Denotes(v.rule)
                                  THEN "authorized" ELSE "out of scope"
    BY <2>2, <2>3, <2>4 DEF checkScope
  <2> QED
    BY <2>5 DEF DecisionExact, Of, c
<1> QED
  BY <1>1, ScopeSafe, PTL

\* Every command but /scope set keeps every exclusion in force, also the one that
\* moves the scope from profile.json to scope.yaml, unless another session overlaps.
THEOREM ExclusionsKept == Spec => ExclusionKept
<1> DEFINE A == \A s \in Sessions :
                  Open(s) /\ proc[s].dst = "scope" /\ proc[s].why # "set" /\ ~proc[s].stale
                    => LET old == loadScope
                           new == parseScopeYaml(proc[s].body)
                       IN \A h \in Hosts : checkScope(h, old) = "excluded"
                                             => checkScope(h, new) = "excluded"
<1>1. ASSUME ScopeInv, turnedOff \in BOOLEAN PROVE A
  <2> SUFFICES ASSUME NEW s \in Sessions, Open(s), proc[s].dst = "scope", proc[s].why # "set",
                      ~proc[s].stale, NEW h \in Hosts, checkScope(h, loadScope) = "excluded"
               PROVE  checkScope(h, parseScopeYaml(proc[s].body)) = "excluded"
    OBVIOUS
  <2> DEFINE c == loadScope
             n == parseScopeYaml(proc[s].body)
  <2>1. KeepsExcluded(c, proc[s].body)
    BY <1>1, LoadIs DEF ScopeInv, Owes, Open
  <2>2. PICK v \in Range(c.excluded) : matchesAny(h, v)
    BY DEF checkScope
  <2>3. v \in Range(n.excluded)
    BY <2>1, <2>2 DEF KeepsExcluded, matchesAny
  <2> QED
    BY <2>2, <2>3 DEF checkScope
<1> QED
  BY <1>1, ScopeSafe, PTL DEF ExclusionKept

\* A recording that nobody overlapped keeps every earlier violation, in order.
THEOREM LogKept == Spec => ViolationsKept
<1> DEFINE A == \A s \in Sessions : Open(s) /\ proc[s].dst = "violations" /\ ~proc[s].stale
                                       => IsStrictPrefix(files["violations"].body, proc[s].body)
<1>1. ASSUME ScopeInv, turnedOff \in BOOLEAN PROVE A
  BY <1>1 DEF ScopeInv, Owes, Open
<1> QED
  BY <1>1, ScopeSafe, PTL DEF ViolationsKept
=============================================================================
