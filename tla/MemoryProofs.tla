---------------------------- MODULE MemoryProofs ----------------------------
(***************************************************************************)
(* Proofs about CollectiveMemory and about LearningLoop, which extends it, *)
(* for any number of sessions, items, lessons and calls.                   *)
(* Of the memory: Result says what the copy a call is about to save owes   *)
(* to the copy it read; the invariant carries that through the overlaps.   *)
(* Of the lessons: an index names only lessons whose file was written      *)
(* before, a lesson learned alone is complete, and a memory tool that      *)
(* nobody overtook keeps the lessons.                                      *)
(***************************************************************************)
EXTENDS LearningLoop, ListOpsProofs

-----------------------------------------------------------------------------
(* Collective memory.                                                       *)

Item == [id : Nat, level : Levels, category : Categories, key : Keys, agent : Agents,
         value : Nat \ {0}, updated : Nat, hits : Nat]

\* The content of the file; the learning loop is not part of this specification.
Store == [at : {"ok"}, items : Seq(Item), counter : Nat, entries : {{}}]

Whys == {"store", "read", "prune", "force"}
Call == [at : {"loaded", "open"}, why : Whys, m : Store, new : {{}} \cup {{n} : n \in Item},
         stale : BOOLEAN]

TypeOK ==
  /\ file \in Store \cup {Absent, Torn}
  /\ proc \in [Sessions -> Call \cup {Idle}]
  /\ clock \in Nat /\ calls \in Nat
  /\ last \in [Slots -> Nat] /\ given \in SUBSET Nat /\ damaged \in BOOLEAN

\* Slots and ids are unique, and the counter is ahead of every id.
Unique(m) ==
  /\ \A k, j \in DOMAIN m.items : k # j => /\ slot(m.items[k]) # slot(m.items[j])
                                           /\ m.items[k].id # m.items[j].id
  /\ \A k \in DOMAIN m.items : m.items[k].id <= m.counter

\* m is the map l: an item for each slot that has a value, and no other.
Mirrors(m, l) ==
  /\ \A k \in DOMAIN m.items : l[slot(m.items[k])] = m.items[k].value
  /\ \A x \in Slots : (\A k \in DOMAIN m.items : slot(m.items[k]) # x) => l[x] = 0

\* The map after a call has written m.
After(l, why, m, new) ==
  [x \in Slots |-> IF \E n \in new : slot(n) = x THEN (CHOOSE n \in new : TRUE).value
                   ELSE IF why \in {"prune", "force"} /\ x \notin {slot(i) : i \in Range(m.items)}
                   THEN 0 ELSE l[x]]

\* Every durable item of m0 is an item of m.
KeepsDurable(m0, m) ==
  \A i \in Range(m0.items) : i.category \in Durable
    => \E j \in Range(m.items) : j.id = i.id /\ slot(j) = slot(i)

\* What a call that read m0 leaves in the copy m it is going to save.
Result(m0, why, m, new) ==
  /\ m \in Store /\ Unique(m) /\ m0.counter <= m.counter
  /\ \A n \in new : m0.counter < n.id
  /\ \A l \in [Slots -> Nat] : Mirrors(m0, l) => Mirrors(m, After(l, why, m, new))
  /\ why # "force" => KeepsDurable(m0, m)

\* What a running call p owes, when the file is f, the map of what was stored
\* l, the ids handed out g, and d whether something was damaged.
Owes(p, f, l, g, d) ==
  /\ Unique(p.m)
  /\ (~d /\ ~p.stale) =>
        /\ Mirrors(p.m, After(l, p.why, p.m, p.new))
        /\ \A id \in g : id <= p.m.counter
        /\ \A n \in p.new : n.id \notin g
  /\ (p.at = "loaded" /\ ~p.stale /\ f.at = "ok" /\ p.why # "force") => KeepsDurable(f, p.m)

\* What the file says, unless somebody is about to write it.
FileInv ==
  /\ Unique(load)
  /\ (~damaged /\ file # Torn) => Mirrors(load, last) /\ \A id \in given : id <= load.counter

MemoryInv ==
  /\ TypeOK /\ FileInv
  /\ \A s \in Sessions : proc[s] # Idle => Owes(proc[s], file, last, given, damaged)

-----------------------------------------------------------------------------
(* Slots.                                                                   *)

LEMMA SlotType == \A i \in Item : slot(i) \in Slots
BY DEF slot, Slots, Item, Levels

LEMMA Refreshed ==
  ASSUME NEW i \in Item, NEW n \in Item, slot(i) = slot(n)
  PROVE  /\ refreshed(i, n) \in Item /\ slot(refreshed(i, n)) = slot(n)
         /\ refreshed(i, n).id = i.id /\ refreshed(i, n).value = n.value
<1> DEFINE r == refreshed(i, n)
<1>1. /\ r \in Item /\ r.id = i.id /\ r.value = n.value /\ r.level = i.level
      /\ r.category = i.category /\ r.key = i.key /\ r.agent = n.agent
  BY DEF refreshed, Item
<1>2. i.level = n.level /\ i.category = n.category /\ i.key = n.key
  BY DEF slot
<1> HIDE DEF r
<1>3. slot(r) = slot(n)
  BY <1>1, <1>2 DEF slot
<1> QED
  BY <1>1, <1>3 DEF r

\* An item that a query found.
Hit(i) == [i EXCEPT !.hits = i.hits + 1]

LEMMA HitType ==
  ASSUME NEW i \in Item
  PROVE  /\ Hit(i) \in Item /\ slot(Hit(i)) = slot(i) /\ Hit(i).id = i.id
         /\ Hit(i).value = i.value
<1> DEFINE r == Hit(i)
<1>1. /\ r \in Item /\ r.id = i.id /\ r.value = i.value /\ r.level = i.level
      /\ r.category = i.category /\ r.key = i.key /\ r.agent = i.agent
  BY DEF Hit, Item
<1> HIDE DEF r
<1>2. slot(r) = slot(i)
  BY <1>1 DEF slot
<1> QED
  BY <1>1, <1>2 DEF r

-----------------------------------------------------------------------------
(* What the calls save.                                                     *)

\* Two copies with the same slots and ids at the same places.
LEMMA ReadResult ==
  ASSUME NEW m0 \in Store, Unique(m0), NEW found
  PROVE  Result(m0, "read", [m0 EXCEPT !.items = markAccessed(m0.items, found)], {})
<1> DEFINE x == m0.items
           y == markAccessed(x, found)
           m == [m0 EXCEPT !.items = y]
<1>1. x \in Seq(Item) /\ \A k \in DOMAIN x : x[k] \in Item
  BY DEF Store
<1>2. y = [k \in DOMAIN x |-> IF k \in found THEN Hit(x[k]) ELSE x[k]]
  BY DEF markAccessed, Hit
<1> HIDE DEF y
<1>3. /\ DOMAIN y = DOMAIN x
      /\ \A k \in DOMAIN x : /\ y[k] \in Item /\ slot(y[k]) = slot(x[k])
                             /\ y[k].id = x[k].id /\ y[k].value = x[k].value
  BY <1>1, <1>2, HitType
<1>4. y \in Seq(Item)
  <2>1. DOMAIN x = 1..Len(x) /\ Len(x) \in Nat
    BY <1>1
  <2>2. y \in [1..Len(x) -> Item]
    BY <1>2, <1>3, <2>1
  <2> QED
    BY <2>1, <2>2
<1>5. m \in Store /\ m.items = y /\ m.counter = m0.counter
  BY <1>4 DEF Store
<1> HIDE DEF m
<1>6. Unique(m)
  BY <1>3, <1>5 DEF Unique
<1>7. ASSUME NEW l \in [Slots -> Nat], Mirrors(m0, l) PROVE Mirrors(m, After(l, "read", m, {}))
  <2>1. After(l, "read", m, {}) = l
    BY DEF After
  <2> QED
    BY <1>3, <1>5, <1>7, <2>1 DEF Mirrors
<1>8. KeepsDurable(m0, m)
  BY <1>3, <1>5 DEF KeepsDurable, Range
<1>9. m0.counter <= m.counter
  BY <1>5 DEF Store
<1> QED
  BY <1>5, <1>6, <1>7, <1>8, <1>9 DEF Result, m, y

\* m with other items and another counter.
Stored(m, y, c) == [m EXCEPT !.items = y, !.counter = c]

LEMMA StoredType ==
  ASSUME NEW m \in Store, NEW y \in Seq(Item), NEW c \in Nat
  PROVE  Stored(m, y, c) \in Store /\ Stored(m, y, c).items = y /\ Stored(m, y, c).counter = c
BY DEF Stored, Store

LEMMA AppendResult ==
  ASSUME NEW m0 \in Store, Unique(m0), NEW n \in Item, n.id = m0.counter + 1,
         \A k \in DOMAIN m0.items : slot(m0.items[k]) # slot(n)
  PROVE  Result(m0, "store", Stored(m0, Append(m0.items, n), m0.counter + 1), {n})
<1> DEFINE x == m0.items
           y == Append(x, n)
           m == Stored(m0, y, m0.counter + 1)
<1>1. x \in Seq(Item) /\ m0.counter \in Nat /\ \A k \in DOMAIN x : x[k] \in Item
  BY DEF Store
<1>2. /\ y \in Seq(Item) /\ Len(y) = Len(x) + 1 /\ y[Len(x) + 1] = n /\ Len(x) \in Nat
      /\ DOMAIN y = DOMAIN x \cup {Len(x) + 1} /\ Len(x) + 1 \notin DOMAIN x
      /\ \A k \in DOMAIN x : y[k] = x[k]
  BY <1>1
<1> HIDE DEF y
<1>3. m \in Store /\ m.items = y /\ m.counter = m0.counter + 1
  <2>1. m0.counter + 1 \in Nat
    BY <1>1
  <2> QED
    BY <1>2, <2>1, StoredType
<1> HIDE DEF m
<1>4. \A k \in DOMAIN x : x[k].id <= m0.counter /\ x[k].id \in Nat
  BY <1>1 DEF Unique, Item
<1>5. Unique(m)
  <2>1. \A k \in DOMAIN x : x[k].id < n.id /\ x[k].id <= m0.counter + 1
    BY <1>1, <1>4
  <2>2. \A k \in DOMAIN y : k \in DOMAIN x \/ (k = Len(x) + 1 /\ y[k] = n)
    BY <1>2
  <2>3. ASSUME NEW k \in DOMAIN y, NEW j \in DOMAIN y, k # j
        PROVE  slot(y[k]) # slot(y[j]) /\ y[k].id # y[j].id
    <3>1. CASE k \in DOMAIN x /\ j \in DOMAIN x
      BY <1>2, <2>3, <3>1 DEF Unique
    <3>2. CASE k \in DOMAIN x /\ j \notin DOMAIN x
      <4>1. y[j] = n /\ y[k] = x[k]
        BY <1>2, <2>2, <3>2
      <4>2. x[k].id # n.id
        BY <1>4, <2>1, <3>2
      <4> QED
        BY <3>2, <4>1, <4>2
    <3>3. CASE k \notin DOMAIN x /\ j \in DOMAIN x
      <4>1. y[k] = n /\ y[j] = x[j]
        BY <1>2, <2>2, <3>3
      <4>2. x[j].id # n.id
        BY <1>4, <2>1, <3>3
      <4> QED
        BY <3>3, <4>1, <4>2
    <3> QED
      BY <2>2, <2>3, <3>1, <3>2, <3>3
  <2>4. \A k \in DOMAIN y : y[k].id <= m0.counter + 1
    <3>1. n.id <= m0.counter + 1
      BY <1>1
    <3> QED
      BY <1>2, <2>1, <2>2, <3>1
  <2> QED
    BY <1>3, <2>3, <2>4 DEF Unique
<1>6. ASSUME NEW l \in [Slots -> Nat], Mirrors(m0, l) PROVE Mirrors(m, After(l, "store", m, {n}))
  <2> DEFINE a == After(l, "store", m, {n})
  <2>1. \A z \in Slots : a[z] = IF slot(n) = z THEN n.value ELSE l[z]
    BY DEF After
  <2> HIDE DEF a
  <2>2. \A k \in DOMAIN x : slot(x[k]) \in Slots
    BY <1>1, SlotType
  <2>3. \A k \in DOMAIN y : a[slot(y[k])] = y[k].value
    BY <1>2, <1>6, <2>1, <2>2, SlotType DEF Mirrors
  <2>4. ASSUME NEW z \in Slots, \A k \in DOMAIN y : slot(y[k]) # z PROVE a[z] = 0
    <3>1. slot(n) # z /\ \A k \in DOMAIN x : slot(x[k]) # z
      BY <1>2, <2>4
    <3> QED
      BY <1>6, <2>1, <3>1 DEF Mirrors
  <2> QED
    BY <1>3, <2>3, <2>4 DEF Mirrors, a
<1>7. KeepsDurable(m0, m)
  BY <1>2, <1>3 DEF KeepsDurable, Range
<1>8. m0.counter <= m.counter /\ m0.counter < n.id
  BY <1>1, <1>3
<1> QED
  BY <1>3, <1>5, <1>6, <1>7, <1>8 DEF Result, m, y

LEMMA RefreshResult ==
  ASSUME NEW m0 \in Store, Unique(m0), NEW n \in Item, m0.counter < n.id,
         NEW j \in DOMAIN m0.items, slot(m0.items[j]) = slot(n)
  PROVE  Result(m0, "store",
                [m0 EXCEPT !.items = [m0.items EXCEPT ![j] = refreshed(m0.items[j], n)]], {n})
<1> DEFINE x == m0.items
           r == refreshed(x[j], n)
           y == [x EXCEPT ![j] = r]
           m == [m0 EXCEPT !.items = y]
<1>1. x \in Seq(Item) /\ m0.counter \in Nat /\ \A k \in DOMAIN x : x[k] \in Item
  BY DEF Store
<1>2. r \in Item /\ slot(r) = slot(n) /\ r.id = x[j].id /\ r.value = n.value
  BY <1>1, Refreshed
<1> HIDE DEF r
<1>3. /\ y \in Seq(Item) /\ DOMAIN y = DOMAIN x /\ y[j] = r
      /\ \A k \in DOMAIN x : k # j => y[k] = x[k]
  BY <1>1, <1>2
<1> HIDE DEF y
<1>4. m \in Store /\ m.items = y /\ m.counter = m0.counter
  BY <1>3 DEF Store
<1> HIDE DEF m
<1>5. \A k \in DOMAIN x : slot(y[k]) = slot(x[k]) /\ y[k].id = x[k].id
  BY <1>2, <1>3
<1>6. Unique(m)
  BY <1>3, <1>4, <1>5 DEF Unique
<1>7. ASSUME NEW l \in [Slots -> Nat], Mirrors(m0, l) PROVE Mirrors(m, After(l, "store", m, {n}))
  <2> DEFINE a == After(l, "store", m, {n})
  <2>1. \A z \in Slots : a[z] = IF slot(n) = z THEN n.value ELSE l[z]
    BY DEF After
  <2> HIDE DEF a
  <2>2. \A k \in DOMAIN x : slot(x[k]) \in Slots
    BY <1>1, SlotType
  <2>3. \A k \in DOMAIN x : k # j => slot(x[k]) # slot(n)
    BY DEF Unique
  <2>4. ASSUME NEW k \in DOMAIN x PROVE a[slot(y[k])] = y[k].value
    <3>1. CASE k = j
      BY <1>2, <1>3, <1>5, <2>1, <2>2, <3>1
    <3>2. CASE k # j
      BY <1>3, <1>7, <2>1, <2>2, <2>3, <3>2 DEF Mirrors
    <3> QED
      BY <3>1, <3>2
  <2>5. ASSUME NEW z \in Slots, \A k \in DOMAIN y : slot(y[k]) # z PROVE a[z] = 0
    <3>1. slot(n) # z /\ \A k \in DOMAIN x : slot(x[k]) # z
      BY <1>3, <1>5, <2>5
    <3> QED
      BY <1>7, <2>1, <3>1 DEF Mirrors
  <2> QED
    BY <1>3, <1>4, <2>4, <2>5 DEF Mirrors, a
<1>8. KeepsDurable(m0, m)
  BY <1>3, <1>4, <1>5 DEF KeepsDurable, Range
<1>9. m0.counter <= m.counter
  BY <1>1, <1>4
<1> QED
  BY <1>4, <1>6, <1>7, <1>8, <1>9 DEF Result, m, y, r

LEMMA PruneResult ==
  ASSUME NEW m0 \in Store, Unique(m0), NEW kept \in SUBSET DOMAIN m0.items,
         NEW why \in {"prune", "force"},
         why = "prune" => \A k \in DOMAIN m0.items : m0.items[k].category \in Durable => k \in kept
  PROVE  Result(m0, why, [m0 EXCEPT !.items = filtered(m0.items, kept)], {})
<1> DEFINE x == m0.items
           left == filtered(x, kept)
           m == [m0 EXCEPT !.items = left]
<1>1. x \in Seq(Item) /\ m0.counter \in Nat /\ \A k \in DOMAIN x : x[k] \in Item
  BY DEF Store
<1>2. PICK c \in Nat, pos \in [1..Cardinality(kept) -> kept] :
        /\ c = Cardinality(kept) /\ kept = Range(pos)
        /\ \A a, b \in DOMAIN pos : a < b => pos[a] < pos[b]
        /\ left = [n \in DOMAIN pos |-> x[pos[n]]] /\ left \in Seq(Item)
  BY <1>1, Filtered
<1>3. /\ pos \in [1..c -> kept] /\ kept = Range(pos)
      /\ \A a, b \in DOMAIN pos : a < b => pos[a] < pos[b]
      /\ left = [n \in DOMAIN pos |-> x[pos[n]]]
  BY <1>2
<1> HIDE DEF left
<1>4. c \in Nat
  BY <1>2
<1>5. /\ DOMAIN left = 1..c /\ \A n \in 1..c : left[n] = x[pos[n]] /\ pos[n] \in DOMAIN x
      /\ left \in [1..c -> Item]
  BY <1>1, <1>3
<1>6. left \in Seq(Item)
  BY <1>2
<1>7. \A a, b \in 1..c : a # b => pos[a] # pos[b]
  <2>1. \A a \in 1..c : pos[a] \in Nat
    BY <1>1, <1>5
  <2>2. DOMAIN pos = 1..c
    BY <1>3
  <2> QED
    BY <1>3, <1>4, <2>1, <2>2
<1>8. \A k \in kept : \E n \in 1..c : pos[n] = k
  BY <1>3 DEF Range
<1>9. m \in Store /\ m.items = left /\ m.counter = m0.counter
  BY <1>6 DEF Store
<1> HIDE DEF m
<1>10. Unique(m)
  BY <1>5, <1>7, <1>9 DEF Unique
<1>11. ASSUME NEW l \in [Slots -> Nat], Mirrors(m0, l) PROVE Mirrors(m, After(l, why, m, {}))
  <2> DEFINE a == After(l, why, m, {})
  <2>1. \A z \in Slots : a[z] = IF z \notin {slot(i) : i \in Range(left)} THEN 0 ELSE l[z]
    BY <1>9 DEF After
  <2> HIDE DEF a
  <2>2. \A n \in 1..c : slot(left[n]) \in Slots
    BY <1>5, SlotType
  <2>3. \A z : z \in {slot(i) : i \in Range(left)} <=> \E n \in 1..c : slot(left[n]) = z
    BY <1>5 DEF Range
  <2>4. \A n \in 1..c : a[slot(left[n])] = l[slot(left[n])]
    BY <2>1, <2>2, <2>3
  <2>5. \A n \in 1..c : l[slot(left[n])] = left[n].value
    BY <1>5, <1>11 DEF Mirrors
  <2>6. \A z \in Slots : (\A n \in 1..c : slot(left[n]) # z) => a[z] = 0
    BY <2>1, <2>3
  <2> QED
    BY <1>5, <1>9, <2>4, <2>5, <2>6 DEF Mirrors, a
<1>12. why = "prune" => KeepsDurable(m0, m)
  <2> SUFFICES ASSUME why = "prune", NEW k \in DOMAIN x, x[k].category \in Durable
               PROVE  \E n \in DOMAIN left : left[n].id = x[k].id /\ slot(left[n]) = slot(x[k])
    BY <1>9 DEF KeepsDurable, Range
  <2>1. PICK n \in 1..c : pos[n] = k
    BY <1>8
  <2> QED
    BY <1>5, <2>1
<1>13. m0.counter <= m.counter
  BY <1>1, <1>9
<1> QED
  BY <1>9, <1>10, <1>11, <1>12, <1>13 DEF Result, m, left

-----------------------------------------------------------------------------
(* The calls.                                                               *)

LEMMA LoadType ==
  ASSUME TypeOK
  PROVE  /\ load \in Store /\ (readable => load = file /\ file \in Store)
         /\ (file.at = "ok" <=> readable) /\ (file = Torn => ~readable)
<1>1. <<>> \in Seq(Item)
  OBVIOUS
<1>2. [at |-> "ok", items |-> <<>>, counter |-> 0, entries |-> {}] \in Store
  BY <1>1 DEF Store
<1>3. readable => file \in Store
  BY DEF TypeOK, readable, Absent, Torn
<1> QED
  BY <1>2, <1>3 DEF load, readable, Torn

LEMMA SavesKeeps ==
  ASSUME MemoryInv, NEW s \in Sessions, NEW why \in Whys, NEW m,
         NEW new \in {{}} \cup {{n} : n \in Item},
         Saves(s, why, m, new), Result(load, why, m, new)
  PROVE  MemoryInv'
<1> DEFINE p == [at |-> "loaded", why |-> why, m |-> m, new |-> new, stale |-> file = Torn]
<1>1. /\ calls' = calls + 1 /\ proc' = [proc EXCEPT ![s] = p]
      /\ file' = file /\ clock' = clock /\ last' = last /\ given' = given /\ damaged' = damaged
  BY DEF Saves
<1>2. /\ p \in Call /\ p.at = "loaded" /\ p.why = why /\ p.m = m /\ p.new = new
      /\ (p.stale <=> file = Torn)
  BY DEF Call, Result
<1> HIDE DEF p
<1>3. TypeOK /\ FileInv /\ proc \in [Sessions -> Call \cup {Idle}]
  BY DEF MemoryInv, TypeOK
<1>4. /\ proc'[s] = p /\ \A t \in Sessions \ {s} : proc'[t] = proc[t]
      /\ proc' \in [Sessions -> Call \cup {Idle}]
  BY <1>1, <1>2, <1>3
<1>5. TypeOK'
  BY <1>1, <1>3, <1>4 DEF TypeOK
<1>6. FileInv'
  BY <1>1, <1>3 DEF FileInv, load, readable
<1>7. Owes(p, file, last, given, damaged)
  <2>1. load \in Store /\ (file.at = "ok" => load = file)
    BY <1>3, LoadType
  <2>2. m \in Store /\ Unique(m) /\ load.counter <= m.counter /\ \A n \in new : load.counter < n.id
    BY DEF Result
  <2>3. ASSUME ~damaged, ~p.stale
        PROVE  /\ Mirrors(m, After(last, why, m, new)) /\ \A id \in given : id <= m.counter
               /\ \A n \in new : n.id \notin given
    <3>1. Mirrors(load, last) /\ \A id \in given : id <= load.counter
      BY <1>2, <1>3, <2>3 DEF FileInv
    <3>2. last \in [Slots -> Nat] /\ given \subseteq Nat
      BY <1>3 DEF TypeOK
    <3>3. Mirrors(m, After(last, why, m, new))
      BY <3>1, <3>2 DEF Result
    <3>4. load.counter \in Nat /\ m.counter \in Nat
      BY <2>1, <2>2 DEF Store
    <3>5. \A id \in given : id <= m.counter
      BY <2>2, <3>1, <3>2, <3>4
    <3>6. \A n \in new : n.id \notin given
      <4> SUFFICES ASSUME NEW n \in new, n.id \in given PROVE FALSE
        OBVIOUS
      <4>1. n.id <= load.counter /\ load.counter < n.id /\ n.id \in Nat
        BY <2>2, <3>1, <3>2
      <4> QED
        BY <3>4, <4>1
    <3> QED
      BY <3>3, <3>5, <3>6
  <2>4. why # "force" /\ file.at = "ok" => KeepsDurable(file, m)
    BY <2>1 DEF Result
  <2> QED
    BY <1>2, <2>2, <2>3, <2>4 DEF Owes
<1>8. ASSUME NEW t \in Sessions, proc'[t] # Idle PROVE Owes(proc'[t], file, last, given, damaged)
  BY <1>4, <1>7, <1>8 DEF MemoryInv
<1> QED
  BY <1>1, <1>5, <1>6, <1>8 DEF MemoryInv

LEMMA ReadKeeps ==
  ASSUME MemoryInv, NEW s \in Sessions, NEW found,
         Saves(s, "read", [load EXCEPT !.items = markAccessed(@, found)], {})
  PROVE  MemoryInv'
<1> DEFINE m == [load EXCEPT !.items = markAccessed(load.items, found)]
<1>1. load \in Store /\ Unique(load)
  BY LoadType DEF MemoryInv, FileInv
<1>2. Result(load, "read", m, {})
  BY <1>1, ReadResult
<1>3. Saves(s, "read", m, {})
  OBVIOUS
<1> HIDE DEF m
<1> QED
  BY <1>2, <1>3, SavesKeeps DEF Whys

LEMMA RetrieveKeeps ==
  ASSUME MemoryInv, NEW s \in Sessions, memory_retrieve(s)
  PROVE  MemoryInv'
BY ReadKeeps DEF memory_retrieve

LEMMA SearchKeeps ==
  ASSUME MemoryInv, NEW s \in Sessions, memory_search(s)
  PROVE  MemoryInv'
BY ReadKeeps DEF memory_search

LEMMA CheckKeeps ==
  ASSUME MemoryInv, NEW s \in Sessions, memory_check_duplicate(s)
  PROVE  MemoryInv'
BY ReadKeeps DEF memory_check_duplicate

LEMMA PruneKeeps ==
  ASSUME MemoryInv, NEW s \in Sessions, memory_prune(s)
  PROVE  MemoryInv'
<1>1. PICK cats \in {Categories} \cup {{c} : c \in Categories}, force \in BOOLEAN, age \in Ages :
        LET m == load
            kept == {k \in DOMAIN m.items : ~prunable(m.items[k], cats, force, age)}
        IN Saves(s, IF force THEN "force" ELSE "prune",
                 [m EXCEPT !.items = filtered(@, kept)], {})
  BY DEF memory_prune
<1> DEFINE kept == {k \in DOMAIN load.items : ~prunable(load.items[k], cats, force, age)}
           why == IF force THEN "force" ELSE "prune"
           m == [load EXCEPT !.items = filtered(load.items, kept)]
<1>2. Saves(s, why, m, {})
  BY <1>1
<1>3. load \in Store /\ Unique(load)
  BY LoadType DEF MemoryInv, FileInv
<1>4. why = "prune" => \A k \in DOMAIN load.items : load.items[k].category \in Durable => k \in kept
  BY DEF prunable
<1>5. kept \in SUBSET DOMAIN load.items /\ why \in {"prune", "force"}
  OBVIOUS
<1> HIDE DEF kept, why
<1>6. Result(load, why, m, {})
  BY <1>3, <1>4, <1>5, PruneResult
<1> HIDE DEF m
<1>7. why \in Whys
  BY <1>5 DEF Whys
<1> QED
  BY <1>2, <1>6, <1>7, SavesKeeps

LEMMA OnlyOne ==
  ASSUME NEW j \in Nat
  PROVE  Min({j}) = j
<1>1. \E x \in {j} : \A y \in {j} : x <= y
  OBVIOUS
<1> QED
  BY <1>1 DEF Min

LEMMA StoreKeeps ==
  ASSUME MemoryInv, NEW s \in Sessions, memory_store(s)
  PROVE  MemoryInv'
<1> DEFINE Item0(level, category, key, agent) ==
             [id |-> nextId(load), level |-> level, category |-> category, key |-> key,
              agent |-> agent, value |-> calls + 1, updated |-> clock, hits |-> 0]
           Same(n) == {k \in DOMAIN load.items : existing(load.items[k], n)}
           Saving(n) == Saves(s, "store",
                              IF Same(n) # {}
                              THEN [load EXCEPT !.items[Min(Same(n))] = refreshed(@, n)]
                              ELSE [load EXCEPT !.items = Append(@, n), !.counter = nextId(load)],
                              {n})
<1>0. \E name \in Names, level \in Levels, key \in Keys, agent \in Agents :
         \E category \in normalizeCategory(name) : Saving(Item0(level, category, key, agent))
  BY DEF memory_store
<1> HIDE DEF Saving, Item0
<1>1. PICK level \in Levels, key \in Keys, agent \in Agents, category \in Categories :
         Saving(Item0(level, category, key, agent))
  <2>1. \A name \in Names : normalizeCategory(name) \subseteq Categories
    BY MemoryAssumption DEF normalizeCategory
  <2> QED
    BY <1>0, <2>1
<1> DEFINE new == Item0(level, category, key, agent)
           slotted == Same(new)
<1>2. load \in Store /\ Unique(load) /\ TypeOK
  BY LoadType DEF MemoryInv, FileInv
<1>3. new \in Item /\ new.id = load.counter + 1 /\ load.counter < new.id
  <2>2. load.counter \in Nat /\ calls \in Nat /\ clock \in Nat
    BY <1>2 DEF Store, TypeOK
  <2>3. load.counter + 1 \in Nat /\ calls + 1 \in Nat \ {0} /\ load.counter < load.counter + 1
    BY <2>2
  <2> QED
    BY <2>2, <2>3 DEF Item, nextId, Item0
<1>4. slotted # {} => Saves(s, "store", [load EXCEPT !.items[Min(slotted)] = refreshed(@, new)], {new})
  BY <1>1 DEF Saving
<1>5. slotted = {} => Saves(s, "store", Stored(load, Append(load.items, new), load.counter + 1), {new})
  BY <1>1 DEF Stored, nextId, Saving
<1> HIDE DEF new
<1>6. \A k \in DOMAIN load.items : k \in slotted <=> slot(load.items[k]) = slot(new)
  BY DEF existing, slotted
<1>7. CASE slotted = {}
  <2>1. \A k \in DOMAIN load.items : slot(load.items[k]) # slot(new)
    BY <1>6, <1>7
  <2>2. Result(load, "store", Stored(load, Append(load.items, new), load.counter + 1), {new})
    BY <1>2, <1>3, <2>1, AppendResult
  <2>3. {new} \in {{}} \cup {{n} : n \in Item} /\ "store" \in Whys
    BY <1>3 DEF Whys
  <2> QED
    BY <1>5, <1>7, <2>2, <2>3, SavesKeeps
<1>8. CASE slotted # {}
  <2>1. PICK j \in DOMAIN load.items : j \in slotted
    BY <1>8
  <2>2. slot(load.items[j]) = slot(new) /\ j \in Nat
    BY <1>2, <1>6, <2>1 DEF Store
  <2>3. slotted = {j}
    <3>1. slotted \subseteq DOMAIN load.items
      OBVIOUS
    <3> HIDE DEF slotted
    <3>2. \A k \in slotted : k = j
      BY <1>2, <1>6, <2>1, <2>2, <3>1 DEF Unique
    <3> QED
      BY <2>1, <3>2
  <2> HIDE DEF slotted
  <2>4. Min(slotted) = j
    BY <2>2, <2>3, OnlyOne
  <2> DEFINE m == [load EXCEPT !.items = [load.items EXCEPT ![j] = refreshed(load.items[j], new)]]
  <2>5. Saves(s, "store", m, {new})
    <3>1. Saves(s, "store", [load EXCEPT !.items[j] = refreshed(@, new)], {new})
      BY <1>4, <1>8, <2>4
    <3>2. [load EXCEPT !.items[j] = refreshed(@, new)] = m
      BY <1>2 DEF Store
    <3> QED
      BY <3>1, <3>2
  <2>6. Result(load, "store", m, {new})
    BY <1>2, <1>3, <2>2, RefreshResult
  <2>7. {new} \in {{}} \cup {{n} : n \in Item} /\ "store" \in Whys
    BY <1>3 DEF Whys
  <2> HIDE DEF m
  <2> QED
    BY <2>5, <2>6, <2>7, SavesKeeps
<1> QED
  BY <1>7, <1>8

-----------------------------------------------------------------------------
(* The file operations.                                                     *)

\* A call whose copy was overtaken owes only its items' uniqueness.
Behind(r) == [r EXCEPT !.stale = TRUE]

LEMMA BehindOwes ==
  ASSUME NEW r \in Call, Unique(r.m), NEW f, NEW l, NEW g, NEW d
  PROVE  Behind(r) \in Call /\ Owes(Behind(r), f, l, g, d)
<1> DEFINE q == Behind(r)
<1>1. q \in Call /\ q.m = r.m /\ q.stale
  BY DEF Behind, Call
<1> HIDE DEF q
<1> QED
  BY <1>1 DEF Owes, q

LEMMA NotIdle == \A r \in Call : r # Idle
BY DEF Call, Idle

\* Session s changes the file and its own record to q; the others fall behind.
LEMMA FileChanges ==
  ASSUME MemoryInv, NEW s \in Sessions, NEW q \in Call \cup {Idle},
         proc' = Overtaken(s, [proc EXCEPT ![s] = q]),
         q # Idle => Owes(q, file', last', given', damaged')
  PROVE  /\ proc' \in [Sessions -> Call \cup {Idle}]
         /\ \A t \in Sessions : proc'[t] # Idle => Owes(proc'[t], file', last', given', damaged')
<1> DEFINE p == [proc EXCEPT ![s] = q]
<1>1. proc \in [Sessions -> Call \cup {Idle}]
  BY DEF MemoryInv, TypeOK
<1>2. p[s] = q /\ \A t \in Sessions \ {s} : p[t] = proc[t]
  BY <1>1
<1>3. proc' = Overtaken(s, p)
  OBVIOUS
<1> HIDE DEF p
<1>4. /\ proc' = [t \in Sessions |-> proc'[t]] /\ proc'[s] = p[s]
      /\ \A t \in Sessions \ {s} : /\ p[t] # Idle => proc'[t] = Behind(p[t])
                                   /\ p[t] = Idle => proc'[t] = p[t]
  BY <1>3 DEF Overtaken, Behind
<1>5. ASSUME NEW t \in Sessions
      PROVE  /\ proc'[t] \in Call \cup {Idle}
             /\ proc'[t] # Idle => Owes(proc'[t], file', last', given', damaged')
  <2>1. CASE t = s
    BY <1>2, <1>4, <2>1
  <2>2. CASE t # s /\ proc[t] # Idle
    <3>1. proc[t] \in Call /\ Unique(proc[t].m)
      BY <1>1, <2>2 DEF MemoryInv, Owes
    <3>2. proc'[t] = Behind(proc[t])
      BY <1>2, <1>4, <2>2
    <3> QED
      BY <3>1, <3>2, BehindOwes
  <2>3. CASE t # s /\ proc[t] = Idle
    BY <1>2, <1>4, <2>3
  <2> QED
    BY <2>1, <2>2, <2>3
<1> QED
  BY <1>4, <1>5

LEMMA OpenKeeps ==
  ASSUME MemoryInv, NEW s \in Sessions, Open(s)
  PROVE  MemoryInv'
<1> DEFINE r == proc[s]
           q == [r EXCEPT !.at = "open"]
<1>1. r \in Call /\ r.at = "loaded" /\ Owes(r, file, last, given, damaged)
  <2>1. r \in Call \cup {Idle} /\ r.at = "loaded"
    BY DEF MemoryInv, TypeOK, Open
  <2>2. r # Idle
    BY <2>1 DEF Idle
  <2> QED
    BY <2>1, <2>2 DEF MemoryInv
<1>2. /\ q \in Call /\ q.at = "open" /\ q.m = r.m /\ q.new = r.new /\ q.why = r.why
      /\ q.stale = r.stale
  BY <1>1 DEF Call
<1>3. /\ proc' = Overtaken(s, [proc EXCEPT ![s] = q]) /\ file' = Torn
      /\ clock' = clock /\ calls' = calls /\ last' = last /\ given' = given /\ damaged' = damaged
  BY DEF Open
<1> HIDE DEF q, r
<1>4. Owes(q, Torn, last, given, damaged)
  BY <1>1, <1>2 DEF Owes
<1>5. /\ proc' \in [Sessions -> Call \cup {Idle}]
      /\ \A t \in Sessions : proc'[t] # Idle => Owes(proc'[t], file', last', given', damaged')
  BY <1>2, <1>3, <1>4, FileChanges
<1>6. TypeOK'
  BY <1>3, <1>5 DEF MemoryInv, TypeOK
<1>7. FileInv'
  <2>1. load' = [at |-> "ok", items |-> <<>>, counter |-> 0, entries |-> {}]
    BY <1>3 DEF load, readable, Torn
  <2>2. Unique(load')
    BY <2>1 DEF Unique
  <2> QED
    BY <1>3, <2>2 DEF FileInv
<1> QED
  BY <1>5, <1>6, <1>7 DEF MemoryInv

LEMMA WriteKeeps ==
  ASSUME MemoryInv, NEW s \in Sessions, Write(s)
  PROVE  MemoryInv'
<1> DEFINE r == proc[s]
<1>1. r \in Call /\ r.at = "open" /\ Owes(r, file, last, given, damaged) /\ TypeOK
  <2>1. r \in Call \cup {Idle} /\ r.at = "open" /\ TypeOK
    BY DEF MemoryInv, TypeOK, Write
  <2>2. r # Idle
    BY <2>1 DEF Idle
  <2> QED
    BY <2>1, <2>2 DEF MemoryInv
<1>2. /\ proc' = Overtaken(s, [proc EXCEPT ![s] = Idle]) /\ file' = r.m
      /\ clock' = clock /\ calls' = calls /\ last' = After(last, r.why, r.m, r.new)
      /\ given' = given \cup {i.id : i \in Range(r.m.items)}
      /\ damaged' = (damaged \/ r.stale)
  BY DEF Write, After
<1> HIDE DEF r
<1>3. r.m \in Store /\ r.why \in Whys /\ r.new \in {{}} \cup {{n} : n \in Item} /\ r.stale \in BOOLEAN
  BY <1>1 DEF Call
<1>4. /\ proc' \in [Sessions -> Call \cup {Idle}]
      /\ \A t \in Sessions : proc'[t] # Idle => Owes(proc'[t], file', last', given', damaged')
  BY <1>2, FileChanges
<1>5. After(last, r.why, r.m, r.new) \in [Slots -> Nat]
  <2>1. last \in [Slots -> Nat]
    BY <1>1 DEF TypeOK
  <2>2. (\E n \in r.new : TRUE) => (CHOOSE n \in r.new : TRUE).value \in Nat
    BY <1>3 DEF Item
  <2> QED
    BY <2>1, <2>2 DEF After
<1>6. \A i \in Range(r.m.items) : i \in Item /\ i.id \in Nat /\ i.id <= r.m.counter
  <2>1. \A k \in DOMAIN r.m.items : r.m.items[k] \in Item /\ r.m.items[k].id <= r.m.counter
    BY <1>1, <1>3 DEF Owes, Unique, Store
  <2>2. \A i \in Item : i.id \in Nat
    BY DEF Item
  <2> QED
    BY <2>1, <2>2 DEF Range
<1>7. TypeOK'
  BY <1>1, <1>2, <1>3, <1>4, <1>5, <1>6 DEF TypeOK
<1>8. FileInv'
  <2>1. load' = r.m
    BY <1>2, <1>3 DEF load, readable, Store
  <2>2. Unique(r.m)
    BY <1>1 DEF Owes
  <2>3. ASSUME ~damaged'
        PROVE  Mirrors(r.m, last') /\ \A id \in given' : id <= r.m.counter
    <3>1. ~damaged /\ ~r.stale
      BY <1>2, <2>3
    <3> QED
      BY <1>1, <1>2, <1>6, <3>1 DEF Owes
  <2> QED
    BY <2>1, <2>2, <2>3 DEF FileInv
<1> QED
  BY <1>4, <1>7, <1>8 DEF MemoryInv

LEMMA CrashKeeps ==
  ASSUME MemoryInv, NEW s \in Sessions, Crash(s)
  PROVE  MemoryInv'
<1>1. /\ proc' = [proc EXCEPT ![s] = Idle] /\ damaged' = TRUE /\ file' = file
      /\ clock' = clock /\ calls' = calls /\ last' = last /\ given' = given
  BY DEF Crash
<1>2. /\ proc \in [Sessions -> Call \cup {Idle}] /\ proc' \in [Sessions -> Call \cup {Idle}]
      /\ proc'[s] = Idle /\ \A t \in Sessions \ {s} : proc'[t] = proc[t]
  BY <1>1 DEF MemoryInv, TypeOK
<1>3. TypeOK'
  BY <1>1, <1>2 DEF MemoryInv, TypeOK
<1>4. FileInv'
  BY <1>1 DEF MemoryInv, FileInv, load, readable
<1>5. ASSUME NEW t \in Sessions, proc'[t] # Idle PROVE Owes(proc'[t], file, last, given, TRUE)
  <2>1. proc'[t] = proc[t] /\ Owes(proc[t], file, last, given, damaged)
    BY <1>2, <1>5 DEF MemoryInv
  <2> QED
    BY <2>1 DEF Owes
<1> QED
  BY <1>1, <1>3, <1>4, <1>5 DEF MemoryInv

LEMMA QuietKeeps ==
  ASSUME MemoryInv, Tick \/ UNCHANGED memoryVars
  PROVE  MemoryInv'
<1>1. /\ file' = file /\ proc' = proc /\ calls' = calls /\ last' = last /\ given' = given
      /\ damaged' = damaged /\ clock' \in Nat
  BY DEF Tick, memoryVars, MemoryInv, TypeOK
<1>2. TypeOK'
  BY <1>1 DEF MemoryInv, TypeOK
<1>3. FileInv'
  BY <1>1 DEF MemoryInv, FileInv, load, readable
<1> QED
  BY <1>1, <1>2, <1>3 DEF MemoryInv

LEMMA InitMemory == MemoryInit => MemoryInv
<1> SUFFICES ASSUME MemoryInit PROVE MemoryInv
  OBVIOUS
<1>1. file = Absent /\ proc = [s \in Sessions |-> Idle] /\ last = [x \in Slots |-> 0] /\ given = {}
  BY DEF MemoryInit
<1>2. TypeOK
  <2>1. [x \in Slots |-> 0] \in [Slots -> Nat]
    OBVIOUS
  <2>2. [s \in Sessions |-> Idle] \in [Sessions -> Call \cup {Idle}]
    OBVIOUS
  <2>3. clock \in Nat /\ calls \in Nat /\ damaged \in BOOLEAN /\ given \in SUBSET Nat
    BY DEF MemoryInit
  <2> QED
    BY <1>1, <2>1, <2>2, <2>3 DEF TypeOK
<1>3. load = [at |-> "ok", items |-> <<>>, counter |-> 0, entries |-> {}]
  BY <1>1 DEF load, readable, Absent
<1>4. DOMAIN load.items = {} 
  BY <1>3
<1>5. FileInv
  BY <1>1, <1>4 DEF FileInv, Unique, Mirrors
<1> QED
  BY <1>1, <1>2, <1>5 DEF MemoryInv

\* The copy that every running call is about to save keeps slots and ids unique,
\* and, unless it was overtaken, agrees with all that was stored before.
THEOREM MemorySafe == MemorySpec => []MemoryInv
<1>1. MemoryInit => MemoryInv
  BY InitMemory
<1>2. MemoryInv /\ [MemoryNext]_memoryVars => MemoryInv'
  <2> SUFFICES ASSUME MemoryInv, [MemoryNext]_memoryVars PROVE MemoryInv'
    OBVIOUS
  <2>1. CASE Tick \/ UNCHANGED memoryVars
    BY <2>1, QuietKeeps
  <2>2. ASSUME NEW s \in Sessions, MemoryCall(s) PROVE MemoryInv'
    BY <2>2, StoreKeeps, RetrieveKeeps, SearchKeeps, CheckKeeps, PruneKeeps DEF MemoryCall
  <2>3. ASSUME NEW s \in Sessions, Open(s) \/ Write(s) \/ Crash(s) PROVE MemoryInv'
    BY <2>3, OpenKeeps, WriteKeeps, CrashKeeps
  <2> QED
    BY <2>1, <2>2, <2>3 DEF MemoryNext
<1> QED
  BY <1>1, <1>2, PTL DEF MemorySpec

-----------------------------------------------------------------------------
(* The properties.                                                          *)

\* No two items of the file share a slot or an id, whatever overlapped, tore or
\* was pruned.
THEOREM OneItemSafe == MemorySpec => []OneItemPerSlot
<1>1. MemoryInv => OneItemPerSlot
  BY LoadType DEF MemoryInv, FileInv, Unique, OneItemPerSlot
<1> QED
  BY <1>1, MemorySafe, PTL

LEMMA MaxOf ==
  ASSUME NEW v \in Nat
  PROVE  Max({0} \cup {v}) = v /\ Max({0} \cup {}) = 0
<1>1. \E x \in {0} \cup {v} : \A y \in {0} \cup {v} : x >= y
  OBVIOUS
<1>2. \E x \in {0} \cup {} : \A y \in {0} \cup {} : x >= y
  OBVIOUS
<1> QED
  BY <1>1, <1>2 DEF Max

\* Without damage the file is the map of what was last stored in each slot and
\* not pruned since.
THEOREM LastStoreSafe == MemorySpec => []LastStoreKept
<1>1. ASSUME MemoryInv, readable, ~damaged, NEW x \in Slots
      PROVE  last[x] = Max({0} \cup {i.value : i \in {j \in Range(file.items) : slot(j) = x}})
  <2>1. load = file /\ file \in Store /\ file # Torn
    BY <1>1, LoadType DEF MemoryInv
  <2>2. Unique(file) /\ Mirrors(file, last)
    BY <1>1, <2>1 DEF MemoryInv, FileInv
  <2>3. \A k \in DOMAIN file.items : file.items[k] \in Item
    BY <2>1 DEF Store
  <2> DEFINE here == {j \in Range(file.items) : slot(j) = x}
             values == {i.value : i \in here}
  <2>4. CASE \A k \in DOMAIN file.items : slot(file.items[k]) # x
    <3>1. here = {}
      BY <2>4 DEF Range
    <3>2. values = {} /\ last[x] = 0
      BY <2>2, <2>4, <3>1 DEF Mirrors
    <3> QED
      BY <3>2, MaxOf
  <2>5. ASSUME NEW k \in DOMAIN file.items, slot(file.items[k]) = x
        PROVE  last[x] = Max({0} \cup values)
    <3>1. here = {file.items[k]}
      BY <2>2, <2>5 DEF Range, Unique
    <3>2. values = {file.items[k].value} /\ last[x] = file.items[k].value
      BY <2>2, <2>5, <3>1 DEF Mirrors
    <3>3. file.items[k].value \in Nat
      BY <2>3 DEF Item
    <3> QED
      BY <3>2, <3>3, MaxOf
  <2> QED
    BY <2>4, <2>5
<1>2. MemoryInv => LastStoreKept
  BY <1>1 DEF LastStoreKept
<1> QED
  BY <1>2, MemorySafe, PTL

\* No call but a forced prune takes a finding or a false positive out of the
\* file, unless another session overlapped it.
THEOREM DurableSafe == MemorySpec => DurableKept
<1>1. ASSUME MemoryInv, NEW s \in Sessions, Open(s), readable, ~proc[s].stale, proc[s].why # "force"
      PROVE  KeepsDurable(file, proc[s].m)
  <2>1. proc[s].at = "loaded" /\ proc[s] # Idle
    BY <1>1 DEF Open, Idle
  <2> QED
    BY <1>1, <2>1 DEF MemoryInv, Owes, readable
<1>2. MemoryInv =>
       \A s \in Sessions : Open(s) /\ readable /\ ~proc[s].stale /\ proc[s].why # "force"
         => \A i \in Range(file.items) : i.category \in Durable
              => \E j \in Range(proc[s].m.items) : j.id = i.id /\ slot(j) = slot(i)
  BY <1>1 DEF KeepsDurable
<1> QED
  BY <1>2, MemorySafe, PTL DEF DurableKept

\* Without damage an id is never handed out twice, not even after a prune took
\* the item that had it.
THEOREM IdsSafe == MemorySpec => IdNeverReused
<1>1. MemoryInv =>
       \A s \in Sessions : Write(s) /\ ~damaged' =>
         \A n \in proc[s].new, i \in Range(file'.items) :
           i.id = n.id /\ i.value = n.value => n.id \notin given
  <2> SUFFICES ASSUME MemoryInv, NEW s \in Sessions, Write(s), ~damaged', NEW n \in proc[s].new
               PROVE  n.id \notin given
    OBVIOUS
  <2>1. proc[s].at = "open" /\ damaged' = (damaged \/ proc[s].stale)
    BY DEF Write
  <2>2. proc[s] # Idle
    BY <2>1 DEF Idle
  <2> QED
    BY <2>1, <2>2 DEF MemoryInv, Owes
<1> QED
  BY <1>1, MemorySafe, PTL DEF IdNeverReused

-----------------------------------------------------------------------------
(* Learning loop.                                                           *)

Kinds == {"finding", "rejection"}
Saved == {"own", "index", "memory", "graph", "case"}

\* The parts left of a lesson: files to save, then the status.
Todo(todo) ==
  /\ todo \in Seq(Saved \cup {"status"}) /\ Len(todo) > 0
  /\ \A k \in DOMAIN todo : IF k = Len(todo) THEN todo[k] = "status" ELSE todo[k] \in Saved

\* The record of a running lesson; its link and its data are of no account.
Shape(l) ==
  l \in [kind : Kinds, id : Ids, link : {l.link}, suitable : {l.suitable}, todo : {l.todo},
         at : {"next", "read", "open"}, data : {l.data}, stale : {l.stale}, alone : {l.alone}]

\* The file of a lesson is there, if only truncated.
Written(d, kind, id) == d[<<kind, SafeId[id]>>].at # "absent"

\* An index whose lessons of that kind all have their file.
Index(c, d, kind) == c.ids \in Seq(Ids) /\ \A k \in DOMAIN c.ids : Written(d, kind, c.ids[k])

\* What a lesson has done so far: its own file comes before its index, and what
\* it is about to write is whole.
Progress(l, d) ==
  /\ Todo(l.todo)
  /\ "own" \notin {l.todo[k] : k \in DOMAIN l.todo \ {1}}
  /\ l.todo[1] # "own" => Written(d, l.kind, l.id)
  /\ l.at # "next" =>
       /\ l.todo[1] # "status"
       /\ l.todo[1] # "memory" => l.data.at = "ok"
       /\ l.todo[1] = "index" => Index(l.data, d, l.kind)

DiskInv ==
  /\ disk = [f \in Files |-> disk[f]]
  /\ \A kind \in Kinds : disk[<<"index", kind>>].at = "ok"
                           => Index(disk[<<"index", kind>>], disk, kind)
  /\ lesson = [s \in Sessions |-> lesson[s]]
  /\ \A s \in Sessions : lesson[s] # NoLesson => Shape(lesson[s]) /\ Progress(lesson[s], disk)

-----------------------------------------------------------------------------
(* Sequences and file names.                                                *)

LEMMA FileNames ==
  ASSUME NEW kind \in Kinds, NEW id \in Ids
  PROVE  /\ <<kind, SafeId[id]>> \in Files /\ <<"case", SafeId[id]>> \in Files
         /\ <<"index", kind>> \in Files /\ GraphFile \in Files
         /\ \A k \in Kinds : /\ <<"index", k>> # <<kind, SafeId[id]>>
                             /\ <<"index", k>> # <<"case", SafeId[id]>> /\ <<"index", k>> # GraphFile
BY DEF Files, GraphFile, Kinds, SafeIds

LEMMA PartsType ==
  ASSUME NEW b \in BOOLEAN
  PROVE  /\ Todo(parts(b)) /\ parts(b)[1] = "own"
         /\ "own" \notin {parts(b)[k] : k \in DOMAIN parts(b) \ {1}}
<1>1. CASE b
  <2>1. parts(b) = <<"own", "index", "memory", "graph", "case", "status">>
    BY <1>1 DEF parts
  <2> QED
    BY <2>1 DEF Todo, Saved
<1>2. CASE ~b
  <2>1. parts(b) = <<"own", "index", "memory", "graph", "status">>
    BY <1>2 DEF parts
  <2> QED
    BY <2>1 DEF Todo, Saved
<1> QED
  BY <1>1, <1>2

LEMMA TodoTail ==
  ASSUME NEW todo, Todo(todo), todo[1] # "status"
  PROVE  /\ Todo(Tail(todo)) /\ Tail(todo)[1] = todo[2]
         /\ 2 \in DOMAIN todo
         /\ \A k \in DOMAIN Tail(todo) : k + 1 \in DOMAIN todo /\ Tail(todo)[k] = todo[k + 1]
<1> DEFINE S == Saved \cup {"status"}
<1>1. todo \in Seq(S) /\ Len(todo) > 0 /\ Len(todo) \in Nat /\ DOMAIN todo = 1..Len(todo)
  BY DEF Todo
<1>2. Len(todo) >= 2
  BY <1>1 DEF Todo
<1> HIDE DEF S
<1>3. /\ Tail(todo) \in Seq(S) /\ Len(Tail(todo)) = Len(todo) - 1
      /\ DOMAIN Tail(todo) = 1..(Len(todo) - 1)
      /\ \A k \in 1..(Len(todo) - 1) : Tail(todo)[k] = todo[k + 1]
  <2>1. todo # <<>>
    BY <1>1
  <2> QED
    BY <1>1, <2>1, HeadTailProperties
<1>4. \A k \in 1..(Len(todo) - 1) : k + 1 \in DOMAIN todo /\ (k = Len(todo) - 1 <=> k + 1 = Len(todo))
  BY <1>1, <1>2
<1>5. 1 \in 1..(Len(todo) - 1) /\ 2 \in DOMAIN todo /\ Tail(todo)[1] = todo[1 + 1]
  BY <1>1, <1>2, <1>3
<1>6. \A k \in DOMAIN Tail(todo) : IF k = Len(Tail(todo)) THEN Tail(todo)[k] = "status"
                                                        ELSE Tail(todo)[k] \in Saved
  BY <1>1, <1>3, <1>4 DEF Todo
<1>7. Len(Tail(todo)) > 0
  BY <1>1, <1>2, <1>3
<1> QED
  BY <1>3, <1>4, <1>5, <1>6, <1>7 DEF Todo, S

-----------------------------------------------------------------------------
(* What a step may do to a lesson and to the files.                         *)

\* No file disappears.
Stays(d, e) == \A f \in Files : d[f].at # "absent" => e[f].at # "absent"

LEMMA WrittenStays ==
  ASSUME NEW d, NEW e, Stays(d, e), NEW kind \in Kinds
  PROVE  /\ \A id \in Ids : Written(d, kind, id) => Written(e, kind, id)
         /\ \A c : Index(c, d, kind) => Index(c, e, kind)
<1>1. \A id \in Ids : Written(d, kind, id) => Written(e, kind, id)
  BY FileNames DEF Stays, Written
<1>2. ASSUME NEW c, Index(c, d, kind) PROVE Index(c, e, kind)
  <2>1. \A k \in DOMAIN c.ids : c.ids[k] \in Ids
    BY <1>2 DEF Index
  <2> QED
    BY <1>1, <1>2, <2>1 DEF Index
<1> QED
  BY <1>1, <1>2

\* The lesson l with another mark.
Alike(l, m) == /\ Shape(m) /\ m.kind = l.kind /\ m.id = l.id /\ m.todo = l.todo
               /\ m.at = l.at /\ m.data = l.data /\ m.link = l.link /\ m.suitable = l.suitable

LEMMA Marked ==
  ASSUME NEW l, Shape(l), NEW v
  PROVE  /\ Alike(l, l) /\ Alike(l, [l EXCEPT !.alone = v]) /\ Alike(l, [l EXCEPT !.stale = v])
         /\ [l EXCEPT !.alone = v] # NoLesson /\ [l EXCEPT !.stale = v] # NoLesson
<1> DEFINE R == [kind : Kinds, id : Ids, link : {l.link}, suitable : {l.suitable}, todo : {l.todo},
                 at : {"next", "read", "open"}, data : {l.data}, stale : {l.stale, v},
                 alone : {l.alone, v}]
<1>1. l \in R
  BY DEF Shape
<1>2. ASSUME NEW m \in R, m.kind = l.kind, m.id = l.id, m.at = l.at
      PROVE  Alike(l, m) /\ m # NoLesson
  <2>1. m \in [kind : Kinds, id : Ids, link : {m.link}, suitable : {m.suitable}, todo : {m.todo},
                at : {"next", "read", "open"}, data : {m.data}, stale : {m.stale}, alone : {m.alone}]
    BY <1>2
  <2>2. /\ m.todo = l.todo /\ m.data = l.data /\ m.link = l.link /\ m.suitable = l.suitable
        /\ m.kind # "none"
    BY <1>2 DEF Kinds
  <2> QED
    BY <1>2, <2>1, <2>2 DEF Alike, Shape, NoLesson
<1>3. ASSUME NEW m, m = [l EXCEPT !.alone = v]
      PROVE m \in R /\ m.kind = l.kind /\ m.id = l.id /\ m.at = l.at
  BY <1>1, <1>3
<1>4. ASSUME NEW m, m = [l EXCEPT !.stale = v]
      PROVE m \in R /\ m.kind = l.kind /\ m.id = l.id /\ m.at = l.at
  BY <1>1, <1>4
<1> HIDE DEF R
<1> QED
  BY <1>1, <1>2, <1>3, <1>4

LEMMA AlikeProgress ==
  ASSUME NEW l, NEW m, Alike(l, m), Progress(l, disk)
  PROVE  Progress(m, disk)
BY DEF Alike, Progress

\* Progress does not depend on the state but through the files.
LEMMA ProgressStays ==
  ASSUME NEW l, NEW d, NEW e, Shape(l), Progress(l, d), Stays(d, e)
  PROVE  Progress(l, e)
<1>1. l.kind \in Kinds /\ l.id \in Ids
  BY DEF Shape
<1> QED
  BY <1>1, WrittenStays DEF Progress

\* The other lessons are only marked, and what there is stays.
LEMMA OthersMarked ==
  ASSUME DiskInv, NEW s \in Sessions, Stays(disk, disk'), disk' = [f \in Files |-> disk'[f]],
         \A kind \in Kinds : disk'[<<"index", kind>>].at = "ok"
                                => Index(disk'[<<"index", kind>>], disk', kind),
         lesson' = [t \in Sessions |-> lesson'[t]],
         \A t \in Sessions \ {s} : \/ lesson'[t] = lesson[t]
                                   \/ lesson[t] # NoLesson /\ Alike(lesson[t], lesson'[t]),
         lesson'[s] = NoLesson \/ (Shape(lesson'[s]) /\ Progress(lesson'[s], disk'))
  PROVE  DiskInv'
<1>1. ASSUME NEW t \in Sessions, lesson'[t] # NoLesson
      PROVE  Shape(lesson'[t]) /\ Progress(lesson'[t], disk')
  <2>1. CASE t = s
    BY <1>1, <2>1
  <2>2. CASE t # s /\ lesson'[t] = lesson[t]
    <3>1. Shape(lesson[t]) /\ Progress(lesson[t], disk)
      BY <1>1, <2>2 DEF DiskInv
    <3> QED
      BY <2>2, <3>1, ProgressStays
  <2>3. CASE t # s /\ lesson[t] # NoLesson /\ Alike(lesson[t], lesson'[t])
    <3>1. Progress(lesson[t], disk)
      BY <2>3 DEF DiskInv
    <3>2. Shape(lesson'[t]) /\ Progress(lesson'[t], disk)
      BY <2>3, <3>1, AlikeProgress DEF Alike
    <3> QED
      BY <3>2, ProgressStays
  <2> QED
    BY <2>1, <2>2, <2>3
<1> QED
  BY <1>1 DEF DiskInv

LEMMA CrowdedMarks ==
  ASSUME DiskInv, NEW s \in Sessions
  PROVE  /\ Crowded(s) = [t \in Sessions |-> Crowded(s)[t]] /\ Crowded(s)[s] = lesson[s]
         /\ \A t \in Sessions : \/ Crowded(s)[t] = lesson[t]
                                \/ lesson[t] # NoLesson /\ Alike(lesson[t], Crowded(s)[t])
<1>1. \A t \in Sessions : Crowded(s)[t] = IF t # s /\ lesson[t] # NoLesson
                                          THEN [lesson[t] EXCEPT !.alone = FALSE] ELSE lesson[t]
  BY DEF Crowded
<1>2. \A t \in Sessions : lesson[t] # NoLesson => Shape(lesson[t])
  BY DEF DiskInv
<1>3. Crowded(s) = [t \in Sessions |-> Crowded(s)[t]]
  BY DEF Crowded
<1>4. ASSUME NEW t \in Sessions
      PROVE  Crowded(s)[t] = lesson[t] \/ (lesson[t] # NoLesson /\ Alike(lesson[t], Crowded(s)[t]))
  <2>1. CASE t # s /\ lesson[t] # NoLesson
    <3>1. Alike(lesson[t], [lesson[t] EXCEPT !.alone = FALSE])
      BY <1>2, <2>1, Marked
    <3> QED
      BY <1>1, <2>1, <3>1
  <2>2. CASE ~(t # s /\ lesson[t] # NoLesson)
    BY <1>1, <2>2
  <2> QED
    BY <2>1, <2>2
<1>5. Crowded(s)[s] = lesson[s]
  BY <1>1
<1> QED
  BY <1>3, <1>4, <1>5

LEMMA OutdatedMarks ==
  ASSUME DiskInv, NEW s \in Sessions, NEW ls, \A t \in Sessions \ {s} : ls[t] = lesson[t]
  PROVE  /\ Outdated(s, ls) = [t \in Sessions |-> Outdated(s, ls)[t]]
         /\ Outdated(s, ls)[s] = ls[s]
         /\ \A t \in Sessions \ {s} : \/ Outdated(s, ls)[t] = lesson[t]
                                      \/ lesson[t] # NoLesson /\ Alike(lesson[t], Outdated(s, ls)[t])
<1> DEFINE o == Outdated(s, ls)
<1>1. \A t \in Sessions : o[t] = IF t # s /\ ls[t] # NoLesson /\ part(t) = "memory"
                                 THEN [ls[t] EXCEPT !.stale = ls[t].at # "next"] ELSE ls[t]
  BY DEF Outdated
<1>2. o = [t \in Sessions |-> o[t]]
  BY DEF Outdated
<1> HIDE DEF o
<1>3. \A t \in Sessions : lesson[t] # NoLesson => Shape(lesson[t])
  BY DEF DiskInv
<1>4. ASSUME NEW t \in Sessions \ {s}
      PROVE  o[t] = lesson[t] \/ (lesson[t] # NoLesson /\ Alike(lesson[t], o[t]))
  <2>1. CASE ls[t] # NoLesson /\ part(t) = "memory"
    <3>1. Alike(lesson[t], [lesson[t] EXCEPT !.stale = lesson[t].at # "next"])
      BY <1>3, <2>1, Marked
    <3> QED
      BY <1>1, <2>1, <3>1
  <2>2. CASE ~(ls[t] # NoLesson /\ part(t) = "memory")
    BY <1>1, <2>2
  <2> QED
    BY <2>1, <2>2
<1>5. o[s] = ls[s]
  BY <1>1
<1> QED
  BY <1>2, <1>4, <1>5 DEF o

\* The session's own lesson.
LEMMA OwnLesson ==
  ASSUME DiskInv, NEW s \in Sessions, lesson[s] # NoLesson
  PROVE  /\ Shape(lesson[s]) /\ Progress(lesson[s], disk) /\ part(s) = lesson[s].todo[1]
         /\ lesson[s].kind \in Kinds /\ lesson[s].id \in Ids
         /\ part(s) \in Saved \cup {"status"}
<1>1. Shape(lesson[s]) /\ Progress(lesson[s], disk)
  BY DEF DiskInv
<1>2. lesson[s].kind \in Kinds /\ lesson[s].id \in Ids
  BY <1>1 DEF Shape
<1> DEFINE todo == lesson[s].todo
<1>3. todo \in Seq(Saved \cup {"status"}) /\ Len(todo) > 0
  BY <1>1 DEF Progress, Todo
<1> HIDE DEF todo
<1>4. todo # <<>> /\ Head(todo) = todo[1] /\ todo[1] \in Saved \cup {"status"}
  BY <1>3
<1> QED
  BY <1>1, <1>2, <1>4 DEF part, todo

\* The lesson l with its next step prepared.
Moved(l, where, todo, data, stale) ==
  [kind |-> l.kind, id |-> l.id, link |-> l.link, suitable |-> l.suitable, todo |-> todo,
   at |-> where, data |-> data, stale |-> stale, alone |-> l.alone]

LEMMA MovedShape ==
  ASSUME NEW l, Shape(l), NEW where \in {"next", "read", "open"}, NEW todo, NEW data, NEW stale
  PROVE  Shape(Moved(l, where, todo, data, stale)) /\ Moved(l, where, todo, data, stale) # NoLesson
<1>1. l.kind \in Kinds /\ l.id \in Ids /\ l.kind # "none"
  BY DEF Shape, Kinds
<1> QED
  BY <1>1 DEF Moved, Shape, NoLesson

\* What the steps of a lesson make of it.
ReadOf(l, c, st) == [l EXCEPT !.at = "read", !.data = c, !.stale = st]
OpenOf(l) == [l EXCEPT !.at = "open"]
NextOf(l, todo) == [l EXCEPT !.at = "next", !.todo = todo, !.data = <<>>]

LEMMA MovedSteps ==
  ASSUME NEW l, Shape(l), NEW c, NEW st, NEW todo
  PROVE  /\ ReadOf(l, c, st) = Moved(l, "read", l.todo, c, st)
         /\ OpenOf(l) = Moved(l, "open", l.todo, l.data, l.stale)
         /\ NextOf(l, todo) = Moved(l, "next", todo, <<>>, l.stale)
<1> DEFINE R(w, x, y, z) == [kind : {l.kind}, id : {l.id}, link : {l.link},
                             suitable : {l.suitable}, todo : {x}, at : {w}, data : {y},
                             stale : {z}, alone : {l.alone}]
<1>1. l \in R(l.at, l.todo, l.data, l.stale)
  BY DEF Shape
<1>2. ASSUME NEW w, NEW x, NEW y, NEW z, NEW m \in R(w, x, y, z)
      PROVE  m = Moved(l, w, x, y, z)
  BY <1>2 DEF Moved
<1>3. ReadOf(l, c, st) \in R("read", l.todo, c, st)
  BY <1>1 DEF ReadOf
<1>4. OpenOf(l) \in R("open", l.todo, l.data, l.stale)
  BY <1>1 DEF OpenOf
<1>5. NextOf(l, todo) \in R("next", todo, <<>>, l.stale)
  BY <1>1 DEF NextOf
<1> HIDE DEF R
<1> QED
  BY <1>2, <1>3, <1>4, <1>5

-----------------------------------------------------------------------------
(* Steps that leave the files as they are.                                  *)

LEMMA QuietDisk ==
  ASSUME DiskInv, NEW s \in Sessions, disk' = disk,
         lesson' = [t \in Sessions |-> lesson'[t]],
         \A t \in Sessions \ {s} : \/ lesson'[t] = lesson[t]
                                   \/ lesson[t] # NoLesson /\ Alike(lesson[t], lesson'[t]),
         \/ lesson'[s] = lesson[s] \/ lesson'[s] = NoLesson
         \/ Shape(lesson'[s]) /\ Progress(lesson'[s], disk)
  PROVE  DiskInv'
<1>1. Stays(disk, disk')
  BY DEF Stays
<1>2. /\ disk' = [f \in Files |-> disk'[f]]
      /\ \A kind \in Kinds : disk'[<<"index", kind>>].at = "ok"
                                => Index(disk'[<<"index", kind>>], disk', kind)
  BY DEF DiskInv
<1>3. lesson'[s] = NoLesson \/ (Shape(lesson'[s]) /\ Progress(lesson'[s], disk'))
  BY DEF DiskInv
<1> QED
  BY <1>1, <1>2, <1>3, OthersMarked

LEMMA ToolsKeepDisk ==
  ASSUME DiskInv, NEW s \in Sessions, ToolCall(s) \/ ToolSave(s) \/ ToolCrash(s)
  PROVE  DiskInv'
<1>1. CASE ToolCall(s)
  BY <1>1, CrowdedMarks, QuietDisk DEF ToolCall
<1>2. CASE ToolSave(s)
  BY <1>2, OutdatedMarks, QuietDisk DEF ToolSave
<1>3. CASE ToolCrash(s)
  BY <1>3, QuietDisk DEF ToolCrash, learnVars, DiskInv
<1> QED
  BY <1>1, <1>2, <1>3

LEMMA StartKeepsDisk ==
  ASSUME DiskInv, NEW s \in Sessions, NEW kind \in Kinds, NEW id \in Ids, NEW link,
         NEW b \in BOOLEAN, Start(s, kind, id, link, b)
  PROVE  DiskInv'
<1> DEFINE alone == \A t \in Sessions \ {s} : ~busy(t)
           l == [kind |-> kind, id |-> id, link |-> link, suitable |-> b, todo |-> parts(b),
                 at |-> "next", data |-> <<>>, stale |-> FALSE, alone |-> alone]
<1>1. lesson' = [Crowded(s) EXCEPT ![s] = l] /\ disk' = disk
  BY DEF Start
<1>2. Shape(l)
  BY DEF Shape
<1>3. l.todo = parts(b) /\ l.at = "next"
  OBVIOUS
<1> HIDE DEF l
<1>4. Progress(l, disk)
  BY <1>3, PartsType DEF Progress
<1>5. /\ lesson' = [t \in Sessions |-> lesson'[t]] /\ lesson'[s] = l
      /\ \A t \in Sessions \ {s} : lesson'[t] = Crowded(s)[t]
  BY <1>1, CrowdedMarks
<1>6. \A t \in Sessions \ {s} : \/ lesson'[t] = lesson[t]
                                \/ lesson[t] # NoLesson /\ Alike(lesson[t], lesson'[t])
  BY <1>5, CrowdedMarks
<1> QED
  BY <1>1, <1>2, <1>4, <1>5, <1>6, QuietDisk

LEMMA LearnKeepsDisk ==
  ASSUME DiskInv, NEW s \in Sessions, learn_from_finding(s) \/ learn_from_rejection(s)
  PROVE  DiskInv'
<1>1. CASE learn_from_finding(s)
  <2>1. PICK f \in Findings, evidence \in BOOLEAN, exploitable \in BOOLEAN :
          \E link : Start(s, "finding", f, link, benchmarkSuitable(evidence, exploitable))
    BY <1>1 DEF learn_from_finding
  <2>2. PICK link : Start(s, "finding", f, link, benchmarkSuitable(evidence, exploitable))
    BY <2>1
  <2>3. benchmarkSuitable(evidence, exploitable) \in BOOLEAN
    BY DEF benchmarkSuitable
  <2> QED
    BY <2>2, <2>3, StartKeepsDisk DEF Kinds, Ids
<1>2. CASE learn_from_rejection(s)
  <2>1. PICK h \in Hypotheses : Start(s, "rejection", h, Node("hypothesis", h), FALSE)
    BY <1>2 DEF learn_from_rejection
  <2> QED
    BY <2>1, StartKeepsDisk DEF Kinds, Ids
<1> QED
  BY <1>1, <1>2

LEMMA EndKeepsDisk ==
  ASSUME DiskInv, NEW s \in Sessions, End(s)
  PROVE  DiskInv'
<1>1. disk' = disk /\ lesson' = [lesson EXCEPT ![s] = NoLesson]
  BY DEF End
<1>2. /\ lesson' = [t \in Sessions |-> lesson'[t]] /\ lesson'[s] = NoLesson
      /\ \A t \in Sessions \ {s} : lesson'[t] = lesson[t]
  BY <1>1 DEF DiskInv
<1> QED
  BY <1>1, <1>2, QuietDisk

-----------------------------------------------------------------------------
(* Reading, opening and writing a file.                                     *)

\* The new index names the lessons of the old one and the one learned.
LEMMA IndexedIndex ==
  ASSUME DiskInv, NEW l, l.kind \in Kinds, l.id \in Ids, Written(disk, l.kind, l.id)
  PROVE  /\ indexed(l).at = "ok" /\ Index(indexed(l), disk, l.kind)
         /\ l.id \in Range(indexed(l).ids)
<1> DEFINE ids == loadJson(disk[<<"index", l.kind>>], [at |-> "ok", ids |-> <<>>]).ids
           S == {i \in Ids : Written(disk, l.kind, i)}
           kept == {k \in DOMAIN ids : ids[k] # l.id}
           y == filtered(ids, kept)
<1>1. indexed(l).at = "ok" /\ indexed(l).ids = Append(y, l.id)
  BY DEF indexed
<1>2. ids \in Seq(S)
  <2>1. CASE disk[<<"index", l.kind>>].at = "ok"
    <3>1. ids = disk[<<"index", l.kind>>].ids
      BY <2>1 DEF loadJson
    <3> HIDE DEF ids
    <3>2. ids \in Seq(Ids) /\ \A k \in DOMAIN ids : Written(disk, l.kind, ids[k])
      BY <2>1, <3>1 DEF DiskInv, Index
    <3>3. Len(ids) \in Nat /\ DOMAIN ids = 1..Len(ids) /\ \A k \in 1..Len(ids) : ids[k] \in S
      BY <3>2
    <3>4. ids = [k \in 1..Len(ids) |-> ids[k]]
      BY <3>2
    <3> HIDE DEF S
    <3> QED
      BY <3>3, <3>4
  <2>2. CASE disk[<<"index", l.kind>>].at # "ok"
    BY <2>2 DEF loadJson
  <2> QED
    BY <2>1, <2>2
<1> HIDE DEF ids
<1>3. y \in Seq(S)
  <2>1. kept \in SUBSET DOMAIN ids
    OBVIOUS
  <2> HIDE DEF kept, S
  <2> QED
    BY <1>2, <2>1, Filtered
<1> HIDE DEF y
<1>4. l.id \in S
  OBVIOUS
<1>5. Append(y, l.id) \in Seq(S) /\ \A k \in DOMAIN Append(y, l.id) : Append(y, l.id)[k] \in S
  <2> HIDE DEF S
  <2> QED
    BY <1>3, <1>4
<1>6. Append(y, l.id) \in Seq(Ids)
  BY <1>5
<1>7. l.id \in Range(Append(y, l.id))
  <2>1. Len(y) + 1 \in DOMAIN Append(y, l.id) /\ Append(y, l.id)[Len(y) + 1] = l.id
    BY <1>3
  <2> QED
    BY <2>1 DEF Range
<1> QED
  BY <1>1, <1>5, <1>6, <1>7 DEF Index

LEMMA ContentIsWhole ==
  ASSUME DiskInv, NEW l, l.kind \in Kinds, l.id \in Ids, NEW p \in Saved, p # "memory",
         p # "own" => Written(disk, l.kind, l.id)
  PROVE  content(l, p).at = "ok" /\ (p = "index" => Index(content(l, p), disk, l.kind))
<1>1. CASE p \in {"own", "case"}
  BY <1>1 DEF content
<1>2. CASE p = "index"
  <2>1. content(l, p) = indexed(l)
    BY <1>2 DEF content
  <2> QED
    BY <1>2, <2>1, IndexedIndex
<1>3. CASE p = "graph"
  BY <1>3 DEF content, updateGraphKnowledge
<1> QED
  BY <1>1, <1>2, <1>3 DEF Saved

LEMMA ReadKeepsDisk ==
  ASSUME DiskInv, NEW s \in Sessions, Read(s)
  PROVE  DiskInv'
<1> DEFINE l == lesson[s]
           c == content(l, part(s))
           st == (part(s) = "memory" /\ file = Torn)
<1>1. /\ l # NoLesson /\ l.at = "next" /\ part(s) # "status" /\ disk' = disk
      /\ lesson' = [lesson EXCEPT ![s].at = "read", ![s].data = c, ![s].stale = st]
  BY DEF Read, at
<1>2. /\ Shape(l) /\ Progress(l, disk) /\ part(s) = l.todo[1]
      /\ l.kind \in Kinds /\ l.id \in Ids /\ part(s) \in Saved
  BY <1>1, OwnLesson
<1>3. part(s) # "memory" => c.at = "ok" /\ (part(s) = "index" => Index(c, disk, l.kind))
  BY <1>2, ContentIsWhole DEF Progress
<1> HIDE DEF c, st
<1>4. /\ lesson' = [t \in Sessions |-> lesson'[t]]
      /\ lesson'[s] = Moved(l, "read", l.todo, c, st)
      /\ \A t \in Sessions \ {s} : lesson'[t] = lesson[t]
  <2>1. lesson = [t \in Sessions |-> lesson[t]]
    BY DEF DiskInv
  <2>2. /\ lesson' = [t \in Sessions |-> lesson'[t]]
        /\ lesson'[s] = ReadOf(l, c, st)
        /\ \A t \in Sessions \ {s} : lesson'[t] = lesson[t]
    BY <1>1, <2>1 DEF ReadOf
  <2>3. ReadOf(l, c, st) = Moved(l, "read", l.todo, c, st)
    BY <1>2, MovedSteps
  <2> QED
    BY <2>2, <2>3
<1>5. Shape(lesson'[s])
  BY <1>2, <1>4, MovedShape
<1>6. Progress(lesson'[s], disk)
  <2>1. /\ lesson'[s].todo = l.todo /\ lesson'[s].kind = l.kind /\ lesson'[s].id = l.id
        /\ lesson'[s].data = c
    BY <1>4 DEF Moved
  <2> QED
    BY <1>1, <1>2, <1>3, <2>1 DEF Progress
<1> QED
  BY <1>1, <1>4, <1>5, <1>6, QuietDisk

\* The file a part of a lesson goes to, opened or written.
Into(l, p, c) == [disk EXCEPT ![target(l, p)] = c]

LEMMA PutDisk ==
  ASSUME DiskInv, NEW l, l.kind \in Kinds, l.id \in Ids, NEW p \in Saved, p # "memory",
         NEW c, c.at # "absent", NEW d, d = Into(l, p, c),
         (p = "index" /\ c.at = "ok") => Index(c, disk, l.kind)
  PROVE  /\ target(l, p) \in Files /\ Stays(disk, d) /\ d = [f \in Files |-> d[f]]
         /\ p = "own" => Written(d, l.kind, l.id)
         /\ \A kind \in Kinds : d[<<"index", kind>>].at = "ok" => Index(d[<<"index", kind>>], d, kind)
<1>1. disk = [f \in Files |-> disk[f]]
  BY DEF DiskInv
<1>2. /\ target(l, p) \in Files
      /\ p = "own" => target(l, p) = <<l.kind, SafeId[l.id]>>
      /\ p = "index" => target(l, p) = <<"index", l.kind>>
      /\ p # "index" => \A kind \in Kinds : <<"index", kind>> # target(l, p)
  BY FileNames DEF target, Saved
<1>3. d = [f \in Files |-> d[f]] /\ \A f \in Files : d[f] = IF f = target(l, p) THEN c ELSE disk[f]
  BY <1>1, <1>2 DEF Into
<1>4. Stays(disk, d)
  BY <1>3 DEF Stays
<1>5. p = "own" => Written(d, l.kind, l.id)
  BY <1>2, <1>3 DEF Written
<1>6. ASSUME NEW kind \in Kinds, d[<<"index", kind>>].at = "ok"
      PROVE  Index(d[<<"index", kind>>], d, kind)
  <2>1. <<"index", kind>> \in Files
    BY DEF Files, Kinds
  <2>2. CASE <<"index", kind>> = target(l, p)
    <3>1. p = "index" /\ kind = l.kind /\ d[<<"index", kind>>] = c
      BY <1>2, <1>3, <2>1, <2>2
    <3> QED
      BY <1>4, <1>6, <3>1, WrittenStays
  <2>3. CASE <<"index", kind>> # target(l, p)
    <3>1. d[<<"index", kind>>] = disk[<<"index", kind>>]
      BY <1>3, <2>1, <2>3
    <3>2. Index(d[<<"index", kind>>], disk, kind)
      BY <1>6, <3>1 DEF DiskInv
    <3> QED
      BY <1>4, <3>2, WrittenStays
  <2> QED
    BY <2>2, <2>3
<1> QED
  BY <1>2, <1>3, <1>4, <1>5, <1>6

\* A step that saves a part: the memory file, or a file of the learning loop.
LEMMA PutKeepsDisk ==
  ASSUME DiskInv, NEW s \in Sessions, lesson[s] # NoLesson, NEW c, NEW l,
         lesson[s].at # "next", Put(s, c), part(s) # "memory" => c.at # "absent",
         part(s) = "index" /\ c.at = "ok" => Index(c, disk, lesson[s].kind),
         lesson' = IF part(s) = "memory" THEN Outdated(s, [lesson EXCEPT ![s] = l])
                                         ELSE [lesson EXCEPT ![s] = l],
         Shape(l),
         (/\ Stays(disk, disk')
          /\ part(s) = "own" => Written(disk', lesson[s].kind, lesson[s].id)) => Progress(l, disk')
  PROVE  DiskInv'
<1> DEFINE ls == [lesson EXCEPT ![s] = l]
<1>1. /\ Progress(lesson[s], disk) /\ lesson[s].kind \in Kinds /\ lesson[s].id \in Ids
      /\ part(s) = lesson[s].todo[1] /\ part(s) \in Saved
  <2>1. /\ Progress(lesson[s], disk) /\ lesson[s].kind \in Kinds /\ lesson[s].id \in Ids
        /\ part(s) = lesson[s].todo[1] /\ part(s) \in Saved \cup {"status"}
    BY OwnLesson
  <2> QED
    BY <2>1 DEF Progress
<1>2. /\ Stays(disk, disk') /\ disk' = [f \in Files |-> disk'[f]]
      /\ part(s) = "own" => Written(disk', lesson[s].kind, lesson[s].id)
      /\ \A kind \in Kinds : disk'[<<"index", kind>>].at = "ok"
                                => Index(disk'[<<"index", kind>>], disk', kind)
  <2>1. CASE part(s) = "memory"
    <3>1. disk' = disk
      BY <2>1 DEF Put
    <3> QED
      BY <2>1, <3>1 DEF Stays, DiskInv
  <2>2. CASE part(s) # "memory"
    <3>1. disk' = Into(lesson[s], part(s), c)
      BY <2>2 DEF Put, Into
    <3> QED
      BY <1>1, <2>2, <3>1, PutDisk
  <2> QED
    BY <2>1, <2>2
<1>3. Progress(l, disk')
  BY <1>2
<1>4. /\ ls = [t \in Sessions |-> ls[t]] /\ ls[s] = l
      /\ \A t \in Sessions \ {s} : ls[t] = lesson[t]
  BY DEF DiskInv
<1>5. lesson' = IF part(s) = "memory" THEN Outdated(s, ls) ELSE ls
  OBVIOUS
<1> HIDE DEF ls
<1>6. /\ lesson' = [t \in Sessions |-> lesson'[t]] /\ lesson'[s] = l
      /\ \A t \in Sessions \ {s} : \/ lesson'[t] = lesson[t]
                                   \/ lesson[t] # NoLesson /\ Alike(lesson[t], lesson'[t])
  <2>1. CASE part(s) = "memory"
    <3>1. lesson' = Outdated(s, ls)
      BY <1>5, <2>1
    <3>2. /\ Outdated(s, ls) = [t \in Sessions |-> Outdated(s, ls)[t]]
          /\ Outdated(s, ls)[s] = ls[s]
          /\ \A t \in Sessions \ {s} :
               \/ Outdated(s, ls)[t] = lesson[t]
               \/ lesson[t] # NoLesson /\ Alike(lesson[t], Outdated(s, ls)[t])
      <4>1. \A t \in Sessions \ {s} : ls[t] = lesson[t]
        BY <1>4
      <4> QED
        BY <4>1, OutdatedMarks
    <3> QED
      BY <1>4, <3>1, <3>2
  <2>2. CASE part(s) # "memory"
    BY <1>4, <1>5, <2>2
  <2> QED
    BY <2>1, <2>2
<1> QED
  BY <1>2, <1>3, <1>6, OthersMarked

LEMMA OpenKeepsDisk ==
  ASSUME DiskInv, NEW s \in Sessions, OpenJson(s)
  PROVE  DiskInv'
<1> DEFINE l == OpenOf(lesson[s])
<1>1. lesson[s] # NoLesson /\ lesson[s].at = "read" /\ Put(s, Torn)
  BY DEF OpenJson, at
<1>2. lesson' = IF part(s) = "memory" THEN Outdated(s, [lesson EXCEPT ![s] = l])
                                      ELSE [lesson EXCEPT ![s] = l]
  BY DEF OpenJson, OpenOf
<1>3. /\ Shape(lesson[s]) /\ Progress(lesson[s], disk) /\ lesson[s].kind \in Kinds
      /\ part(s) = lesson[s].todo[1]
  BY <1>1, OwnLesson
<1>4. l = Moved(lesson[s], "open", lesson[s].todo, lesson[s].data, lesson[s].stale)
  BY <1>3, MovedSteps
<1>5. Shape(l)
  BY <1>3, <1>4, MovedShape
<1> HIDE DEF l
<1>6. /\ l.todo = lesson[s].todo /\ l.kind = lesson[s].kind /\ l.id = lesson[s].id
      /\ l.data = lesson[s].data
  BY <1>4 DEF Moved
<1>7. ASSUME Stays(disk, disk') PROVE Progress(l, disk')
  <2>1. Progress(lesson[s], disk')
    BY <1>3, <1>7, ProgressStays
  <2> QED
    BY <1>1, <1>6, <2>1 DEF Progress
<1>8. Torn.at # "absent" /\ Torn.at # "ok" /\ lesson[s].at # "next"
  BY <1>1 DEF Torn
<1> QED
  BY <1>1, <1>2, <1>5, <1>7, <1>8, PutKeepsDisk

Following(ls, s) == [ls EXCEPT ![s].at = "next", ![s].todo = Tail(@), ![s].data = <<>>]

LEMMA NextWritten ==
  ASSUME NEW ls, ls = [t \in Sessions |-> ls[t]], NEW s \in Sessions
  PROVE  Following(ls, s) = [ls EXCEPT ![s] = NextOf(ls[s], Tail(ls[s].todo))]
BY DEF Following, NextOf

LEMMA WriteKeepsDisk ==
  ASSUME DiskInv, NEW s \in Sessions, WriteJson(s)
  PROVE  DiskInv'
<1> DEFINE todo == Tail(lesson[s].todo)
           l == NextOf(lesson[s], todo)
           c == lesson[s].data
<1>1. lesson[s] # NoLesson /\ lesson[s].at = "open" /\ Put(s, c)
  BY DEF WriteJson, at
<1>2. lesson' = IF part(s) = "memory" THEN Outdated(s, [lesson EXCEPT ![s] = l])
                                      ELSE [lesson EXCEPT ![s] = l]
  <2>1. lesson' = IF part(s) = "memory" THEN Outdated(s, Following(lesson, s)) ELSE Following(lesson, s)
    BY DEF WriteJson, Following
  <2>2. Following(lesson, s) = [lesson EXCEPT ![s] = l]
    BY NextWritten DEF DiskInv
  <2> QED
    BY <2>1, <2>2
<1>3. /\ Shape(lesson[s]) /\ Progress(lesson[s], disk) /\ lesson[s].kind \in Kinds
      /\ part(s) = lesson[s].todo[1]
  BY <1>1, OwnLesson
<1>4. l = Moved(lesson[s], "next", todo, <<>>, lesson[s].stale)
  BY <1>3, MovedSteps
<1>5. Shape(l)
  BY <1>3, <1>4, MovedShape
<1> HIDE DEF l
<1>6. l.todo = todo /\ l.kind = lesson[s].kind /\ l.id = lesson[s].id /\ l.at = "next"
  BY <1>4 DEF Moved
<1>7. /\ part(s) # "status"
      /\ part(s) # "memory" => c.at = "ok"
      /\ part(s) = "index" => Index(c, disk, lesson[s].kind)
  BY <1>1, <1>3 DEF Progress
<1>8. ASSUME Stays(disk, disk'),
             part(s) = "own" => Written(disk', lesson[s].kind, lesson[s].id)
      PROVE  Progress(l, disk')
  <2>1. Todo(lesson[s].todo) /\ "own" \notin {lesson[s].todo[k] : k \in DOMAIN lesson[s].todo \ {1}}
    BY <1>3 DEF Progress
  <2>2. /\ Todo(todo)
        /\ \A k \in DOMAIN todo : k + 1 \in DOMAIN lesson[s].todo /\ todo[k] = lesson[s].todo[k + 1]
    BY <1>3, <1>7, <2>1, TodoTail
  <2>3. \A k \in DOMAIN todo : k \in Nat /\ k # 0
    BY <2>2 DEF Todo
  <2> HIDE DEF todo
  <2>4. \A k \in DOMAIN todo : todo[k] # "own"
    <3>1. \A k \in DOMAIN todo : k + 1 # 1
      BY <2>3
    <3> QED
      BY <2>1, <2>2, <3>1
  <2>5. Progress(lesson[s], disk')
    BY <1>3, <1>8, ProgressStays
  <2>6. Written(disk', lesson[s].kind, lesson[s].id)
    BY <1>3, <1>8, <2>5 DEF Progress
  <2> QED
    BY <1>6, <2>2, <2>4, <2>6 DEF Progress
<1>9. lesson[s].at # "next" /\ (part(s) # "memory" => c.at # "absent")
  BY <1>1, <1>7
<1> QED
  BY <1>1, <1>2, <1>5, <1>7, <1>8, <1>9, PutKeepsDisk

-----------------------------------------------------------------------------
(* The theorem.                                                             *)

LEMMA InitDisk == Init => DiskInv
<1> SUFFICES ASSUME Init PROVE DiskInv
  OBVIOUS
<1>1. PICK g : disk = [f \in Files |-> IF f = GraphFile THEN g ELSE Absent]
  BY DEF Init
<1>2. disk = [f \in Files |-> disk[f]]
  BY <1>1
<1>3. \A kind \in Kinds : disk[<<"index", kind>>].at # "ok"
  BY <1>1 DEF Files, Kinds, GraphFile, Absent
<1>4. lesson = [s \in Sessions |-> lesson[s]] /\ \A s \in Sessions : lesson[s] = NoLesson
  BY DEF Init
<1> QED
  BY <1>2, <1>3, <1>4 DEF DiskInv

LEMMA DiskStep == DiskInv /\ [Next]_vars => DiskInv'
<1> SUFFICES ASSUME DiskInv, [Next]_vars PROVE DiskInv'
  OBVIOUS
<1>1. CASE UNCHANGED vars
  <2>1. disk' = disk /\ lesson' = lesson
    BY <1>1 DEF vars, learnVars
  <2> QED
    BY <2>1 DEF DiskInv
<1>2. CASE Next
  <2>1. PICK s \in Sessions : \/ ToolCall(s) \/ ToolSave(s) \/ ToolCrash(s)
                              \/ learn_from_finding(s) \/ learn_from_rejection(s) \/ LessonStep(s)
    BY <1>2 DEF Next
  <2>2. CASE ToolCall(s) \/ ToolSave(s) \/ ToolCrash(s)
    BY <2>2, ToolsKeepDisk
  <2>3. CASE learn_from_finding(s) \/ learn_from_rejection(s)
    BY <2>3, LearnKeepsDisk
  <2>4. CASE Read(s)
    BY <2>4, ReadKeepsDisk
  <2>5. CASE OpenJson(s)
    BY <2>5, OpenKeepsDisk
  <2>6. CASE WriteJson(s)
    BY <2>6, WriteKeepsDisk
  <2>7. CASE Answer(s) \/ Throw(s) \/ Die(s)
    BY <2>7, EndKeepsDisk DEF Answer, Throw, Die
  <2> QED
    BY <2>1, <2>2, <2>3, <2>4, <2>5, <2>6, <2>7 DEF LessonStep
<1> QED
  BY <1>1, <1>2

\* What an index of the learning loop names has its own file, for any number of
\* sessions and lessons, after every race and every session that died in a write
\* (learn_from_finding and learn_from_rejection save the file before the index).
THEOREM IndexedSafe == Spec => []IndexedHaveFiles
<1>1. DiskInv => IndexedHaveFiles
  <2> SUFFICES ASSUME DiskInv, NEW kind \in Kinds, disk[<<"index", kind>>].at = "ok",
                      NEW i \in Range(disk[<<"index", kind>>].ids)
               PROVE  disk[<<kind, SafeId[i]>>].at # "absent"
    BY DEF IndexedHaveFiles, Kinds
  <2>1. Index(disk[<<"index", kind>>], disk, kind)
    BY DEF DiskInv
  <2> QED
    BY <2>1 DEF Index, Written, Range
<1> QED
  BY <1>1, InitDisk, DiskStep, PTL DEF Spec

-----------------------------------------------------------------------------
(* What a lesson leaves behind, and what the memory tools leave of it.      *)

IsSeq(x) == x \in Seq(Range(x))

\* A content of collective-memory.json.
Has(f) ==
  /\ f \in [at : {"ok"}, items : {f.items}, counter : {f.counter}, entries : {f.entries}]
  /\ \A es \in f.entries : IsSeq(es)

\* e is the last of es, which holds it once and is within the limit.
Newest(es, e) ==
  /\ Last(es) = e /\ Len(es) <= MAX_ENTRIES
  /\ Cardinality({k \in DOMAIN es : es[k] = e}) = 1

\* The ids of some nodes.
NodeIds(nodes) == {n.id : n \in Range(nodes)}

\* c is what part p of the lesson l is to leave in its file.
Good(l, p, c) ==
  /\ p \in {"own", "case"} => c = [at |-> "ok", of |-> l.id]
  /\ p = "index" => l.id \in Range(c.ids)
  /\ p = "memory" => Has(c) /\ \E es \in c.entries : Newest(es, entryOf(l))
  /\ p = "graph" => /\ c.at = "ok" /\ IsSeq(c.nodes) /\ EdgeOf(l.link, knowledge(l)) \in c.edges
                    /\ {l.link.id, knowledge(l).id} \subseteq NodeIds(c.nodes)

Where(l, p, d, f) == IF p = "memory" THEN f ELSE d[target(l, p)]

\* The parts of l that are no longer to be done are done.
Lasting(l) == {p \in Saved : p = "case" => l.suitable}
Done(l, d, f) == \A p \in Lasting(l) : p \notin Range(l.todo) => Good(l, p, Where(l, p, d, f))

\* The link of l suits the graph, and the graph it is going to save.
Ties(l, d) ==
  /\ Linked(l, loadJson(d[GraphFile], noGraph).nodes)
  /\ l.at # "next" /\ l.todo[1] = "graph" => Linked(l, l.data.nodes)

\* A call of a memory tool; a copy that nobody overtook has the lessons of the file.
Tool(p, f) ==
  /\ p \in [at : {"loaded", "open"}, why : {p.why}, m : {p.m}, new : {p.new}, stale : BOOLEAN]
  /\ Has(p.m)
  /\ (p.at = "loaded" /\ ~p.stale /\ f.at = "ok") => p.m.entries = f.entries

\* A lesson that is alone has done what it has done.
Own(l, d, f) ==
  /\ l.at # "next" => Good(l, l.todo[1], l.data)
  /\ l.alone => Done(l, d, f) /\ Ties(l, d)

LessonInv ==
  /\ disk[GraphFile].at = "ok" => IsSeq(disk[GraphFile].nodes)
  /\ file.at = "ok" => Has(file)
  /\ proc = [s \in Sessions |-> proc[s]]
  /\ \A s \in Sessions : proc[s] # Idle => Tool(proc[s], file)
  /\ \A s \in Sessions : lesson[s] # NoLesson =>
       /\ proc[s] = Idle /\ Own(lesson[s], disk, file)
       /\ lesson[s].alone => \A t \in Sessions \ {s} : ~busy(t)

-----------------------------------------------------------------------------
(* What the parts of a lesson write.                                        *)

LEMMA SeqIs ==
  ASSUME NEW S, NEW x \in Seq(S)
  PROVE  IsSeq(x) /\ Len(x) \in Nat /\ DOMAIN x = 1..Len(x)
<1>1. Len(x) \in Nat /\ DOMAIN x = 1..Len(x) /\ x = [k \in 1..Len(x) |-> x[k]]
  OBVIOUS
<1>2. \A k \in 1..Len(x) : x[k] \in Range(x)
  BY <1>1 DEF Range
<1> QED
  BY <1>1, <1>2 DEF IsSeq

LEMMA AppendIs ==
  ASSUME NEW x, IsSeq(x), NEW e
  PROVE  /\ IsSeq(Append(x, e)) /\ Len(Append(x, e)) = Len(x) + 1 /\ Len(x) \in Nat
         /\ DOMAIN Append(x, e) = 1..(Len(x) + 1) /\ DOMAIN x = 1..Len(x)
         /\ \A k \in 1..Len(x) : Append(x, e)[k] = x[k]
         /\ Append(x, e)[Len(x) + 1] = e
<1> DEFINE S == Range(x) \cup {e}
<1>1. x \in Seq(Range(x)) /\ Range(x) \subseteq S /\ e \in S
  BY DEF IsSeq
<1> HIDE DEF S
<1>2. x \in Seq(S)
  BY <1>1
<1>3. Append(x, e) \in Seq(S)
  BY <1>1, <1>2
<1>4. /\ Len(Append(x, e)) = Len(x) + 1 /\ Len(x) \in Nat /\ DOMAIN x = 1..Len(x)
      /\ DOMAIN Append(x, e) = 1..(Len(x) + 1)
      /\ \A k \in 1..Len(x) : Append(x, e)[k] = x[k]
      /\ Append(x, e)[Len(x) + 1] = e
  BY <1>1, <1>2
<1> QED
  BY <1>3, <1>4, SeqIs

\* The entry learned is the newest, once, and within the limit.
LEMMA Rotated ==
  ASSUME NEW es, IsSeq(es), NEW e
  PROVE  IsSeq(rotated(es, e)) /\ Newest(rotated(es, e), e)
<1> DEFINE kept == {k \in DOMAIN es : es[k] # e}
           y == filtered(es, kept)
           w == Append(y, e)
           a == IF Len(w) > MAX_ENTRIES THEN 1 + Len(w) - MAX_ENTRIES ELSE 1
           z == SubSeq(w, a, Len(w))
<1>1. rotated(es, e) = z
  BY DEF rotated
<1>2. IsSeq(y) /\ \A k \in DOMAIN y : y[k] # e
  <2>1. es \in Seq(Range(es)) /\ kept \in SUBSET DOMAIN es
    BY DEF IsSeq
  <2>2. \A k \in kept : es[k] # e
    OBVIOUS
  <2> HIDE DEF kept
  <2>3. PICK pos \in [1..Cardinality(kept) -> kept] :
          y = [n \in DOMAIN pos |-> es[pos[n]]] /\ y \in Seq(Range(es))
    BY <2>1, Filtered
  <2> HIDE DEF y
  <2>4. \A k \in DOMAIN y : y[k] # e
    BY <2>2, <2>3
  <2> QED
    BY <2>3, <2>4, SeqIs
<1> HIDE DEF y
<1>3. /\ IsSeq(w) /\ Len(w) = Len(y) + 1 /\ Len(y) \in Nat /\ DOMAIN w = 1..(Len(y) + 1)
      /\ DOMAIN y = 1..Len(y)
      /\ \A k \in 1..Len(y) : w[k] = y[k]
      /\ w[Len(y) + 1] = e
  BY <1>2, AppendIs
<1> HIDE DEF w
<1>4. Len(w) \in Nat /\ Len(w) >= 1 /\ DOMAIN w = 1..Len(w)
  BY <1>3
<1>5. w[Len(w)] = e /\ \A k \in 1..Len(w) : k # Len(w) => w[k] # e
  BY <1>2, <1>3
<1>6. /\ a \in Nat /\ 1 <= a /\ a <= Len(w) /\ MAX_ENTRIES \in Nat
      /\ Len(w) - a + 1 \in Nat /\ Len(w) - a + 1 >= 1
      /\ Len(w) - a + 1 <= MAX_ENTRIES
      /\ \A k \in 1..(Len(w) - a + 1) : a + k - 1 \in 1..Len(w)
      /\ \A k \in 1..(Len(w) - a + 1) : a + k - 1 = Len(w) <=> k = Len(w) - a + 1
  <2>1. MAX_ENTRIES \in Nat \ {0}
    BY LearningAssumption
  <2>2. a = IF Len(w) > MAX_ENTRIES THEN 1 + Len(w) - MAX_ENTRIES ELSE 1
    OBVIOUS
  <2> HIDE DEF a
  <2>3. a \in Nat /\ 1 <= a /\ a <= Len(w) /\ Len(w) - a + 1 <= MAX_ENTRIES
    BY <1>4, <2>1, <2>2
  <2> QED
    BY <1>4, <2>1, <2>3
<1> HIDE DEF a
<1>7. /\ z \in Seq(Range(w)) /\ Len(z) = Len(w) - a + 1
      /\ \A k \in 1..Len(z) : z[k] = w[a + k - 1]
  <2>1. \A k \in a..Len(w) : w[k] \in Range(w)
    <3>1. a..Len(w) \subseteq 1..Len(w)
      BY <1>4, <1>6
    <3> QED
      BY <1>4, <3>1 DEF Range
  <2>2. /\ z \in Seq(Range(w)) /\ Len(z) = IF a <= Len(w) THEN Len(w) - a + 1 ELSE 0
        /\ \A k \in 1..(Len(w) - a + 1) : z[k] = w[a + k - 1]
    <3>1. a \in Int /\ Len(w) \in Int
      BY <1>4, <1>6
    <3> QED
      BY <2>1, <3>1, SubSeqProperties
  <2> QED
    BY <1>6, <2>2
<1> HIDE DEF z
<1>8. IsSeq(z) /\ Len(z) \in Nat /\ DOMAIN z = 1..Len(z)
  BY <1>7, SeqIs
<1>9. \A k \in 1..Len(z) : z[k] = e <=> k = Len(z)
  <2>1. \A k \in 1..Len(z) :
          a + k - 1 \in 1..Len(w) /\ (a + k - 1 = Len(w) <=> k = Len(z))
    BY <1>6, <1>7
  <2> QED
    BY <1>4, <1>5, <1>7, <2>1
<1>10. Len(z) \in 1..Len(z) /\ Len(z) <= MAX_ENTRIES
  BY <1>6, <1>7
<1>11. {k \in DOMAIN z : z[k] = e} = {Len(z)}
  BY <1>8, <1>9, <1>10
<1>12. Cardinality({Len(z)}) = 1
  BY FS_Singleton
<1>13. z[Len(z)] = e
  BY <1>9, <1>10
<1> QED
  BY <1>1, <1>8, <1>10, <1>11, <1>12, <1>13 DEF Newest, Last

LEMMA Kept ==
  ASSUME NEW f, Has(f), NEW E, \A es \in E : IsSeq(es)
  PROVE  Has([f EXCEPT !.entries = E]) /\ [f EXCEPT !.entries = E].entries = E
<1> DEFINE g == [f EXCEPT !.entries = E]
<1>1. f \in [at : {"ok"}, items : {f.items}, counter : {f.counter}, entries : {f.entries}]
  BY DEF Has
<1>2. g \in [at : {"ok"}, items : {f.items}, counter : {f.counter}, entries : {E}]
  BY <1>1
<1> HIDE DEF g
<1>3. g.items = f.items /\ g.counter = f.counter /\ g.entries = E
  BY <1>2
<1> QED
  BY <1>2, <1>3 DEF Has, g

\* The lesson is an entry of the memory file that is going to be saved.
LEMMA MemoryContent ==
  ASSUME NEW l, file.at = "ok" => Has(file), ~noEntries
  PROVE  Good(l, "memory", addCollectiveMemory(l))
<1> DEFINE none == [at |-> "ok", items |-> <<>>, counter |-> 0, entries |-> {<<>>}]
           m == loadJson(file, none)
           E == {rotated(es, entryOf(l)) : es \in m.entries}
<1>1. Has(m) /\ m.entries # {}
  <2>1. CASE file.at = "ok"
    BY <2>1 DEF loadJson, noEntries, readable
  <2>2. CASE file.at # "ok"
    <3>1. m = none
      BY <2>2 DEF loadJson
    <3>2. IsSeq(<<>>)
      BY DEF IsSeq, Range
    <3>3. Has(none)
      BY <3>2 DEF Has
    <3> QED
      BY <3>1, <3>3
  <2> QED
    BY <2>1, <2>2
<1>2. addCollectiveMemory(l) = [m EXCEPT !.entries = E]
  BY DEF addCollectiveMemory
<1> HIDE DEF m
<1>3. \A es \in m.entries : IsSeq(es)
  BY <1>1 DEF Has
<1>4. \A x \in E : IsSeq(x) /\ Newest(x, entryOf(l))
  BY <1>3, Rotated
<1>5. E # {}
  BY <1>1
<1> HIDE DEF E
<1>6. Has([m EXCEPT !.entries = E]) /\ [m EXCEPT !.entries = E].entries = E
  BY <1>1, <1>4, Kept
<1> QED
  BY <1>2, <1>4, <1>5, <1>6 DEF Good

LEMMA AppendIds ==
  ASSUME NEW nodes, IsSeq(nodes), NEW n
  PROVE  NodeIds(Append(nodes, n)) = NodeIds(nodes) \cup {n.id}
<1> DEFINE a == Append(nodes, n)
<1>1. /\ Len(nodes) \in Nat /\ DOMAIN a = 1..(Len(nodes) + 1) /\ DOMAIN nodes = 1..Len(nodes)
      /\ \A k \in 1..Len(nodes) : a[k] = nodes[k]
      /\ a[Len(nodes) + 1] = n
  BY AppendIs
<1> HIDE DEF a
<1>2. Range(a) = Range(nodes) \cup {n}
  <2>1. \A k \in DOMAIN a : a[k] \in Range(nodes) \cup {n}
    BY <1>1 DEF Range
  <2>2. \A k \in DOMAIN nodes : k \in DOMAIN a /\ a[k] = nodes[k]
    BY <1>1
  <2>3. Len(nodes) + 1 \in DOMAIN a
    BY <1>1
  <2> QED
    BY <1>1, <2>1, <2>2, <2>3 DEF Range
<1> QED
  BY <1>2 DEF NodeIds, a

LEMMA Upserted ==
  ASSUME NEW nodes, IsSeq(nodes), NEW n
  PROVE  IsSeq(upsert(nodes, n)) /\ NodeIds(upsert(nodes, n)) = NodeIds(nodes) \cup {n.id}
<1>1. Len(nodes) \in Nat /\ DOMAIN nodes = 1..Len(nodes)
  BY DEF IsSeq
<1>2. CASE \E k \in DOMAIN nodes : same(nodes[k], n)
  <2> DEFINE u == [k \in DOMAIN nodes |-> IF same(nodes[k], n) THEN n ELSE nodes[k]]
             S == Range(nodes) \cup {n}
  <2>1. upsert(nodes, n) = u
    BY <1>2 DEF upsert
  <2>2. u \in [1..Len(nodes) -> S]
    BY <1>1 DEF Range
  <2>3. DOMAIN u = DOMAIN nodes /\ \A k \in DOMAIN nodes : u[k].id = nodes[k].id
    BY DEF same
  <2> HIDE DEF u, S
  <2>4. u \in Seq(S)
    BY <1>1, <2>2
  <2>5. NodeIds(u) = NodeIds(nodes)
    <3>1. \A v : NodeIds(v) = {v[k].id : k \in DOMAIN v}
      BY DEF NodeIds, Range
    <3>2. {u[k].id : k \in DOMAIN u} = {nodes[k].id : k \in DOMAIN nodes}
      BY <2>3
    <3> QED
      BY <3>1, <3>2
  <2>6. n.id \in NodeIds(nodes)
    BY <1>2 DEF NodeIds, Range, same
  <2> QED
    BY <2>1, <2>4, <2>5, <2>6, SeqIs
<1>3. CASE ~\E k \in DOMAIN nodes : same(nodes[k], n)
  BY <1>3, AppendIs, AppendIds DEF upsert
<1> QED
  BY <1>2, <1>3

\* The graph has the node of the lesson, its link and the edge between them, and
\* no other id is new.
LEMMA GraphContent ==
  ASSUME NEW l, disk[GraphFile].at = "ok" => IsSeq(disk[GraphFile].nodes)
  PROVE  /\ Good(l, "graph", updateGraphKnowledge(l))
         /\ NodeIds(updateGraphKnowledge(l).nodes)
               = NodeIds(graph.nodes) \cup {l.link.id, knowledge(l).id}
<1> DEFINE u == upsert(graph.nodes, knowledge(l))
           n == IF \E k \in DOMAIN u : same(u[k], l.link) THEN u ELSE Append(u, l.link)
           E == graph.edges \cup {EdgeOf(l.link, knowledge(l))}
<1>1. updateGraphKnowledge(l) = [at |-> "ok", nodes |-> n, edges |-> E]
  BY DEF updateGraphKnowledge
<1>2. IsSeq(graph.nodes)
  <2>1. CASE disk[GraphFile].at = "ok"
    BY <2>1 DEF graph, loadJson
  <2>2. CASE disk[GraphFile].at # "ok"
    <3>1. graph.nodes = <<>>
      BY <2>2 DEF graph, loadJson, noGraph
    <3> QED
      BY <3>1 DEF IsSeq, Range
  <2> QED
    BY <2>1, <2>2
<1>3. IsSeq(u) /\ NodeIds(u) = NodeIds(graph.nodes) \cup {knowledge(l).id}
  BY <1>2, Upserted
<1> HIDE DEF u
<1>4. IsSeq(n) /\ NodeIds(n) = NodeIds(u) \cup {l.link.id}
  <2>1. CASE \E k \in DOMAIN u : same(u[k], l.link)
    <3>1. n = u
      BY <2>1
    <3>2. l.link.id \in NodeIds(u)
      BY <2>1 DEF NodeIds, Range, same
    <3> QED
      BY <1>3, <3>1, <3>2
  <2>2. CASE ~\E k \in DOMAIN u : same(u[k], l.link)
    <3>1. n = Append(u, l.link)
      BY <2>2
    <3> QED
      BY <1>3, <3>1, AppendIs, AppendIds
  <2> QED
    BY <2>1, <2>2
<1>5. EdgeOf(l.link, knowledge(l)) \in E
  OBVIOUS
<1> HIDE DEF n, E
<1> QED
  BY <1>1, <1>3, <1>4, <1>5 DEF Good

\* What suits a graph suits it with the nodes of the lesson, and an empty one.
LEMMA LinkedStays ==
  ASSUME NEW l, l.kind \in Kinds, l.id \in Ids, NEW nodes, Linked(l, nodes), NEW more,
         NodeIds(more) \subseteq NodeIds(nodes) \cup {l.link.id, knowledge(l).id}
  PROVE  Linked(l, more)
<1>1. CASE l.kind = "finding" /\ l.link.id # l.id
  <2>1. l.id \notin NodeIds(nodes) /\ <<l.id, l.link.id>> \in Within
    BY <1>1 DEF Linked, NodeIds
  <2>2. knowledge(l).id = NodeId["pattern", SafeId[l.id]]
    BY <1>1 DEF knowledge, Node, NodeOf
  <2>3. knowledge(l).id # l.id
    BY <2>2, LearningAssumption DEF IdPrefixes
  <2>4. l.id \notin NodeIds(more)
    BY <1>1, <2>1, <2>3
  <2> QED
    BY <1>1, <2>1, <2>4 DEF Linked, NodeIds
<1>2. CASE ~(l.kind = "finding" /\ l.link.id # l.id)
  BY <1>2 DEF Linked
<1> QED
  BY <1>1, <1>2

LEMMA ContentIsGood ==
  ASSUME DiskInv, LessonInv, NEW l, l.kind \in Kinds, l.id \in Ids, NEW p \in Saved,
         p # "own" => Written(disk, l.kind, l.id), ~(p = "memory" /\ noEntries)
  PROVE  Good(l, p, content(l, p))
<1>1. CASE p = "own" \/ p = "case"
  BY <1>1 DEF content, Good
<1>2. CASE p = "index"
  <2>1. content(l, p) = indexed(l) /\ l.id \in Range(indexed(l).ids)
    BY <1>2, IndexedIndex DEF content
  <2> QED
    BY <1>2, <2>1 DEF Good
<1>3. CASE p = "memory"
  <2>1. content(l, p) = addCollectiveMemory(l)
    BY <1>3 DEF content
  <2> QED
    BY <1>3, <2>1, MemoryContent DEF LessonInv
<1>4. CASE p = "graph"
  <2>1. content(l, p) = updateGraphKnowledge(l)
    BY <1>4 DEF content
  <2> QED
    BY <1>4, <2>1, GraphContent DEF LessonInv
<1> QED
  BY <1>1, <1>2, <1>3, <1>4 DEF Saved

-----------------------------------------------------------------------------
(* Steps of one session, seen by the others.                                *)

\* What is good for a lesson is good for the same lesson with another mark.
LEMMA AlikeGood ==
  ASSUME NEW l, NEW m, m.kind = l.kind, m.id = l.id, m.link = l.link, NEW p, NEW c, Good(l, p, c)
  PROVE  Good(m, p, c)
BY DEF Good, entryOf, knowledge

LEMMA AlikeDone ==
  ASSUME NEW l, NEW m, m.kind = l.kind, m.id = l.id, m.link = l.link, m.todo = l.todo,
         m.suitable = l.suitable, NEW d, NEW f, Done(l, d, f)
  PROVE  Done(m, d, f)
<1>1. Lasting(m) = Lasting(l) /\ \A p \in Saved : Where(m, p, d, f) = Where(l, p, d, f)
  BY DEF Where, target, Saved, Lasting
<1>2. \A p \in Lasting(l) : p \in Saved
  BY DEF Lasting
<1> QED
  BY <1>1, <1>2, AlikeGood DEF Done

\* The other sessions are overtaken at most, and none of them is alone.
LEMMA OthersKept ==
  ASSUME DiskInv, LessonInv, NEW s \in Sessions,
         disk'[GraphFile].at = "ok" => IsSeq(disk'[GraphFile].nodes),
         file'.at = "ok" => Has(file'),
         proc' = [t \in Sessions |-> proc'[t]],
         \A t \in Sessions \ {s} : /\ proc'[t] = Idle <=> proc[t] = Idle
                                   /\ proc'[t] # Idle => Tool(proc'[t], file'),
         \A t \in Sessions \ {s} :
            \/ lesson'[t] = lesson[t]
            \/ lesson[t] # NoLesson /\ Alike(lesson[t], lesson'[t]),
         \A t \in Sessions \ {s} : lesson[t] # NoLesson => ~lesson'[t].alone,
         proc'[s] # Idle => Tool(proc'[s], file'),
         lesson'[s] # NoLesson =>
            /\ proc'[s] = Idle /\ Own(lesson'[s], disk', file')
            /\ lesson'[s].alone => \A t \in Sessions \ {s} : ~busy(t)
  PROVE  LessonInv'
<1>1. \A t \in Sessions \ {s} : lesson[t] # NoLesson =>
        Shape(lesson[t]) /\ proc[t] = Idle /\ Own(lesson[t], disk, file)
  BY DEF DiskInv, LessonInv
<1>2. ASSUME NEW t \in Sessions \ {s}
      PROVE  lesson'[t] = NoLesson <=> lesson[t] = NoLesson
  <2>1. \A m : Shape(m) => m # NoLesson
    BY DEF Shape, NoLesson, Kinds
  <2> QED
    BY <2>1 DEF Alike
<1>3. ASSUME NEW t \in Sessions \ {s}, lesson'[t] # NoLesson
      PROVE  proc'[t] = Idle /\ Own(lesson'[t], disk', file') /\ ~lesson'[t].alone
  <2>1. lesson[t] # NoLesson /\ ~lesson'[t].alone /\ proc'[t] = Idle
    BY <1>1, <1>2, <1>3
  <2>2. lesson'[t].at # "next" => Good(lesson'[t], lesson'[t].todo[1], lesson'[t].data)
    <3>1. lesson[t].at # "next" => Good(lesson[t], lesson[t].todo[1], lesson[t].data)
      BY <1>1, <2>1 DEF Own
    <3>2. CASE lesson'[t] = lesson[t]
      BY <3>1, <3>2
    <3>3. CASE Alike(lesson[t], lesson'[t])
      BY <3>1, <3>3, AlikeGood DEF Alike
    <3> QED
      BY <3>2, <3>3
  <2> QED
    BY <2>1, <2>2 DEF Own
<1>4. ASSUME NEW t \in Sessions \ {s}, ~busy(t)
      PROVE  ~busy(t)'
  BY <1>2, <1>4 DEF busy
<1>5. ASSUME NEW t \in Sessions, lesson'[t] # NoLesson
      PROVE  /\ proc'[t] = Idle /\ Own(lesson'[t], disk', file')
             /\ lesson'[t].alone => \A u \in Sessions \ {t} : ~busy(u)'
  <2>1. CASE t = s
    BY <1>4, <1>5, <2>1
  <2>2. CASE t # s
    BY <1>3, <1>5, <2>2
  <2> QED
    BY <2>1, <2>2
<1>6. \A t \in Sessions : proc'[t] # Idle => Tool(proc'[t], file')
  OBVIOUS
<1> QED
  BY <1>5, <1>6 DEF LessonInv

LEMMA CrowdedAlone ==
  ASSUME DiskInv, NEW s \in Sessions
  PROVE  \A t \in Sessions \ {s} : lesson[t] # NoLesson => ~Crowded(s)[t].alone
<1> SUFFICES ASSUME NEW t \in Sessions \ {s}, lesson[t] # NoLesson PROVE ~Crowded(s)[t].alone
  OBVIOUS
<1>1. Crowded(s)[t] = [lesson[t] EXCEPT !.alone = FALSE]
  BY DEF Crowded
<1>2. Shape(lesson[t])
  BY DEF DiskInv
<1>3. ASSUME NEW l, Shape(l) PROVE [l EXCEPT !.alone = FALSE].alone = FALSE
  BY <1>3 DEF Shape
<1> QED
  BY <1>1, <1>2, <1>3

LEMMA OutdatedAlone ==
  ASSUME DiskInv, NEW s \in Sessions, NEW ls, \A t \in Sessions \ {s} : ls[t] = lesson[t]
  PROVE  \A t \in Sessions \ {s} : lesson[t] # NoLesson
                                     => Outdated(s, ls)[t].alone = lesson[t].alone
<1> SUFFICES ASSUME NEW t \in Sessions \ {s}, lesson[t] # NoLesson
             PROVE  Outdated(s, ls)[t].alone = lesson[t].alone
  OBVIOUS
<1>1. \/ Outdated(s, ls)[t] = [lesson[t] EXCEPT !.stale = lesson[t].at # "next"]
      \/ Outdated(s, ls)[t] = lesson[t]
  BY DEF Outdated
<1>2. Shape(lesson[t])
  BY DEF DiskInv
<1>3. [lesson[t] EXCEPT !.stale = lesson[t].at # "next"].alone = lesson[t].alone
  BY <1>2 DEF Shape
<1> QED
  BY <1>1, <1>2, <1>3

\* Nobody is alone while another session is busy.
LEMMA NotAlone ==
  ASSUME LessonInv, NEW s \in Sessions, busy(s)
  PROVE  \A t \in Sessions \ {s} : lesson[t] # NoLesson => ~lesson[t].alone
BY DEF LessonInv

-----------------------------------------------------------------------------
(* The memory tools.                                                        *)

\* f with other items.
WithItems(f, y) == [f EXCEPT !.items = y]

LEMMA OtherItems ==
  ASSUME NEW f, Has(f), NEW y, NEW c
  PROVE  /\ Has(WithItems(f, y)) /\ WithItems(f, y).entries = f.entries
         /\ Has(Stored(f, y, c)) /\ Stored(f, y, c).entries = f.entries
<1>1. f \in [at : {"ok"}, items : {f.items}, counter : {f.counter}, entries : {f.entries}]
  BY DEF Has
<1>2. ASSUME NEW g, NEW b, g \in [at : {"ok"}, items : {y}, counter : {b}, entries : {f.entries}]
      PROVE  Has(g) /\ g.entries = f.entries
  <2>1. g.items = y /\ g.counter = b /\ g.entries = f.entries
    BY <1>2
  <2> QED
    BY <1>2, <2>1 DEF Has
<1>3. WithItems(f, y) \in [at : {"ok"}, items : {y}, counter : {f.counter}, entries : {f.entries}]
  BY <1>1 DEF WithItems
<1>4. Stored(f, y, c) \in [at : {"ok"}, items : {y}, counter : {c}, entries : {f.entries}]
  BY <1>1 DEF Stored
<1> QED
  BY <1>2, <1>3, <1>4

\* A copy of the memory with the lessons of the file.
Copy(m) == Has(m) /\ (file.at = "ok" => m.entries = file.entries)

LEMMA LoadCopy ==
  ASSUME LessonInv, NEW y, NEW c
  PROVE  Copy(WithItems(load, y)) /\ Copy(Stored(load, y, c))
<1>1. Has(load)
  <2>1. CASE file.at = "ok"
    BY <2>1 DEF load, readable, LessonInv
  <2>2. CASE file.at # "ok"
    <3>1. load = [at |-> "ok", items |-> <<>>, counter |-> 0, entries |-> {}]
      BY <2>2 DEF load, readable
    <3> QED
      BY <3>1 DEF Has
  <2> QED
    BY <2>1, <2>2
<1>2. file.at = "ok" => load.entries = file.entries
  BY DEF load, readable
<1> QED
  BY <1>1, <1>2, OtherItems DEF Copy

\* No memory tool takes a lesson out of the copy it is going to save.
LEMMA CallsCopy ==
  ASSUME LessonInv, NEW s \in Sessions, MemoryCall(s)
  PROVE  \E why, m, new : Saves(s, why, m, new) /\ Copy(m)
<1>1. CASE memory_store(s)
  <2> DEFINE Same(n) == {k \in DOMAIN load.items : existing(load.items[k], n)}
             Saving(n) == Saves(s, "store",
                                IF Same(n) # {}
                                THEN [load EXCEPT !.items[Min(Same(n))] = refreshed(@, n)]
                                ELSE [load EXCEPT !.items = Append(@, n), !.counter = nextId(load)],
                                {n})
             Item0(level, category, key, agent) ==
               [id |-> nextId(load), level |-> level, category |-> category, key |-> key,
                agent |-> agent, value |-> calls + 1, updated |-> clock, hits |-> 0]
  <2>0. \E name \in Names, level \in Levels, key \in Keys, agent \in Agents :
          \E category \in normalizeCategory(name) : Saving(Item0(level, category, key, agent))
    BY <1>1 DEF memory_store
  <2> HIDE DEF Saving, Item0
  <2>1. PICK n : Saving(n)
    BY <2>0
  <2> USE DEF Saving
  <2> DEFINE y == [load.items EXCEPT ![Min(Same(n))] = refreshed(load.items[Min(Same(n))], n)]
  <2>2. CASE Same(n) # {}
    <3>1. Saves(s, "store", WithItems(load, y), {n})
      BY <2>1, <2>2 DEF WithItems
    <3> HIDE DEF y
    <3> QED
      BY <3>1, LoadCopy
  <2>3. CASE Same(n) = {}
    <3>1. Saves(s, "store", Stored(load, Append(load.items, n), nextId(load)), {n})
      BY <2>1, <2>3 DEF Stored
    <3> QED
      BY <3>1, LoadCopy
  <2> QED
    BY <2>2, <2>3
<1>2. CASE memory_retrieve(s)
  <2>1. PICK y : Saves(s, "read", WithItems(load, y), {})
    BY <1>2 DEF memory_retrieve, WithItems
  <2> QED
    BY <2>1, LoadCopy
<1>3. CASE memory_search(s)
  <2>1. PICK y : Saves(s, "read", WithItems(load, y), {})
    BY <1>3 DEF memory_search, WithItems
  <2> QED
    BY <2>1, LoadCopy
<1>4. CASE memory_check_duplicate(s)
  <2>1. PICK y : Saves(s, "read", WithItems(load, y), {})
    BY <1>4 DEF memory_check_duplicate, WithItems
  <2> QED
    BY <2>1, LoadCopy
<1>5. CASE memory_prune(s)
  <2>1. PICK y, why : Saves(s, why, WithItems(load, y), {})
    BY <1>5 DEF memory_prune, WithItems
  <2> QED
    BY <2>1, LoadCopy
<1> QED
  BY <1>1, <1>2, <1>3, <1>4, <1>5 DEF MemoryCall

LEMMA ToolCallKeeps ==
  ASSUME DiskInv, LessonInv, NEW s \in Sessions, ToolCall(s)
  PROVE  LessonInv'
<1>1. lesson[s] = NoLesson /\ lesson' = Crowded(s) /\ disk' = disk
  BY DEF ToolCall
<1>2. PICK why, m, new : Saves(s, why, m, new) /\ Copy(m)
  BY CallsCopy DEF ToolCall
<1> DEFINE p == [at |-> "loaded", why |-> why, m |-> m, new |-> new, stale |-> file = Torn]
<1>3. proc' = [proc EXCEPT ![s] = p] /\ file' = file
  BY <1>2 DEF Saves
<1>4. Tool(p, file)
  <2>1. p \in [at : {"loaded", "open"}, why : {p.why}, m : {p.m}, new : {p.new}, stale : BOOLEAN]
    OBVIOUS
  <2> QED
    BY <1>2, <2>1 DEF Tool, Copy
<1> HIDE DEF p
<1>5. /\ proc' = [t \in Sessions |-> proc'[t]] /\ proc'[s] = p
      /\ \A t \in Sessions \ {s} : proc'[t] = proc[t]
  BY <1>3 DEF LessonInv
<1>6. /\ lesson'[s] = NoLesson
      /\ \A t \in Sessions \ {s} : \/ lesson'[t] = lesson[t]
                                   \/ lesson[t] # NoLesson /\ Alike(lesson[t], lesson'[t])
  BY <1>1, CrowdedMarks
<1>7. \A t \in Sessions \ {s} : lesson[t] # NoLesson => ~lesson'[t].alone
  BY <1>1, CrowdedAlone
<1>8. \A t \in Sessions \ {s} : /\ proc'[t] = Idle <=> proc[t] = Idle
                                /\ proc'[t] # Idle => Tool(proc'[t], file')
  BY <1>3, <1>5 DEF LessonInv
<1>9. /\ disk'[GraphFile].at = "ok" => IsSeq(disk'[GraphFile].nodes)
      /\ file'.at = "ok" => Has(file')
  BY <1>1, <1>3 DEF LessonInv
<1> QED
  BY <1>3, <1>4, <1>5, <1>6, <1>7, <1>8, <1>9, OthersKept

\* From an open or a write on, the other calls have an outdated copy.
LEMMA OvertakenTools ==
  ASSUME LessonInv, NEW s \in Sessions, NEW ps, \A t \in Sessions \ {s} : ps[t] = proc[t]
  PROVE  /\ Overtaken(s, ps) = [t \in Sessions |-> Overtaken(s, ps)[t]]
         /\ Overtaken(s, ps)[s] = ps[s]
         /\ \A t \in Sessions \ {s} : Overtaken(s, ps)[t] = Idle <=> proc[t] = Idle
         /\ \A f : \A t \in Sessions \ {s} :
              Overtaken(s, ps)[t] # Idle => Tool(Overtaken(s, ps)[t], f)
<1> DEFINE o == Overtaken(s, ps)
<1>1. o = [t \in Sessions |-> o[t]] /\ o[s] = ps[s]
  BY DEF Overtaken
<1>2. \A t \in Sessions \ {s} : o[t] = IF proc[t] # Idle THEN [proc[t] EXCEPT !.stale = TRUE] ELSE Idle
  BY DEF Overtaken
<1> HIDE DEF o
<1>3. \A t \in Sessions : proc[t] # Idle => Tool(proc[t], file)
  BY DEF LessonInv
<1>4. ASSUME NEW p, Tool(p, file), NEW q, q = [p EXCEPT !.stale = TRUE]
      PROVE  q # Idle /\ \A f : Tool(q, f)
  <2>1. p \in [at : {"loaded", "open"}, why : {p.why}, m : {p.m}, new : {p.new}, stale : BOOLEAN]
        /\ Has(p.m)
    BY <1>4 DEF Tool
  <2>2. q \in [at : {"loaded", "open"}, why : {p.why}, m : {p.m}, new : {p.new}, stale : {TRUE}]
    BY <1>4, <2>1
  <2>3. q.why = p.why /\ q.m = p.m /\ q.new = p.new /\ q.stale = TRUE /\ q.at # "idle"
    BY <2>2
  <2>4. q \in [at : {"loaded", "open"}, why : {q.why}, m : {q.m}, new : {q.new}, stale : BOOLEAN]
    BY <2>2, <2>3
  <2> QED
    BY <2>1, <2>3, <2>4 DEF Tool, Idle
<1>5. ASSUME NEW t \in Sessions \ {s}
      PROVE  /\ o[t] = Idle <=> proc[t] = Idle
             /\ \A f : o[t] # Idle => Tool(o[t], f)
  <2>1. CASE proc[t] = Idle
    BY <1>2, <2>1
  <2>2. CASE proc[t] # Idle
    BY <1>2, <1>3, <1>4, <2>2
  <2> QED
    BY <2>1, <2>2
<1> QED
  BY <1>1, <1>5 DEF o

LEMMA ToolSaveKeeps ==
  ASSUME DiskInv, LessonInv, NEW s \in Sessions, ToolSave(s) \/ ToolCrash(s)
  PROVE  LessonInv'
<1>1. proc[s] # Idle /\ Tool(proc[s], file) /\ lesson[s] = NoLesson /\ busy(s)
  <2>1. proc[s] # Idle
    BY DEF ToolSave, ToolCrash, Open, Write, Crash, Idle
  <2> QED
    BY <2>1 DEF LessonInv, busy
<1>2. /\ disk' = disk /\ (lesson' = Outdated(s, lesson) \/ lesson' = lesson)
      /\ Open(s) \/ Write(s) \/ Crash(s)
  BY DEF ToolSave, ToolCrash, learnVars
<1>3. /\ lesson'[s] = NoLesson
      /\ \A t \in Sessions \ {s} : \/ lesson'[t] = lesson[t]
                                   \/ lesson[t] # NoLesson /\ Alike(lesson[t], lesson'[t])
  BY <1>1, <1>2, OutdatedMarks
<1>4. \A t \in Sessions \ {s} : lesson[t] # NoLesson => ~lesson'[t].alone
  BY <1>1, <1>2, OutdatedAlone, NotAlone
<1>5. disk'[GraphFile].at = "ok" => IsSeq(disk'[GraphFile].nodes)
  BY <1>2 DEF LessonInv
<1>6. proc = [t \in Sessions |-> proc[t]]
  BY DEF LessonInv
<1>7. CASE Open(s)
  <2> DEFINE p == [proc[s] EXCEPT !.at = "open"]
             ps == [proc EXCEPT ![s] = p]
  <2>1. file' = Torn /\ proc' = Overtaken(s, ps)
    BY <1>7 DEF Open
  <2>2. ps[s] = p /\ \A t \in Sessions \ {s} : ps[t] = proc[t]
    BY <1>6
  <2>3. Tool(p, Torn)
    <3>1. proc[s] \in [at : {"loaded", "open"}, why : {proc[s].why}, m : {proc[s].m},
                       new : {proc[s].new}, stale : BOOLEAN]
          /\ Has(proc[s].m)
      BY <1>1 DEF Tool
    <3>2. p \in [at : {"open"}, why : {proc[s].why}, m : {proc[s].m},
                 new : {proc[s].new}, stale : BOOLEAN]
      BY <3>1
    <3> HIDE DEF p
    <3>3. p.why = proc[s].why /\ p.m = proc[s].m /\ p.new = proc[s].new /\ p.at = "open"
      BY <3>2
    <3>4. p \in [at : {"loaded", "open"}, why : {p.why}, m : {p.m}, new : {p.new}, stale : BOOLEAN]
      BY <3>2, <3>3
    <3> QED
      BY <3>1, <3>3, <3>4 DEF Tool
  <2> HIDE DEF p, ps
  <2>4. /\ proc' = [t \in Sessions |-> proc'[t]] /\ proc'[s] = p
        /\ \A t \in Sessions \ {s} : /\ proc'[t] = Idle <=> proc[t] = Idle
                                     /\ proc'[t] # Idle => Tool(proc'[t], file')
    BY <2>1, <2>2, OvertakenTools
  <2>5. Torn.at # "ok"
    BY DEF Torn
  <2> QED
    BY <1>3, <1>4, <1>5, <2>1, <2>3, <2>4, <2>5, OthersKept
<1>8. CASE Write(s)
  <2> DEFINE ps == [proc EXCEPT ![s] = Idle]
  <2>1. file' = proc[s].m /\ proc' = Overtaken(s, ps)
    BY <1>8 DEF Write
  <2>2. ps[s] = Idle /\ \A t \in Sessions \ {s} : ps[t] = proc[t]
    BY <1>6
  <2> HIDE DEF ps
  <2>3. /\ proc' = [t \in Sessions |-> proc'[t]] /\ proc'[s] = Idle
        /\ \A t \in Sessions \ {s} : /\ proc'[t] = Idle <=> proc[t] = Idle
                                     /\ proc'[t] # Idle => Tool(proc'[t], file')
    BY <2>1, <2>2, OvertakenTools
  <2>4. Has(file')
    BY <1>1, <2>1 DEF Tool
  <2> QED
    BY <1>3, <1>4, <1>5, <2>3, <2>4, OthersKept
<1>9. CASE Crash(s)
  <2>1. file' = file /\ proc' = [proc EXCEPT ![s] = Idle]
    BY <1>9 DEF Crash
  <2>2. /\ proc' = [t \in Sessions |-> proc'[t]] /\ proc'[s] = Idle
        /\ \A t \in Sessions \ {s} : proc'[t] = proc[t]
    BY <1>6, <2>1
  <2>3. \A t \in Sessions \ {s} : /\ proc'[t] = Idle <=> proc[t] = Idle
                                  /\ proc'[t] # Idle => Tool(proc'[t], file')
    BY <2>1, <2>2 DEF LessonInv
  <2>4. file'.at = "ok" => Has(file')
    BY <2>1 DEF LessonInv
  <2> QED
    BY <1>3, <1>4, <1>5, <2>2, <2>3, <2>4, OthersKept
<1> QED
  BY <1>2, <1>7, <1>8, <1>9

-----------------------------------------------------------------------------
(* The steps of a lesson.                                                   *)

\* The node a finding is linked to: itself, or one whose id contains its id.
LEMMA FoundNode ==
  ASSUME disk[GraphFile].at = "ok" => IsSeq(disk[GraphFile].nodes), NEW f \in Findings, NEW link,
         link = IF findGraphFinding(f) = {} THEN Node("finding", f)
                ELSE CHOOSE n \in findGraphFinding(f) : TRUE
  PROVE  link.id = f \/ (f \notin NodeIds(graph.nodes) /\ <<f, link.id>> \in Within)
<1> DEFINE exact == {k \in DOMAIN graph.nodes : graph.nodes[k].id = f}
           found == IF exact # {} THEN exact
                    ELSE {k \in DOMAIN graph.nodes : <<f, graph.nodes[k].id>> \in Within}
<1>1. findGraphFinding(f) = IF found = {} THEN {} ELSE {graph.nodes[Min(found)]}
  BY DEF findGraphFinding
<1>2. found \in SUBSET Nat
  <2>1. CASE disk[GraphFile].at = "ok"
    <3>1. graph.nodes = disk[GraphFile].nodes
      BY <2>1 DEF graph, loadJson
    <3>2. DOMAIN graph.nodes = 1..Len(graph.nodes) /\ Len(graph.nodes) \in Nat
      BY <2>1, <3>1 DEF IsSeq
    <3> QED
      BY <3>2
  <2>2. CASE disk[GraphFile].at # "ok"
    <3>1. graph.nodes = <<>>
      BY <2>2 DEF graph, loadJson, noGraph
    <3> QED
      BY <3>1
  <2> QED
    BY <2>1, <2>2
<1>3. exact = {} <=> f \notin NodeIds(graph.nodes)
  BY DEF NodeIds, Range
<1>4. CASE found = {}
  <2>1. link.id = NodeId["finding", f] /\ exact = {}
    BY <1>1, <1>4 DEF Node, NodeOf
  <2> QED
    BY <1>3, <2>1, LearningAssumption
<1>5. CASE found # {}
  <2>1. Min(found) \in found
    <3> HIDE DEF found
    <3>1. PICK i \in found : \A j \in found : ~(j < i)
      BY <1>2, <1>5, LeastOf
    <3>2. \A j \in found : i <= j
      BY <1>2, <3>1
    <3> QED
      BY <3>2 DEF Min
  <2>2. link = graph.nodes[Min(found)]
    BY <1>1, <1>5
  <2> QED
    BY <1>3, <2>1, <2>2
<1> QED
  BY <1>4, <1>5

LEMMA StartKeepsLessons ==
  ASSUME DiskInv, LessonInv, NEW s \in Sessions, NEW kind \in Kinds, NEW id \in Ids, NEW link,
         NEW b \in BOOLEAN, Start(s, kind, id, link, b),
         \A l : l.kind = kind /\ l.id = id /\ l.link = link => Linked(l, graph.nodes)
  PROVE  LessonInv'
<1> DEFINE alone == \A t \in Sessions \ {s} : ~busy(t)
           l == [kind |-> kind, id |-> id, link |-> link, suitable |-> b, todo |-> parts(b),
                 at |-> "next", data |-> <<>>, stale |-> FALSE, alone |-> alone]
<1>1. /\ lesson' = [Crowded(s) EXCEPT ![s] = l] /\ disk' = disk /\ file' = file /\ proc' = proc
      /\ proc[s] = Idle
  BY DEF Start, memoryVars, busy
<1>2. /\ l.todo = parts(b) /\ l.suitable = b /\ l.at = "next"
      /\ l.kind = kind /\ l.id = id /\ l.link = link
      /\ (l.alone <=> \A t \in Sessions \ {s} : ~busy(t))
  OBVIOUS
<1> HIDE DEF l
<1>3. Own(l, disk, file)
  <2>1. ASSUME NEW p \in Lasting(l) PROVE p \in Range(parts(b))
    <3>1. p \in Saved /\ (p = "case" => b)
      BY <1>2 DEF Lasting
    <3>2. CASE b
      <4>1. parts(b) = <<"own", "index", "memory", "graph", "case", "status">>
        BY <3>2 DEF parts
      <4> QED
        BY <3>1, <4>1 DEF Saved, Range
    <3>3. CASE ~b
      <4>1. parts(b) = <<"own", "index", "memory", "graph", "status">>
        BY <3>3 DEF parts
      <4> QED
        BY <3>1, <3>3, <4>1 DEF Saved, Range
    <3> QED
      BY <3>2, <3>3
  <2>2. Done(l, disk, file)
    BY <1>2, <2>1 DEF Done
  <2>3. Ties(l, disk)
    BY <1>2 DEF Ties, graph
  <2> QED
    BY <1>2, <2>2, <2>3 DEF Own
<1>4. lesson'[s] = l /\ \A t \in Sessions \ {s} : lesson'[t] = Crowded(s)[t]
  BY <1>1, CrowdedMarks
<1>5. \A t \in Sessions \ {s} : \/ lesson'[t] = lesson[t]
                                \/ lesson[t] # NoLesson /\ Alike(lesson[t], lesson'[t])
  BY <1>4, CrowdedMarks
<1>6. \A t \in Sessions \ {s} : lesson[t] # NoLesson => ~lesson'[t].alone
  BY <1>4, CrowdedAlone
<1>7. /\ proc' = [t \in Sessions |-> proc'[t]]
      /\ \A t \in Sessions \ {s} : /\ proc'[t] = Idle <=> proc[t] = Idle
                                   /\ proc'[t] # Idle => Tool(proc'[t], file')
      /\ disk'[GraphFile].at = "ok" => IsSeq(disk'[GraphFile].nodes)
      /\ file'.at = "ok" => Has(file')
  BY <1>1 DEF LessonInv
<1> QED
  BY <1>1, <1>2, <1>3, <1>4, <1>5, <1>6, <1>7, OthersKept

LEMMA LearnKeepsLessons ==
  ASSUME DiskInv, LessonInv, NEW s \in Sessions, learn_from_finding(s) \/ learn_from_rejection(s)
  PROVE  LessonInv'
<1>1. CASE learn_from_finding(s)
  <2>1. PICK f \in Findings, evidence \in BOOLEAN, exploitable \in BOOLEAN :
          Start(s, "finding", f,
                IF findGraphFinding(f) = {} THEN Node("finding", f)
                ELSE CHOOSE n \in findGraphFinding(f) : TRUE,
                benchmarkSuitable(evidence, exploitable))
    BY <1>1 DEF learn_from_finding
  <2> DEFINE link == IF findGraphFinding(f) = {} THEN Node("finding", f)
                     ELSE CHOOSE n \in findGraphFinding(f) : TRUE
  <2>2. Start(s, "finding", f, link, benchmarkSuitable(evidence, exploitable))
    BY <2>1
  <2>3. benchmarkSuitable(evidence, exploitable) \in BOOLEAN
    BY DEF benchmarkSuitable
  <2>4. link.id = f \/ (f \notin NodeIds(graph.nodes) /\ <<f, link.id>> \in Within)
    BY FoundNode DEF LessonInv
  <2> HIDE DEF link
  <2>5. \A l : l.kind = "finding" /\ l.id = f /\ l.link = link => Linked(l, graph.nodes)
    BY <2>4 DEF Linked, NodeIds
  <2> QED
    BY <2>2, <2>3, <2>5, StartKeepsLessons DEF Kinds, Ids
<1>2. CASE learn_from_rejection(s)
  <2>1. PICK h \in Hypotheses : Start(s, "rejection", h, Node("hypothesis", h), FALSE)
    BY <1>2 DEF learn_from_rejection
  <2> DEFINE link == Node("hypothesis", h)
  <2>2. link.id = NodeId["hypothesis", h]
    BY DEF Node, NodeOf
  <2> HIDE DEF link
  <2>3. \A l : l.kind = "rejection" /\ l.id = h /\ l.link = link => Linked(l, graph.nodes)
    BY <2>2 DEF Linked
  <2>4. Start(s, "rejection", h, link, FALSE)
    BY <2>1 DEF link
  <2> QED
    BY <2>3, <2>4, StartKeepsLessons DEF Kinds, Ids
<1> QED
  BY <1>1, <1>2

\* A step of a running lesson that saves nothing.
LEMMA QuietLesson ==
  ASSUME DiskInv, LessonInv, NEW s \in Sessions, lesson[s] # NoLesson, NEW l,
         lesson' = [lesson EXCEPT ![s] = l], disk' = disk, file' = file, proc' = proc,
         \/ l = NoLesson
         \/ /\ l.at # "next" => Good(l, l.todo[1], l.data)
            /\ l.alone => lesson[s].alone /\ Done(l, disk, file) /\ Ties(l, disk)
  PROVE  LessonInv'
<1>1. lesson'[s] = l /\ \A t \in Sessions \ {s} : lesson'[t] = lesson[t]
  BY DEF DiskInv
<1>2. busy(s) /\ proc[s] = Idle /\ (lesson[s].alone => \A t \in Sessions \ {s} : ~busy(t))
  BY DEF busy, LessonInv
<1>3. \A t \in Sessions \ {s} : lesson[t] # NoLesson => ~lesson'[t].alone
  BY <1>1, <1>2, NotAlone
<1>4. l # NoLesson => Own(l, disk, file) /\ (l.alone => lesson[s].alone)
  BY DEF Own
<1>5. /\ proc' = [t \in Sessions |-> proc'[t]]
      /\ \A t \in Sessions \ {s} : /\ proc'[t] = Idle <=> proc[t] = Idle
                                   /\ proc'[t] # Idle => Tool(proc'[t], file')
      /\ disk'[GraphFile].at = "ok" => IsSeq(disk'[GraphFile].nodes)
      /\ file'.at = "ok" => Has(file')
  BY DEF LessonInv
<1> QED
  BY <1>1, <1>2, <1>3, <1>4, <1>5, OthersKept

LEMMA EndKeepsLessons ==
  ASSUME DiskInv, LessonInv, NEW s \in Sessions, Answer(s) \/ Throw(s) \/ Die(s)
  PROVE  LessonInv'
<1>1. /\ lesson[s] # NoLesson /\ lesson' = [lesson EXCEPT ![s] = NoLesson]
      /\ disk' = disk /\ file' = file /\ proc' = proc
  BY DEF Answer, Throw, Die, at, End, memoryVars
<1> QED
  BY <1>1, QuietLesson

LEMMA ReadKeepsLessons ==
  ASSUME DiskInv, LessonInv, NEW s \in Sessions, Read(s)
  PROVE  LessonInv'
<1> DEFINE c == content(lesson[s], part(s))
           st == (part(s) = "memory" /\ file = Torn)
           l == ReadOf(lesson[s], c, st)
<1>1. /\ lesson[s] # NoLesson /\ lesson[s].at = "next" /\ part(s) # "status"
      /\ ~(part(s) = "memory" /\ noEntries)
      /\ disk' = disk /\ file' = file /\ proc' = proc
  BY DEF Read, at, memoryVars
<1>2. lesson' = [lesson EXCEPT ![s] = l]
  BY DEF Read, ReadOf
<1>3. /\ Shape(lesson[s]) /\ Progress(lesson[s], disk) /\ part(s) = lesson[s].todo[1]
      /\ lesson[s].kind \in Kinds /\ lesson[s].id \in Ids /\ part(s) \in Saved
  BY <1>1, OwnLesson
<1>4. Good(lesson[s], part(s), c)
  BY <1>1, <1>3, ContentIsGood DEF Progress
<1> HIDE DEF c, st
<1>5. l = Moved(lesson[s], "read", lesson[s].todo, c, st)
  BY <1>3, MovedSteps
<1> HIDE DEF l
<1>6. /\ l.kind = lesson[s].kind /\ l.id = lesson[s].id /\ l.link = lesson[s].link
      /\ l.todo = lesson[s].todo /\ l.data = c /\ l.alone = lesson[s].alone
      /\ l.suitable = lesson[s].suitable
  BY <1>5 DEF Moved
<1>7. Good(l, l.todo[1], l.data)
  BY <1>3, <1>4, <1>6, AlikeGood
<1>8. l.alone => lesson[s].alone /\ Done(l, disk, file)
  BY <1>1, <1>3, <1>6, AlikeDone DEF LessonInv, Own
<1>9. ASSUME l.alone PROVE Ties(l, disk)
  <2>1. Linked(lesson[s], graph.nodes)
    BY <1>1, <1>6, <1>9 DEF LessonInv, Own, Ties, graph
  <2>2. Linked(l, graph.nodes)
    BY <1>6, <2>1 DEF Linked
  <2>3. l.todo[1] = "graph" => Linked(l, l.data.nodes)
    <3> SUFFICES ASSUME l.todo[1] = "graph" PROVE Linked(l, l.data.nodes)
      OBVIOUS
    <3>1. c = updateGraphKnowledge(lesson[s])
      BY <1>3, <1>6 DEF content, c
    <3>2. NodeIds(c.nodes) = NodeIds(graph.nodes) \cup {lesson[s].link.id, knowledge(lesson[s]).id}
      BY <3>1, GraphContent DEF LessonInv
    <3>3. Linked(lesson[s], c.nodes)
      BY <1>3, <2>1, <3>2, LinkedStays
    <3> QED
      BY <1>6, <3>3 DEF Linked
  <2> QED
    BY <2>2, <2>3 DEF Ties, graph
<1> QED
  BY <1>1, <1>2, <1>7, <1>8, <1>9, QuietLesson

\* The parts of a lesson go to different files.
LEMMA Targets ==
  ASSUME NEW l, l.kind \in Kinds, l.id \in Ids, NEW p \in Saved, p # "memory",
         NEW q \in Saved, q # "memory"
  PROVE  target(l, p) \in Files /\ (p # q => target(l, p) # target(l, q))
         /\ (target(l, p) = GraphFile <=> p = "graph")
BY FileNames DEF target, Saved, Kinds, GraphFile

\* A part that was opened or saved, and the parts before it.
LEMMA PutPlaces ==
  ASSUME DiskInv, NEW s \in Sessions, lesson[s] # NoLesson, NEW c, Put(s, c), part(s) \in Saved
  PROVE  /\ Where(lesson[s], part(s), disk', file') = c
         /\ \A p \in Saved : p # part(s) => Where(lesson[s], p, disk', file')
                                              = Where(lesson[s], p, disk, file)
         /\ part(s) = "graph" => disk'[GraphFile] = c
         /\ part(s) # "graph" => disk'[GraphFile] = disk[GraphFile]
         /\ part(s) = "memory" => file' = c
         /\ part(s) # "memory" => file' = file
<1>1. lesson[s].kind \in Kinds /\ lesson[s].id \in Ids /\ disk = [f \in Files |-> disk[f]]
  BY OwnLesson DEF DiskInv
<1>2. CASE part(s) = "memory"
  BY <1>2 DEF Put, Where
<1>3. CASE part(s) # "memory"
  <2> DEFINE l == lesson[s]
  <2>1. disk' = [disk EXCEPT ![target(l, part(s))] = c] /\ file' = file
    BY <1>3 DEF Put
  <2>2. /\ target(l, part(s)) \in Files /\ GraphFile \in Files
        /\ target(l, part(s)) = GraphFile <=> part(s) = "graph"
    BY <1>1, <1>3, Targets DEF Files, GraphFile
  <2>3. disk'[target(l, part(s))] = c /\ \A f \in Files : f # target(l, part(s)) => disk'[f] = disk[f]
    BY <1>1, <2>1, <2>2
  <2>4. ASSUME NEW p \in Saved, p # part(s), p # "memory"
        PROVE  disk'[target(l, p)] = disk[target(l, p)]
    <3>1. target(l, p) \in Files /\ target(l, p) # target(l, part(s))
      BY <1>1, <1>3, <2>4, Targets
    <3> QED
      BY <2>3, <3>1
  <2> HIDE DEF l
  <2>5. Where(l, part(s), disk', file') = c
    BY <1>3, <2>3 DEF Where
  <2>6. \A p \in Saved : p # part(s) => Where(l, p, disk', file') = Where(l, p, disk, file)
    BY <2>1, <2>4 DEF Where
  <2>7. /\ part(s) = "graph" => disk'[GraphFile] = c
        /\ part(s) # "graph" => disk'[GraphFile] = disk[GraphFile]
    BY <2>2, <2>3
  <2> QED
    BY <1>3, <2>1, <2>5, <2>6, <2>7 DEF l
<1> QED
  BY <1>2, <1>3

LEMMA PutKeepsLessons ==
  ASSUME DiskInv, LessonInv, NEW s \in Sessions, lesson[s] # NoLesson, part(s) \in Saved,
         NEW c, Put(s, c), c.at = "ok" => Good(lesson[s], part(s), c), NEW l, l # NoLesson,
         lesson' = IF part(s) = "memory" THEN Outdated(s, [lesson EXCEPT ![s] = l])
                                         ELSE [lesson EXCEPT ![s] = l],
         l.kind = lesson[s].kind, l.id = lesson[s].id, l.link = lesson[s].link,
         l.alone = lesson[s].alone, l.suitable = lesson[s].suitable,
         l.at # "next" => Good(l, l.todo[1], l.data),
         l.alone => Ties(l, disk'),
         \A p \in Lasting(l) : p \notin Range(l.todo) =>
            IF p = part(s) THEN Good(lesson[s], p, c) ELSE p \notin Range(lesson[s].todo)
  PROVE  LessonInv'
<1> DEFINE ls == [lesson EXCEPT ![s] = l]
<1>1. ls[s] = l /\ \A t \in Sessions \ {s} : ls[t] = lesson[t]
  BY DEF DiskInv
<1>2. lesson' = IF part(s) = "memory" THEN Outdated(s, ls) ELSE ls
  OBVIOUS
<1> HIDE DEF ls
<1>3. /\ lesson'[s] = l
      /\ \A t \in Sessions \ {s} : \/ lesson'[t] = lesson[t]
                                   \/ lesson[t] # NoLesson /\ Alike(lesson[t], lesson'[t])
  <2>1. CASE part(s) = "memory"
    <3>1. lesson' = Outdated(s, ls) /\ \A t \in Sessions \ {s} : ls[t] = lesson[t]
      BY <1>1, <1>2, <2>1
    <3>2. /\ Outdated(s, ls)[s] = ls[s]
          /\ \A t \in Sessions \ {s} :
               \/ Outdated(s, ls)[t] = lesson[t]
               \/ lesson[t] # NoLesson /\ Alike(lesson[t], Outdated(s, ls)[t])
      BY <3>1, OutdatedMarks
    <3> QED
      BY <1>1, <3>1, <3>2
  <2>2. CASE part(s) # "memory"
    BY <1>1, <1>2, <2>2
  <2> QED
    BY <2>1, <2>2
<1>4. busy(s) /\ proc[s] = Idle /\ (lesson[s].alone => \A t \in Sessions \ {s} : ~busy(t))
  BY DEF busy, LessonInv
<1>5. \A t \in Sessions \ {s} : lesson[t] # NoLesson => ~lesson'[t].alone
  <2>1. \A t \in Sessions \ {s} : lesson[t] # NoLesson => lesson'[t].alone = lesson[t].alone
    BY <1>1, <1>2, OutdatedAlone
  <2> QED
    BY <1>4, <2>1, NotAlone
<1>6. /\ Where(lesson[s], part(s), disk', file') = c
      /\ \A p \in Saved : p # part(s) => Where(lesson[s], p, disk', file')
                                           = Where(lesson[s], p, disk, file)
      /\ part(s) = "graph" => disk'[GraphFile] = c
      /\ part(s) # "graph" => disk'[GraphFile] = disk[GraphFile]
      /\ part(s) = "memory" => file' = c
      /\ part(s) # "memory" => file' = file
  BY PutPlaces
<1>7. /\ disk'[GraphFile].at = "ok" => IsSeq(disk'[GraphFile].nodes)
      /\ file'.at = "ok" => Has(file')
  BY <1>6 DEF LessonInv, Good
<1>8. /\ proc' = [t \in Sessions |-> proc'[t]] /\ proc'[s] = Idle
      /\ \A t \in Sessions \ {s} : /\ proc'[t] = Idle <=> proc[t] = Idle
                                   /\ proc'[t] # Idle => Tool(proc'[t], file')
  <2>1. CASE part(s) = "memory"
    <3>1. proc' = Overtaken(s, proc)
      BY <2>1 DEF Put
    <3>2. \A t \in Sessions \ {s} : proc[t] = proc[t]
      OBVIOUS
    <3> QED
      BY <1>4, <3>1, <3>2, OvertakenTools
  <2>2. CASE part(s) # "memory"
    <3>1. proc' = proc /\ file' = file
      BY <2>2 DEF Put
    <3> QED
      BY <1>4, <3>1 DEF LessonInv
  <2> QED
    BY <2>1, <2>2
<1>9. l.alone => Done(l, disk', file')
  <2> SUFFICES ASSUME l.alone, NEW p \in Lasting(l), p \notin Range(l.todo)
               PROVE  Good(l, p, Where(l, p, disk', file'))
    BY DEF Done
  <2>0. p \in Saved /\ p \in Lasting(lesson[s])
    BY DEF Lasting
  <2>1. Done(lesson[s], disk, file)
    BY DEF LessonInv, Own
  <2>2. Where(l, p, disk', file') = Where(lesson[s], p, disk', file')
    BY <2>0 DEF Where, target, Saved
  <2>3. CASE p = part(s)
    BY <1>6, <2>2, <2>3, AlikeGood
  <2>4. CASE p # part(s)
    <3>1. Good(lesson[s], p, Where(lesson[s], p, disk, file))
      BY <2>0, <2>1, <2>4 DEF Done
    <3> QED
      BY <1>6, <2>0, <2>2, <2>4, <3>1, AlikeGood
  <2> QED
    BY <2>3, <2>4
<1>10. Own(l, disk', file')
  BY <1>9 DEF Own
<1> QED
  BY <1>3, <1>4, <1>5, <1>7, <1>8, <1>10, OthersKept

LEMMA OpenKeepsLessons ==
  ASSUME DiskInv, LessonInv, NEW s \in Sessions, OpenJson(s)
  PROVE  LessonInv'
<1> DEFINE l == OpenOf(lesson[s])
<1>1. lesson[s] # NoLesson /\ lesson[s].at = "read" /\ Put(s, Torn)
  BY DEF OpenJson, at
<1>2. lesson' = IF part(s) = "memory" THEN Outdated(s, [lesson EXCEPT ![s] = l])
                                      ELSE [lesson EXCEPT ![s] = l]
  BY DEF OpenJson, OpenOf
<1>3. /\ Shape(lesson[s]) /\ Progress(lesson[s], disk) /\ part(s) = lesson[s].todo[1]
      /\ part(s) \in Saved \cup {"status"}
  BY <1>1, OwnLesson
<1>4. part(s) \in Saved /\ Good(lesson[s], lesson[s].todo[1], lesson[s].data)
  BY <1>1, <1>3 DEF Progress, LessonInv, Own
<1>5. l = Moved(lesson[s], "open", lesson[s].todo, lesson[s].data, lesson[s].stale)
  BY <1>3, MovedSteps
<1>6. l # NoLesson
  BY <1>3, <1>5, MovedShape
<1> HIDE DEF l
<1>7. /\ l.kind = lesson[s].kind /\ l.id = lesson[s].id /\ l.link = lesson[s].link
      /\ l.todo = lesson[s].todo /\ l.data = lesson[s].data /\ l.alone = lesson[s].alone
      /\ l.suitable = lesson[s].suitable
  BY <1>5 DEF Moved
<1>8. Good(l, l.todo[1], l.data)
  BY <1>4, <1>7, AlikeGood
<1>9. part(s) \in Range(l.todo)
  <2>1. Len(lesson[s].todo) > 0 /\ lesson[s].todo \in Seq(Saved \cup {"status"})
    BY <1>3 DEF Progress, Todo
  <2>2. 1 \in DOMAIN lesson[s].todo
    BY <2>1
  <2> QED
    BY <1>3, <1>7, <2>2 DEF Range
<1>10. Torn.at # "ok"
  BY DEF Torn
<1>11. ASSUME l.alone PROVE Ties(l, disk')
  <2> DEFINE nodes == loadJson(disk'[GraphFile], noGraph).nodes
  <2>1. Ties(lesson[s], disk)
    BY <1>1, <1>7, <1>11 DEF LessonInv, Own
  <2>2. Linked(lesson[s], nodes)
    <3>1. CASE part(s) = "graph"
      <4>1. disk'[GraphFile] = Torn
        BY <1>1, <1>4, <3>1, PutPlaces
      <4>2. nodes = <<>>
        BY <1>10, <4>1 DEF loadJson, noGraph
      <4> HIDE DEF nodes
      <4>3. NodeIds(nodes) = {}
        BY <4>2 DEF NodeIds, Range
      <4>4. lesson[s].kind \in Kinds /\ lesson[s].id \in Ids
        BY <1>1, OwnLesson
      <4> QED
        BY <2>1, <4>3, <4>4, LinkedStays DEF Ties
    <3>2. CASE part(s) # "graph"
      <4>1. disk'[GraphFile] = disk[GraphFile]
        BY <1>1, <1>4, <3>2, PutPlaces
      <4> QED
        BY <2>1, <4>1 DEF Ties
    <3> QED
      BY <3>1, <3>2
  <2>3. l.todo[1] = "graph" => Linked(lesson[s], l.data.nodes)
    BY <1>1, <1>7, <2>1 DEF Ties
  <2> HIDE DEF nodes
  <2>4. Linked(l, nodes) /\ (l.todo[1] = "graph" => Linked(l, l.data.nodes))
    BY <1>7, <2>2, <2>3 DEF Linked
  <2> QED
    BY <2>4 DEF Ties, nodes
<1> QED
  BY <1>1, <1>2, <1>4, <1>6, <1>7, <1>8, <1>9, <1>10, <1>11, PutKeepsLessons

LEMMA WriteKeepsLessons ==
  ASSUME DiskInv, LessonInv, NEW s \in Sessions, WriteJson(s)
  PROVE  LessonInv'
<1> DEFINE todo == Tail(lesson[s].todo)
           l == NextOf(lesson[s], todo)
           c == lesson[s].data
<1>1. lesson[s] # NoLesson /\ lesson[s].at = "open" /\ Put(s, c)
  BY DEF WriteJson, at
<1>2. lesson' = IF part(s) = "memory" THEN Outdated(s, [lesson EXCEPT ![s] = l])
                                      ELSE [lesson EXCEPT ![s] = l]
  <2>1. lesson' = IF part(s) = "memory" THEN Outdated(s, Following(lesson, s)) ELSE Following(lesson, s)
    BY DEF WriteJson, Following
  <2>2. Following(lesson, s) = [lesson EXCEPT ![s] = l]
    BY NextWritten DEF DiskInv
  <2> QED
    BY <2>1, <2>2
<1>3. /\ Shape(lesson[s]) /\ Progress(lesson[s], disk) /\ part(s) = lesson[s].todo[1]
      /\ part(s) \in Saved \cup {"status"}
  BY <1>1, OwnLesson
<1>4. part(s) \in Saved /\ Good(lesson[s], part(s), c)
  BY <1>1, <1>3 DEF Progress, LessonInv, Own
<1>5. l = Moved(lesson[s], "next", todo, <<>>, lesson[s].stale)
  BY <1>3, MovedSteps
<1>6. l # NoLesson
  BY <1>3, <1>5, MovedShape
<1> HIDE DEF l
<1>7. /\ l.kind = lesson[s].kind /\ l.id = lesson[s].id /\ l.link = lesson[s].link
      /\ l.todo = todo /\ l.at = "next" /\ l.alone = lesson[s].alone
      /\ l.suitable = lesson[s].suitable
  BY <1>5 DEF Moved
<1>8. ASSUME NEW p \in Lasting(l), p \notin Range(todo), p # part(s)
      PROVE  p \notin Range(lesson[s].todo)
  <2> DEFINE old == lesson[s].todo
  <2>1. old \in Seq(Saved \cup {"status"}) /\ Len(old) > 0
    BY <1>3 DEF Progress, Todo
  <2>2. old[1] = part(s) /\ todo = Tail(old)
    BY <1>3
  <2> HIDE DEF old, todo
  <2>3. \A k \in DOMAIN old : k # 1 => \E j \in DOMAIN todo : todo[j] = old[k]
    <3> SUFFICES ASSUME NEW k \in DOMAIN old, k # 1
                 PROVE  k - 1 \in DOMAIN todo /\ todo[k - 1] = old[k]
      OBVIOUS
    <3>1. DOMAIN old = 1..Len(old) /\ Len(old) \in Nat /\ old # <<>>
      BY <2>1
    <3>2. k - 1 \in 1..(Len(old) - 1) /\ (k - 1) + 1 = k
      BY <3>1
    <3>3. Len(todo) = Len(old) - 1 /\ DOMAIN todo = 1..Len(todo)
          /\ \A i \in 1..Len(todo) : todo[i] = old[i + 1]
      BY <2>1, <2>2, <3>1, HeadTailProperties
    <3> QED
      BY <3>2, <3>3
  <2> QED
    BY <1>8, <2>2, <2>3 DEF Range, old
<1>9. ASSUME l.alone PROVE Ties(l, disk')
  <2> DEFINE nodes == loadJson(disk'[GraphFile], noGraph).nodes
  <2>1. Ties(lesson[s], disk)
    BY <1>1, <1>7, <1>9 DEF LessonInv, Own
  <2>2. Linked(lesson[s], nodes)
    <3>1. CASE part(s) = "graph"
      <4>1. disk'[GraphFile] = c /\ c.at = "ok"
        BY <1>1, <1>4, <3>1, PutPlaces DEF Good
      <4> QED
        BY <1>1, <1>3, <2>1, <3>1, <4>1 DEF Ties, loadJson
    <3>2. CASE part(s) # "graph"
      <4>1. disk'[GraphFile] = disk[GraphFile]
        BY <1>1, <1>4, <3>2, PutPlaces
      <4> QED
        BY <2>1, <4>1 DEF Ties
    <3> QED
      BY <3>1, <3>2
  <2> HIDE DEF nodes
  <2>3. Linked(l, nodes)
    BY <1>7, <2>2 DEF Linked
  <2> QED
    BY <1>7, <2>3 DEF Ties, nodes
<1> HIDE DEF todo
<1> QED
  BY <1>1, <1>2, <1>4, <1>6, <1>7, <1>8, <1>9, PutKeepsLessons

LEMMA InitLessons == Init => LessonInv
<1> SUFFICES ASSUME Init PROVE LessonInv
  OBVIOUS
<1>1. PICK g : /\ g = Absent \/ \E nodes \in Planted : g = [noGraph EXCEPT !.nodes = nodes]
               /\ disk = [f \in Files |-> IF f = GraphFile THEN g ELSE Absent]
  BY DEF Init
<1>2. disk[GraphFile] = g
  <2>1. GraphFile \in Files
    BY DEF Files, GraphFile
  <2> QED
    BY <1>1, <2>1
<1>3. g.at = "ok" => IsSeq(g.nodes)
  <2>1. CASE g = Absent
    BY <2>1 DEF Absent
  <2>2. CASE g # Absent
    <3>1. PICK nodes \in Planted : g = [noGraph EXCEPT !.nodes = nodes]
      BY <1>1, <2>2
    <3>2. g.nodes = nodes
      BY <3>1 DEF noGraph
    <3> QED
      BY <3>2, LearningAssumption DEF IsSeq
  <2> QED
    BY <2>1, <2>2
<1>4. /\ file.at # "ok" /\ proc = [s \in Sessions |-> proc[s]]
      /\ \A s \in Sessions : proc[s] = Idle /\ lesson[s] = NoLesson
  BY DEF Init, MemoryInit, Absent
<1> QED
  BY <1>2, <1>3, <1>4 DEF LessonInv

LEMMA LessonStepKeeps == DiskInv /\ LessonInv /\ [Next]_vars => LessonInv'
<1> SUFFICES ASSUME DiskInv, LessonInv, [Next]_vars PROVE LessonInv'
  OBVIOUS
<1>1. CASE UNCHANGED vars
  <2>1. disk' = disk /\ lesson' = lesson /\ proc' = proc /\ file' = file
    BY <1>1 DEF vars, learnVars, memoryVars
  <2> QED
    BY <2>1 DEF LessonInv, busy
<1>2. CASE Next
  <2>1. PICK s \in Sessions : \/ ToolCall(s) \/ ToolSave(s) \/ ToolCrash(s)
                              \/ learn_from_finding(s) \/ learn_from_rejection(s) \/ LessonStep(s)
    BY <1>2 DEF Next
  <2>2. CASE ToolCall(s)
    BY <2>2, ToolCallKeeps
  <2>3. CASE ToolSave(s) \/ ToolCrash(s)
    BY <2>3, ToolSaveKeeps
  <2>4. CASE learn_from_finding(s) \/ learn_from_rejection(s)
    BY <2>4, LearnKeepsLessons
  <2>5. CASE Read(s)
    BY <2>5, ReadKeepsLessons
  <2>6. CASE OpenJson(s)
    BY <2>6, OpenKeepsLessons
  <2>7. CASE WriteJson(s)
    BY <2>7, WriteKeepsLessons
  <2>8. CASE Answer(s) \/ Throw(s) \/ Die(s)
    BY <2>8, EndKeepsLessons
  <2> QED
    BY <2>1, <2>2, <2>3, <2>4, <2>5, <2>6, <2>7, <2>8 DEF LessonStep
<1> QED
  BY <1>1, <1>2

\* Together the two parts of the invariant are inductive: what is on the disk,
\* and what the running lessons and memory tools owe to it.
THEOREM LearningSafe == Spec => [](DiskInv /\ LessonInv)
BY InitDisk, InitLessons, DiskStep, LessonStepKeeps, PTL DEF Spec

\* A lesson that was answered while no other session ran a call has all five of
\* its files, whatever earlier calls left torn: its own, its index entry, one
\* entry in collective-memory.json, the newest and within MAX_ENTRIES, its
\* benchmark case when it is suitable, and its node in the graph with an edge
\* from the finding of exactly its id, if the graph has that, and otherwise from a
\* node whose id contains it (learn_from_finding, learn_from_rejection).
THEOREM LessonCompleteSafe == Spec => LessonComplete
<1>1. DiskInv /\ LessonInv => \A s \in Sessions : Answer(s) /\ lesson[s].alone => complete(lesson[s])
  <2> SUFFICES ASSUME DiskInv, LessonInv, NEW s \in Sessions, Answer(s), lesson[s].alone
               PROVE  complete(lesson[s])
    OBVIOUS
  <2> DEFINE l == lesson[s]
  <2>1. l # NoLesson /\ part(s) = "status"
    BY DEF Answer, at
  <2>2. Progress(l, disk) /\ part(s) = l.todo[1]
    BY <2>1, OwnLesson
  <2>3. Range(l.todo) = {"status"}
    <3>1. /\ l.todo \in Seq(Saved \cup {"status"}) /\ Len(l.todo) > 0
          /\ \A k \in DOMAIN l.todo : IF k = Len(l.todo) THEN l.todo[k] = "status"
                                                         ELSE l.todo[k] \in Saved
      BY <2>2 DEF Progress, Todo
    <3>2. DOMAIN l.todo = 1..Len(l.todo) /\ Len(l.todo) \in Nat /\ 1 \in DOMAIN l.todo
      BY <3>1
    <3>3. Len(l.todo) = 1
      BY <2>1, <2>2, <3>1, <3>2 DEF Saved
    <3>4. DOMAIN l.todo = {1}
      BY <3>2, <3>3
    <3> QED
      BY <2>1, <2>2, <3>4 DEF Range
  <2>4. Done(l, disk, file) /\ Ties(l, disk)
    BY <2>1 DEF LessonInv, Own
  <2> HIDE DEF l
  <2>5. \A p \in Saved : (p = "case" => l.suitable) => Good(l, p, Where(l, p, disk, file))
    BY <2>3, <2>4 DEF Done, Lasting, Saved
  <2>6. disk[<<l.kind, SafeId[l.id]>>] = [at |-> "ok", of |-> l.id]
    BY <2>5 DEF Saved, Good, Where, target
  <2>7. l.id \in Range(disk[<<"index", l.kind>>].ids)
    BY <2>5 DEF Saved, Good, Where, target
  <2>8. Has(file) /\ \E es \in file.entries : Newest(es, entryOf(l))
    BY <2>5 DEF Saved, Good, Where
  <2>9. readable
    BY <2>8 DEF Has, readable
  <2>10. l.suitable => disk[<<"case", SafeId[l.id]>>] = [at |-> "ok", of |-> l.id]
    BY <2>5 DEF Saved, Good, Where, target
  <2>11. /\ disk[GraphFile].at = "ok" /\ EdgeOf(l.link, knowledge(l)) \in disk[GraphFile].edges
         /\ {l.link.id, knowledge(l).id} \subseteq NodeIds(disk[GraphFile].nodes)
    BY <2>5 DEF Saved, Good, Where, target
  <2>12. graph = disk[GraphFile]
    BY <2>11 DEF graph, loadJson
  <2>13. Linked(l, graph.nodes)
    BY <2>4 DEF Ties, graph
  <2> QED
    BY <2>6, <2>7, <2>8, <2>9, <2>10, <2>11, <2>12, <2>13 DEF complete, Newest, NodeIds, l
<1> QED
  BY <1>1, LearningSafe, PTL DEF LessonComplete

\* A memory tool that no other session overtook saves the lessons it found in
\* the file, although it knows nothing of them (load keeps keys it does not name).
THEOREM LessonsSurvive == Spec => LessonsSurviveTools
<1>1. LessonInv => \A s \in Sessions : Open(s) /\ readable /\ ~proc[s].stale
                                         => proc[s].m.entries = file.entries
  <2> SUFFICES ASSUME LessonInv, NEW s \in Sessions, Open(s), readable, ~proc[s].stale
               PROVE  proc[s].m.entries = file.entries
    OBVIOUS
  <2>1. proc[s].at = "loaded" /\ proc[s] # Idle
    BY DEF Open, Idle
  <2> QED
    BY <2>1 DEF LessonInv, Tool, readable
<1> QED
  BY <1>1, LearningSafe, PTL DEF LessonsSurviveTools
=============================================================================
