----------------------------- MODULE DictProofs -----------------------------
(***************************************************************************)
(* The dictionary for any keys, hashes, programs, sizes and depth of calls *)
(* nested in __hash__ and __eq__.  The invariant has three parts. DictOK is*)
(* about the dictionary alone: table and entries index each other and no   *)
(* empty slot cuts off an entry from the slot its hash selects.  FrameOK   *)
(* is what a waiting call still knows when it goes on: as long as the      *)
(* generation is the one it saw, its slots are before the next empty slot, *)
(* and its key, if it was there all the time, lies ahead.  RoomOK is that  *)
(* the table still has a slot for the entry of every call that waits after *)
(* it decided whether to grow.                                             *)
(***************************************************************************)
EXTENDS Dict, ArithmeticLemmas, SequenceTheorems

StoredEntries == [key : Keys, value : Values \cup {Initial}, hash : Nat]

DictRecords ==
  [shape : {"string", "general"}, n : Nat, table : UNION {[0 .. m - 1 -> Int] : m \in Nat},
   entries : Seq(StoredEntries \cup {Dead}), valid : Nat, gen : Nat]

Slots(d) == 0 .. d.n - 1
Used(d) == {s \in Slots(d) : d.table[s] # NotPresent}
Start(d, key) == HashOf[key] % d.n
KeyAt(d, s) == d.entries[d.table[s]].key

\* No empty slot is met on the way from slot i to slot s, other than s.
Reaches(d, i, s) ==
  \A t \in Slots(d) : d.table[t] = NotPresent /\ t # s => Distance(d.n, i, s) < Distance(d.n, i, t)

DictTyped(d) ==
  /\ d \in DictRecords
  /\ d.n > 4 /\ d.table \in [Slots(d) -> Int]

Indexed(d) ==
  /\ \A s \in Slots(d) : d.table[s] \in {NotPresent, Tombstone} \cup Entries(d)
  /\ \A p \in Entries(d) : \E s \in Slots(d) : d.table[s] = p
  /\ \A s, t \in Slots(d) : d.table[s] = d.table[t] /\ d.table[s] > 0 => s = t

EntriesHashed(d) == \A p \in Entries(d) : d.entries[p].hash = HashOf[d.entries[p].key]

EntriesReached(d) ==
  \A s \in Slots(d) : d.table[s] > 0 => Reaches(d, Start(d, KeyAt(d, s)), s)

RoomKept(d) ==
  /\ Cardinality(Used(d)) <= Len(d.entries)
  /\ d.shape = "string" => Len(d.entries) <= (d.n * 3) \div 4 + 1

DictOK(d) ==
  /\ DictTyped(d) /\ Indexed(d) /\ EntriesHashed(d) /\ EntriesReached(d) /\ RoomKept(d)
  /\ d.valid = Cardinality(Entries(d))

\* The limit that growing keeps.
WithinLimit(d) == Len(d.entries) <= (d.n * 3) \div 4

\* At most k entries more than the limit, in a table no smaller than the first.
Fits(d, k) == MinTableSize <= d.n /\ Len(d.entries) <= (d.n * 3) \div 4 + k

\* A dictionary into which entries were put one at a time.
Built(d) == DictOK(d) /\ Fits(d, 1)

\* The mapping, as a set of entries.
Stored(d) == {d.entries[p] : p \in Entries(d)}
-----------------------------------------------------------------------------
(* Distances around the table.                                             *)
LEMMA DistanceIs ==
  ASSUME NEW n \in Nat \ {0}, NEW i \in 0 .. n - 1, NEW s \in 0 .. n - 1
  PROVE  Distance(n, i, s) = IF s >= i THEN s - i ELSE s + n - i
<1>. DEFINE x == s + n - i
<1>1. x \in Nat /\ x < 2 * n
  OBVIOUS
<1>2. /\ x = n * (x \div n) + (x % n) /\ x \div n \in Int
      /\ x % n \in 0 .. n - 1
  BY <1>1
<1>3. x \div n \in {0, 1}
  BY <1>1
<1>4. (x \div n = 0 => x % n = x) /\ (x \div n = 1 => x % n = x - n)
  BY <1>1, <1>2
<1>. QED BY <1>1, <1>2, <1>3, <1>4 DEF Distance

\* Distances from a slot tell slots apart.
LEMMA Distances ==
  ASSUME NEW n \in Nat \ {0}, NEW i \in 0 .. n - 1, NEW s \in 0 .. n - 1, NEW t \in 0 .. n - 1
  PROVE  /\ Distance(n, i, s) \in 0 .. n - 1
         /\ Distance(n, i, s) = Distance(n, i, t) => s = t
         /\ Distance(n, i, i) = 0
<1>1. Distance(n, i, s) = IF s >= i THEN s - i ELSE s + n - i
  BY DistanceIs
<1>2. Distance(n, i, t) = IF t >= i THEN t - i ELSE t + n - i
  BY DistanceIs
<1>3. Distance(n, i, i) = 0
  BY DistanceIs
<1>. QED BY <1>1, <1>2, <1>3

\* The range of distances.
LEMMA DistanceIn ==
  ASSUME NEW n \in Nat \ {0}, NEW i \in 0 .. n - 1, NEW s \in 0 .. n - 1
  PROVE  Distance(n, i, s) \in 0 .. n - 1 /\ Distance(n, i, s) \in Nat
  BY Distances

(* From i by way of j.                                                     *)
LEMMA Detour ==
  ASSUME NEW n \in Nat \ {0}, NEW i \in 0 .. n - 1, NEW j \in 0 .. n - 1, NEW s \in 0 .. n - 1
  PROVE  /\ Distance(n, i, s) <= Distance(n, i, j) + Distance(n, j, s)
         /\ Distance(n, i, j) <= Distance(n, i, s) =>
              Distance(n, i, s) = Distance(n, i, j) + Distance(n, j, s)
  BY DistanceIs

(* The slot after the one at which a probe stopped.                        *)
LEMMA NextSlot ==
  ASSUME NEW n \in Nat \ {0}, NEW i \in 0 .. n - 1, NEW j \in 0 .. n - 1
  PROVE  /\ (j + 1) % n \in 0 .. n - 1
         /\ \A s \in 0 .. n - 1 : Distance(n, i, j) < Distance(n, i, s) =>
              Distance(n, i, (j + 1) % n) <= Distance(n, i, s)
<1>1. (j + 1) % n = IF j = n - 1 THEN 0 ELSE j + 1
  <2>1. CASE j = n - 1
    <3>1. n % n = 0
      <4>1. n = n * (n \div n) + (n % n) /\ n % n \in 0 .. n - 1
        OBVIOUS
      <4>2. n \div n = 1
        OBVIOUS
      <4>. QED BY <4>1, <4>2
    <3>. QED BY <2>1, <3>1
  <2>2. CASE j # n - 1
    <3>1. j + 1 \in 0 .. n - 1
      BY <2>2
    <3>2. (j + 1) % n = j + 1
      BY <3>1
    <3>. QED BY <2>2, <3>2
  <2>. QED BY <2>1, <2>2
<1>. HIDE DEF Distance
<1>2. ASSUME NEW s \in 0 .. n - 1, Distance(n, i, j) < Distance(n, i, s)
      PROVE  Distance(n, i, (j + 1) % n) <= Distance(n, i, s)
  <2>1. CASE j = n - 1
    <3>1. (j + 1) % n = 0 /\ 0 \in 0 .. n - 1
      BY <1>1, <2>1
    <3>2. Distance(n, i, 0) = IF 0 >= i THEN 0 ELSE n - i
      BY DistanceIs, <3>1
    <3>3. /\ Distance(n, i, j) = IF j >= i THEN j - i ELSE j + n - i
          /\ Distance(n, i, s) = IF s >= i THEN s - i ELSE s + n - i
      BY DistanceIs
    <3>. QED BY <1>2, <2>1, <3>1, <3>2, <3>3
  <2>2. CASE j # n - 1
    <3>1. (j + 1) % n = j + 1 /\ j + 1 \in 0 .. n - 1
      BY <1>1, <2>2
    <3>2. Distance(n, i, j + 1) = IF j + 1 >= i THEN j + 1 - i ELSE j + 1 + n - i
      BY DistanceIs, <3>1
    <3>3. /\ Distance(n, i, j) = IF j >= i THEN j - i ELSE j + n - i
          /\ Distance(n, i, s) = IF s >= i THEN s - i ELSE s + n - i
      BY DistanceIs
    <3>. QED BY <1>2, <2>2, <3>1, <3>2, <3>3
  <2>. QED BY <2>1, <2>2
<1>. QED BY <1>1, <1>2

\* FirstFrom finds the nearest slot of a set.
LEMMA FirstIs ==
  ASSUME NEW n \in Nat \ {0}, NEW i \in 0 .. n - 1, NEW S \in SUBSET (0 .. n - 1), S # {}
  PROVE  /\ FirstFrom(S, n, i) \in S
         /\ \A t \in S : Distance(n, i, FirstFrom(S, n, i)) <= Distance(n, i, t)
<1>. DEFINE far == {Distance(n, i, s) : s \in S}
<1>1. far \in SUBSET Nat /\ far # {}
  <2>1. \A s \in S : Distance(n, i, s) \in Nat
    BY Distances
  <2>. QED BY <2>1
<1>2. PICK x \in far : \A y \in far : x <= y
  <2>. HIDE DEF far
  <2>. QED BY <1>1, LeastElement
<1>3. \E s \in S : \A t \in S : Distance(n, i, s) <= Distance(n, i, t)
  BY <1>2
<1>. QED BY <1>3 DEF FirstFrom
-----------------------------------------------------------------------------
(* What a step may do to a dictionary that a call waits on: if it does not *)
(* change the generation, slots are not emptied and entries stay in their  *)
(* slots, except that new ones of the classes in C appear.                 *)
Follows(d, w, C) ==
  /\ w.gen >= d.gen
  /\ w.gen = d.gen =>
       /\ w.n = d.n
       /\ \A t \in Slots(d) :
            /\ w.table[t] = NotPresent => d.table[t] = NotPresent
            /\ w.table[t] > 0 => \/ w.table[t] = d.table[t] /\ KeyAt(w, t) = KeyAt(d, t)
                                 \/ ClassOf[KeyAt(w, t)] \in C

Placed(key, value) == [key |-> key, value |-> value, hash |-> HashOf[key]]

\* What the type of a dictionary says of its fields.
LEMMA TypedIs ==
  ASSUME NEW d, DictTyped(d)
  PROVE  /\ d.n \in Nat /\ d.n \in Nat \ {0} /\ d.valid \in Nat /\ d.gen \in Nat
         /\ d.shape \in {"string", "general"}
         /\ DOMAIN d.table = Slots(d) /\ Len(d.entries) \in Nat
         /\ DOMAIN d.entries = 1 .. Len(d.entries)
         /\ d.entries \in Seq(StoredEntries \cup {Dead})
         /\ Entries(d) \subseteq 1 .. Len(d.entries) /\ IsFiniteSet(Entries(d))
         /\ \A p \in 1 .. Len(d.entries) : d.entries[p] \in StoredEntries \cup {Dead}
         /\ \A p \in Entries(d) : d.entries[p] \in StoredEntries /\ d.entries[p].key \in Keys
         /\ IsFiniteSet(Slots(d)) /\ Cardinality(Slots(d)) = d.n /\ IsFiniteSet(Used(d))
         /\ \A key \in Keys : Start(d, key) \in Slots(d)
<1>1. /\ d.n \in Nat /\ d.n > 4 /\ d.valid \in Nat /\ d.gen \in Nat /\ d.shape \in {"string", "general"}
      /\ d.entries \in Seq(StoredEntries \cup {Dead}) /\ d.table \in [Slots(d) -> Int]
  BY DEF DictTyped, DictRecords
<1>2. /\ Len(d.entries) \in Nat /\ DOMAIN d.entries = 1 .. Len(d.entries)
      /\ \A p \in 1 .. Len(d.entries) : d.entries[p] \in StoredEntries \cup {Dead}
  BY <1>1
<1>3. /\ Entries(d) \subseteq 1 .. Len(d.entries)
      /\ \A p \in Entries(d) : d.entries[p] \in StoredEntries /\ d.entries[p].key \in Keys
  BY <1>2 DEF Entries, IsLive, StoredEntries
<1>4. IsFiniteSet(Entries(d))
  <2>1. IsFiniteSet(1 .. Len(d.entries))
    <3>1. 1 \in Int /\ Len(d.entries) \in Int
      BY <1>2
    <3>. QED BY <3>1, FS_Interval
  <2>2. Entries(d) \in SUBSET (1 .. Len(d.entries))
    BY <1>3
  <2>. QED BY <2>1, <2>2, FS_Subset
<1>5. IsFiniteSet(Slots(d)) /\ Cardinality(Slots(d)) = d.n
  <2>1. 0 \in Int /\ d.n - 1 \in Int /\ ~(0 > d.n - 1) /\ (d.n - 1) - 0 + 1 = d.n
    BY <1>1
  <2>. QED BY <2>1, FS_Interval DEF Slots
<1>6. IsFiniteSet(Used(d))
  BY <1>5, FS_Subset DEF Used
<1>7. ASSUME NEW key \in Keys PROVE Start(d, key) \in Slots(d)
  <2>1. HashOf[key] \in Nat
    BY DictConstants
  <2>. QED BY <1>1, <2>1 DEF Start, Slots
<1>. QED BY <1>1, <1>2, <1>3, <1>4, <1>5, <1>6, <1>7

\* A new entry keeps the hash of its key.
LEMMA PlacedIs ==
  ASSUME NEW key \in Keys, NEW value \in Values \cup {Initial}
  PROVE  /\ Placed(key, value) \in StoredEntries /\ IsLive(Placed(key, value))
         /\ Placed(key, value).key = key /\ Placed(key, value).hash = HashOf[key]
<1>1. HashOf[key] \in Nat /\ key # NoKey
  BY DictConstants
<1>. QED BY <1>1 DEF Placed, StoredEntries, IsLive, Dead

(* Entry, slot and count of a new entry.                                   *)
LEMMA WriteNewIs ==
  ASSUME NEW d, DictTyped(d), NEW s \in Slots(d),
         NEW key \in Keys, NEW value \in Values \cup {Initial}
  PROVE  LET w == WriteNewAtSlot(d, s, key, value)
             p == Len(d.entries) + 1
         IN  /\ DictTyped(w) /\ w.n = d.n /\ w.shape = d.shape /\ w.gen = d.gen
             /\ w.valid = d.valid + 1
             /\ w.table[s] = p /\ \A t \in Slots(d) : t # s => w.table[t] = d.table[t]
             /\ Len(w.entries) = p /\ w.entries[p] = Placed(key, value)
             /\ \A q \in 1 .. Len(d.entries) : w.entries[q] = d.entries[q]
             /\ Entries(w) = Entries(d) \cup {p}
<1>. DEFINE w == WriteNewAtSlot(d, s, key, value)
            p == Len(d.entries) + 1
<1>1. /\ d \in DictRecords /\ d.n \in Nat /\ d.n > 4 /\ d.table \in [Slots(d) -> Int]
      /\ d.entries \in Seq(StoredEntries \cup {Dead}) /\ d.valid \in Nat
  BY DEF DictTyped, DictRecords
<1>2. Placed(key, value) \in StoredEntries /\ IsLive(Placed(key, value))
  BY PlacedIs
<1>3. /\ w.n = d.n /\ w.shape = d.shape /\ w.gen = d.gen /\ w.valid = d.valid + 1
      /\ w.table = [d.table EXCEPT ![s] = p]
      /\ w.entries = Append(d.entries, Placed(key, value))
      /\ w \in [shape : {"string", "general"}, n : {d.n}, table : {w.table}, entries : {w.entries},
                valid : {w.valid}, gen : Nat]
  BY <1>1 DEF WriteNewAtSlot, Placed, DictRecords
<1>. HIDE DEF w
<1>4. /\ Len(d.entries) \in Nat /\ p \in Int /\ Len(w.entries) = p /\ w.entries[p] = Placed(key, value)
      /\ \A q \in 1 .. Len(d.entries) : w.entries[q] = d.entries[q]
      /\ w.entries \in Seq(StoredEntries \cup {Dead})
  BY <1>1, <1>2, <1>3
<1>5. w.table \in [Slots(d) -> Int] /\ w.table[s] = p /\ \A t \in Slots(d) : t # s => w.table[t] = d.table[t]
  BY <1>1, <1>3, <1>4
<1>6. w \in DictRecords
  <2>1. w.table \in UNION {[0 .. m - 1 -> Int] : m \in Nat}
    BY <1>1, <1>5 DEF Slots
  <2>2. w.valid \in Nat
    BY <1>1, <1>3
  <2>. QED BY <1>1, <1>3, <1>4, <2>1, <2>2 DEF DictRecords
<1>7. DictTyped(w)
  BY <1>1, <1>3, <1>5, <1>6 DEF DictTyped, Slots
<1>8. Entries(w) = Entries(d) \cup {p}
  <2>1. DOMAIN w.entries = 1 .. p /\ DOMAIN d.entries = 1 .. Len(d.entries)
    BY <1>1, <1>4
  <2>2. p \in Entries(w)
    BY <1>2, <1>4, <2>1 DEF Entries
  <2>. QED BY <1>4, <2>1, <2>2 DEF Entries
<1>. QED BY <1>3, <1>4, <1>5, <1>7, <1>8 DEF w

\* A new entry written into a slot.
Written(d, w, key, value) ==
  /\ DictOK(w) /\ w.shape = d.shape /\ Follows(d, w, {ClassOf[key]})
  /\ Stored(w) = Stored(d) \cup {Placed(key, value)}
  /\ w.n = d.n /\ Len(w.entries) = Len(d.entries) + 1

\* write_new_at_slot, for a slot that the key's probe reaches.
LEMMA WriteNewOK ==
  ASSUME NEW d, DictOK(d), NEW s \in Slots(d), d.table[s] \in {NotPresent, Tombstone},
         NEW key \in Keys, NEW value \in Values \cup {Initial},
         Reaches(d, Start(d, key), s),
         d.shape = "string" => WithinLimit(d)
  PROVE  Written(d, WriteNewAtSlot(d, s, key, value), key, value)
<1>. DEFINE w == WriteNewAtSlot(d, s, key, value)
            p == Len(d.entries) + 1
<1>1. DictTyped(d)
  BY DEF DictOK
<1>2. /\ DictTyped(w) /\ w.n = d.n /\ w.shape = d.shape /\ w.gen = d.gen
      /\ w.valid = d.valid + 1
      /\ w.table[s] = p /\ \A t \in Slots(d) : t # s => w.table[t] = d.table[t]
      /\ Len(w.entries) = p /\ w.entries[p] = Placed(key, value)
      /\ \A q \in 1 .. Len(d.entries) : w.entries[q] = d.entries[q]
      /\ Entries(w) = Entries(d) \cup {p}
  BY <1>1, WriteNewIs
<1>. HIDE DEF w
<1>3. /\ d.n \in Nat /\ d.n \in Nat \ {0} /\ Len(d.entries) \in Nat /\ Entries(d) \subseteq 1 .. Len(d.entries)
      /\ IsFiniteSet(Entries(d)) /\ IsFiniteSet(Used(d)) /\ d.gen \in Nat
      /\ \A q \in Entries(d) : d.entries[q].key \in Keys
      /\ \A k \in Keys : Start(d, k) \in Slots(d)
  BY <1>1, TypedIs
<1>4. Slots(w) = Slots(d) /\ p \notin Entries(d) /\ p > 0 /\ \A k \in Keys : Start(w, k) = Start(d, k)
  BY <1>2, <1>3 DEF Slots, Start
<1>5. \A t \in Slots(d) : d.table[t] \in {NotPresent, Tombstone} \cup Entries(d)
  BY DEF DictOK, Indexed
<1>6. Indexed(w)
  <2>1. \A t \in Slots(d) : w.table[t] \in {NotPresent, Tombstone} \cup Entries(w)
    BY <1>2, <1>5
  <2>2. ASSUME NEW q \in Entries(w) PROVE \E t \in Slots(d) : w.table[t] = q
    <3>1. CASE q = p
      BY <3>1, <1>2
    <3>2. CASE q \in Entries(d)
      <4>1. PICK t \in Slots(d) : d.table[t] = q
        BY <3>2 DEF DictOK, Indexed
      <4>2. t # s
        BY <4>1, <3>2, <1>3 DEF NotPresent, Tombstone
      <4>. QED BY <4>1, <4>2, <1>2
    <3>. QED BY <3>1, <3>2, <1>2
  <2>3. ASSUME NEW t \in Slots(d), NEW u \in Slots(d), w.table[t] = w.table[u], w.table[t] > 0
        PROVE  t = u
    <3>1. \A v \in Slots(d) : v # s => w.table[v] # p
      BY <1>2, <1>4, <1>5, <1>3 DEF NotPresent, Tombstone
    <3>2. CASE t # s /\ u # s
      <4>1. d.table[t] = d.table[u] /\ d.table[t] > 0
        BY <3>2, <2>3, <1>2
      <4>. QED BY <4>1 DEF DictOK, Indexed
    <3>. QED BY <3>1, <3>2, <2>3, <1>2
  <2>. QED BY <2>1, <2>2, <2>3, <1>4 DEF Indexed
<1>7. EntriesHashed(w)
  <2>1. ASSUME NEW q \in Entries(w) PROVE w.entries[q].hash = HashOf[w.entries[q].key]
    <3>1. CASE q = p
      BY <3>1, <1>2, PlacedIs
    <3>2. CASE q \in Entries(d)
      BY <3>2, <1>2, <1>3 DEF DictOK, EntriesHashed
    <3>. QED BY <3>1, <3>2, <1>2
  <2>. QED BY <2>1 DEF EntriesHashed
<1>8. \A t \in Slots(d) : t # s /\ w.table[t] > 0 => w.table[t] = d.table[t] /\ KeyAt(w, t) = KeyAt(d, t)
                                                     /\ KeyAt(w, t) \in Keys
  <2>1. ASSUME NEW t \in Slots(d), t # s, w.table[t] > 0
        PROVE  d.table[t] \in Entries(d)
    BY <2>1, <1>2, <1>5 DEF NotPresent, Tombstone
  <2>. QED BY <2>1, <1>2, <1>3, ZenonT(60) DEF KeyAt
<1>9. KeyAt(w, s) = key
  BY <1>2, PlacedIs DEF KeyAt
<1>10. EntriesReached(w)
  <2>1. ASSUME NEW i, NEW t \in Slots(d), Reaches(d, i, t)
        PROVE  Reaches(w, i, t)
    BY <2>1, <1>2, <1>4, <1>3 DEF Reaches, NotPresent
  <2>2. ASSUME NEW t \in Slots(d), w.table[t] > 0
        PROVE  Reaches(w, Start(w, KeyAt(w, t)), t)
    <3>1. CASE t = s
      BY <3>1, <2>1, <1>4, <1>9
    <3>2. CASE t # s
      <4>1. d.table[t] > 0 /\ KeyAt(w, t) = KeyAt(d, t) /\ KeyAt(w, t) \in Keys
        BY <3>2, <2>2, <1>8
      <4>2. Reaches(d, Start(d, KeyAt(d, t)), t)
        BY <4>1 DEF DictOK, EntriesReached
      <4>. QED BY <4>1, <4>2, <2>1, <1>4
    <3>. QED BY <3>1, <3>2
  <2>. QED BY <2>2, <1>4 DEF EntriesReached
<1>11. RoomKept(w)
  <2>1. Used(w) \subseteq Used(d) \cup {s}
    BY <1>2, <1>4 DEF Used
  <2>2. IsFiniteSet(Used(d) \cup {s}) /\ Cardinality(Used(d) \cup {s}) <= Cardinality(Used(d)) + 1
        /\ Cardinality(Used(d)) \in Nat
    <3>1. IsFiniteSet(Used(d))
      BY <1>3
    <3>2. /\ IsFiniteSet(Used(d) \cup {s})
          /\ Cardinality(Used(d) \cup {s}) =
               IF s \in Used(d) THEN Cardinality(Used(d)) ELSE Cardinality(Used(d)) + 1
      BY <3>1, FS_AddElement
    <3>3. Cardinality(Used(d)) \in Nat
      BY <3>1, FS_CardinalityType
    <3>. QED BY <3>2, <3>3
  <2>3. Cardinality(Used(w)) <= Cardinality(Used(d) \cup {s}) /\ Cardinality(Used(w)) \in Nat
        /\ Cardinality(Used(d) \cup {s}) \in Nat
    BY <2>1, <2>2, FS_Subset, FS_CardinalityType
  <2>4. Cardinality(Used(d)) <= Len(d.entries)
    BY DEF DictOK, RoomKept
  <2>. QED BY <2>2, <2>3, <2>4, <1>2, <1>3, SMTT(60) DEF RoomKept, WithinLimit
<1>12. w.valid = Cardinality(Entries(w))
  <2>1. IsFiniteSet(Entries(d)) /\ p \notin Entries(d)
    BY <1>3, <1>4
  <2>2. Cardinality(Entries(d) \cup {p}) = Cardinality(Entries(d)) + 1
    BY <2>1, FS_AddElement
  <2>. QED BY <1>2, <2>2 DEF DictOK
<1>13. Follows(d, w, {ClassOf[key]})
  BY <1>2, <1>3, <1>4, <1>8, <1>9 DEF Follows, NotPresent
<1>14. Stored(w) = Stored(d) \cup {Placed(key, value)}
  <2>1. \A q \in Entries(d) : w.entries[q] = d.entries[q]
    BY <1>2, <1>3
  <2>. QED BY <2>1, <1>2 DEF Stored
<1>15. DictOK(w)
  BY <1>2, <1>6, <1>7, <1>10, <1>11, <1>12 DEF DictOK
<1>. QED BY <1>2, <1>13, <1>14, <1>15 DEF w, Written

-----------------------------------------------------------------------------
\* The entries of classes outside C are the same.
SameOutside(d, w, C) ==
  \A e \in StoredEntries : ClassOf[e.key] \notin C => (e \in Stored(d) <=> e \in Stored(w))

\* Overwriting a value changes no key.
LEMMA WriteExistingOK ==
  ASSUME NEW d, DictOK(d), NEW p \in Entries(d), NEW value \in Values \cup {Initial}
  PROVE  LET w == WriteExisting(d, p, value)
         IN  /\ DictOK(w) /\ w.shape = d.shape /\ Follows(d, w, {})
             /\ w.n = d.n /\ Len(w.entries) = Len(d.entries)
             /\ SameOutside(d, w, {ClassOf[d.entries[p].key]})
<1>. DEFINE w == WriteExisting(d, p, value)
            e == [d.entries[p] EXCEPT !.value = value]
<1>1. DictTyped(d)
  BY DEF DictOK
<1>2. /\ d.n \in Nat /\ d.n > 4 /\ d.gen \in Nat /\ d.table \in [Slots(d) -> Int]
      /\ d \in DictRecords /\ d.entries \in Seq(StoredEntries \cup {Dead})
      /\ Len(d.entries) \in Nat /\ Entries(d) \subseteq 1 .. Len(d.entries)
      /\ DOMAIN d.entries = 1 .. Len(d.entries)
      /\ \A q \in Entries(d) : d.entries[q] \in StoredEntries
  BY <1>1, TypedIs DEF DictTyped
<1>3. e \in StoredEntries /\ e.key = d.entries[p].key /\ e.hash = d.entries[p].hash /\ IsLive(e)
  <2>1. d.entries[p] \in StoredEntries
    BY <1>2
  <2>2. e \in StoredEntries /\ e.key = d.entries[p].key /\ e.hash = d.entries[p].hash
    BY <2>1 DEF StoredEntries
  <2>3. e.key # NoKey
    BY <2>2, DictConstants DEF StoredEntries
  <2>. QED BY <2>2, <2>3 DEF IsLive, Dead
<1>4. /\ w.n = d.n /\ w.shape = d.shape /\ w.gen = d.gen /\ w.valid = d.valid /\ w.table = d.table
      /\ w.entries = [d.entries EXCEPT ![p] = e]
      /\ w \in [shape : {"string", "general"}, n : {d.n}, table : {d.table}, entries : {w.entries},
                valid : Nat, gen : Nat]
  BY <1>2 DEF WriteExisting, DictRecords
<1>. HIDE DEF w
<1>5. /\ Len(w.entries) = Len(d.entries) /\ DOMAIN w.entries = 1 .. Len(d.entries)
      /\ w.entries \in Seq(StoredEntries \cup {Dead}) /\ w.entries[p] = e
      /\ \A q \in 1 .. Len(d.entries) : q # p => w.entries[q] = d.entries[q]
  <2>. HIDE DEF e
  <2>. QED BY <1>2, <1>3, <1>4
<1>6. DictTyped(w)
  <2>1. w \in DictRecords
    BY <1>2, <1>4, <1>5 DEF DictRecords
  <2>. QED BY <2>1, <1>2, <1>4 DEF DictTyped, Slots
<1>7. Entries(w) = Entries(d)
  BY <1>2, <1>3, <1>5 DEF Entries
<1>8. \A q \in Entries(d) : w.entries[q].key = d.entries[q].key /\ w.entries[q].hash = d.entries[q].hash
  BY <1>2, <1>3, <1>5
<1>9. Slots(w) = Slots(d) /\ Used(w) = Used(d)
  BY <1>4 DEF Slots, Used
<1>10. \A s \in Slots(d) : d.table[s] > 0 => KeyAt(w, s) = KeyAt(d, s)
  BY <1>4, <1>8 DEF DictOK, Indexed, NotPresent, Tombstone, KeyAt
<1>11. Indexed(w) /\ EntriesHashed(w) /\ RoomKept(w) /\ w.valid = Cardinality(Entries(w))
  BY <1>4, <1>5, <1>7, <1>8, <1>9 DEF DictOK, Indexed, EntriesHashed, RoomKept
<1>12. EntriesReached(w)
  BY <1>4, <1>9, <1>10 DEF DictOK, EntriesReached, Reaches, Start
<1>13. Follows(d, w, {})
  BY <1>2, <1>4, <1>10 DEF Follows
<1>14. SameOutside(d, w, {ClassOf[d.entries[p].key]})
  <2>1. ASSUME NEW x \in StoredEntries, ClassOf[x.key] # ClassOf[d.entries[p].key]
        PROVE  x \in Stored(d) <=> x \in Stored(w)
    <3>1. x # e /\ x # d.entries[p]
      BY <2>1, <1>3
    <3>. QED BY <3>1, <1>2, <1>5, <1>7, SMTT(40) DEF Stored
  <2>. QED BY <2>1 DEF SameOutside
<1>. QED BY <1>4, <1>5, <1>6, <1>11, <1>12, <1>13, <1>14 DEF DictOK, w

\* A deleted entry leaves a tombstone: no slot becomes empty.
LEMMA DeleteOK ==
  ASSUME NEW d, DictOK(d), NEW s \in Slots(d), d.table[s] > 0
  PROVE  LET w == DeleteEntryAtSlot(d, s)
         IN  /\ DictOK(w) /\ w.shape = d.shape /\ Follows(d, w, {})
             /\ w.n = d.n /\ Len(w.entries) = Len(d.entries)
             /\ SameOutside(d, w, {ClassOf[KeyAt(d, s)]})
<1>. DEFINE w == DeleteEntryAtSlot(d, s)
            p == d.table[s]
<1>1. DictTyped(d)
  BY DEF DictOK
<1>2. /\ d.n \in Nat /\ d.n > 4 /\ d.gen \in Nat /\ d.table \in [Slots(d) -> Int]
      /\ d \in DictRecords /\ d.entries \in Seq(StoredEntries \cup {Dead}) /\ d.valid \in Nat
      /\ Len(d.entries) \in Nat /\ Entries(d) \subseteq 1 .. Len(d.entries)
      /\ DOMAIN d.entries = 1 .. Len(d.entries) /\ IsFiniteSet(Entries(d))
      /\ \A q \in Entries(d) : d.entries[q] \in StoredEntries
  BY <1>1, TypedIs DEF DictTyped
<1>3. p \in Entries(d) /\ p \in 1 .. Len(d.entries)
  BY <1>2 DEF DictOK, Indexed, NotPresent, Tombstone
<1>4. /\ Cardinality(Entries(d)) \in Nat /\ Cardinality(Entries(d) \ {p}) = Cardinality(Entries(d)) - 1
      /\ Cardinality(Entries(d) \ {p}) \in Nat
  <2>1. IsFiniteSet(Entries(d))
    BY <1>2
  <2>2. IsFiniteSet(Entries(d) \ {p})
        /\ Cardinality(Entries(d) \ {p}) = IF p \in Entries(d) THEN Cardinality(Entries(d)) - 1
                                           ELSE Cardinality(Entries(d))
    BY <2>1, FS_RemoveElement
  <2>3. Cardinality(Entries(d)) \in Nat /\ Cardinality(Entries(d) \ {p}) \in Nat
    BY <2>1, <2>2, FS_CardinalityType
  <2>. QED BY <2>2, <2>3, <1>3
<1>5. d.valid = Cardinality(Entries(d))
  BY DEF DictOK
<1>6. /\ w.n = d.n /\ w.shape = d.shape /\ w.gen = d.gen /\ w.valid = d.valid - 1
      /\ w.table = [d.table EXCEPT ![s] = Tombstone]
      /\ w.entries = [d.entries EXCEPT ![p] = Dead]
      /\ w \in [shape : {"string", "general"}, n : {d.n}, table : {w.table}, entries : {w.entries},
                valid : {w.valid}, gen : Nat]
  BY <1>2 DEF DeleteEntryAtSlot, DictRecords
<1>. HIDE DEF w, p
<1>7. /\ Len(w.entries) = Len(d.entries) /\ DOMAIN w.entries = 1 .. Len(d.entries)
      /\ w.entries \in Seq(StoredEntries \cup {Dead}) /\ w.entries[p] = Dead
      /\ \A q \in 1 .. Len(d.entries) : q # p => w.entries[q] = d.entries[q]
  BY <1>2, <1>3, <1>6
<1>8. /\ w.table \in [Slots(d) -> Int] /\ w.table[s] = Tombstone
      /\ \A t \in Slots(d) : t # s => w.table[t] = d.table[t]
  BY <1>2, <1>6 DEF Tombstone
<1>9. DictTyped(w)
  <2>1. w.table \in UNION {[0 .. m - 1 -> Int] : m \in Nat}
    BY <1>2, <1>8 DEF Slots
  <2>2. w.valid \in Nat
    BY <1>4, <1>5, <1>6
  <2>3. w \in DictRecords
    BY <2>1, <2>2, <1>2, <1>6, <1>7 DEF DictRecords
  <2>. QED BY <2>3, <1>2, <1>6, <1>8 DEF DictTyped, Slots
<1>10. Entries(w) = Entries(d) \ {p}
  BY <1>2, <1>7 DEF Entries, IsLive
<1>11. Slots(w) = Slots(d) /\ Used(w) = Used(d)
  <2>1. d.table[s] # NotPresent /\ w.table[s] # NotPresent
    BY <1>2, <1>8 DEF NotPresent, Tombstone
  <2>. QED BY <2>1, <1>6, <1>8 DEF Slots, Used
<1>12. \A t \in Slots(d) : t # s => d.table[t] # p
  BY <1>2 DEF DictOK, Indexed, p
<1>13. Indexed(w)
  <2>1. \A t \in Slots(d) : w.table[t] \in {NotPresent, Tombstone} \cup Entries(w)
    BY <1>8, <1>10, <1>12 DEF DictOK, Indexed
  <2>2. ASSUME NEW q \in Entries(w) PROVE \E t \in Slots(d) : w.table[t] = q
    <3>1. q \in Entries(d) /\ q # p
      BY <1>10
    <3>2. PICK t \in Slots(d) : d.table[t] = q
      BY <3>1 DEF DictOK, Indexed
    <3>3. t # s
      BY <3>1, <3>2 DEF p
    <3>. QED BY <3>2, <3>3, <1>8
  <2>3. \A t, u \in Slots(d) : w.table[t] = w.table[u] /\ w.table[t] > 0 => t = u
    BY <1>8 DEF DictOK, Indexed, Tombstone
  <2>. QED BY <2>1, <2>2, <2>3, <1>11 DEF Indexed
<1>14. \A t \in Slots(d) : w.table[t] > 0 => w.table[t] = d.table[t] /\ d.table[t] > 0 /\ KeyAt(w, t) = KeyAt(d, t)
  <2>1. ASSUME NEW t \in Slots(d), w.table[t] > 0
        PROVE  w.table[t] = d.table[t] /\ KeyAt(w, t) = KeyAt(d, t)
    <3>1. t # s
      BY <2>1, <1>8 DEF Tombstone
    <3>2. w.table[t] = d.table[t] /\ d.table[t] # p
      BY <3>1, <1>8, <1>12
    <3>3. d.table[t] \in Entries(d)
      BY <3>2, <2>1 DEF DictOK, Indexed, NotPresent, Tombstone
    <3>. QED BY <3>2, <3>3, <1>2, <1>7 DEF KeyAt
  <2>. QED BY <2>1
<1>15. EntriesHashed(w)
  BY <1>2, <1>7, <1>10 DEF DictOK, EntriesHashed
<1>16. EntriesReached(w)
  <2>1. \A t \in Slots(d) : w.table[t] = NotPresent => d.table[t] = NotPresent
    BY <1>8 DEF NotPresent, Tombstone
  <2>. QED BY <2>1, <1>6, <1>11, <1>14 DEF DictOK, EntriesReached, Reaches, Start
<1>17. RoomKept(w) /\ w.valid = Cardinality(Entries(w))
  BY <1>4, <1>5, <1>6, <1>7, <1>10, <1>11 DEF DictOK, RoomKept
<1>18. Follows(d, w, {})
  BY <1>2, <1>6, <1>8, <1>14 DEF Follows, NotPresent, Tombstone
<1>19. SameOutside(d, w, {ClassOf[KeyAt(d, s)]})
  <2>1. ASSUME NEW x \in StoredEntries, ClassOf[x.key] # ClassOf[KeyAt(d, s)]
        PROVE  x \in Stored(d) <=> x \in Stored(w)
    <3>1. x # d.entries[p]
      BY <2>1 DEF KeyAt, p
    <3>. QED BY <3>1, <1>2, <1>7, <1>10 DEF Stored
  <2>. QED BY <2>1 DEF SameOutside
<1>. QED BY <1>6, <1>7, <1>9, <1>13, <1>15, <1>16, <1>17, <1>18, <1>19 DEF DictOK, w

(* The fields of a dictionary, one by one.                                 *)
Fields(shape, n, table, entries, valid, gen) ==
  [shape |-> shape, n |-> n, table |-> table, entries |-> entries, valid |-> valid, gen |-> gen]

\* A dictionary and its fields.
LEMMA FieldsIs ==
  ASSUME NEW d \in DictRecords
  PROVE  d = Fields(d.shape, d.n, d.table, d.entries, d.valid, d.gen)
  BY DEF DictRecords, Fields

\* Assigning the shape.
LEMMA SetShape ==
  ASSUME NEW sh, NEW n, NEW t, NEW e, NEW v, NEW g, NEW x
  PROVE  [Fields(sh, n, t, e, v, g) EXCEPT !.shape = x] = Fields(x, n, t, e, v, g)
  BY DEF Fields

\* Assigning the size of the table.
LEMMA SetSize ==
  ASSUME NEW sh, NEW n, NEW t, NEW e, NEW v, NEW g, NEW x
  PROVE  [Fields(sh, n, t, e, v, g) EXCEPT !.n = x] = Fields(sh, x, t, e, v, g)
  BY DEF Fields

\* Assigning the table.
LEMMA SetTable ==
  ASSUME NEW sh, NEW n, NEW t, NEW e, NEW v, NEW g, NEW x
  PROVE  [Fields(sh, n, t, e, v, g) EXCEPT !.table = x] = Fields(sh, n, x, e, v, g)
  BY DEF Fields

\* Assigning the entries.
LEMMA SetEntries ==
  ASSUME NEW sh, NEW n, NEW t, NEW e, NEW v, NEW g, NEW x
  PROVE  [Fields(sh, n, t, e, v, g) EXCEPT !.entries = x] = Fields(sh, n, t, x, v, g)
  BY DEF Fields

\* Assigning the number of live entries.
LEMMA SetValid ==
  ASSUME NEW sh, NEW n, NEW t, NEW e, NEW v, NEW g, NEW x
  PROVE  [Fields(sh, n, t, e, v, g) EXCEPT !.valid = x] = Fields(sh, n, t, e, x, g)
  BY DEF Fields

\* Assigning the generation.
LEMMA SetGen ==
  ASSUME NEW sh, NEW n, NEW t, NEW e, NEW v, NEW g, NEW x
  PROVE  [Fields(sh, n, t, e, v, g) EXCEPT !.gen = x] = Fields(sh, n, t, e, v, x)
  BY DEF Fields

\* Promotion to the general shape changes the generation only.
LEMMA PromoteOK ==
  ASSUME NEW d, DictOK(d)
  PROVE  LET w == PromoteToGeneralShape(d)
         IN  DictOK(w) /\ w.shape = "general" /\ w.gen = d.gen + 1 /\ w.n = d.n
             /\ w.entries = d.entries /\ Stored(w) = Stored(d) /\ Follows(d, w, {})
<1>. DEFINE w == PromoteToGeneralShape(d)
<1>1. DictTyped(d) /\ d \in DictRecords /\ d.gen \in Nat
  BY DEF DictOK, DictTyped, DictRecords
<1>2. w = Fields("general", d.n, d.table, d.entries, d.valid, d.gen + 1)
  <2>1. d = Fields(d.shape, d.n, d.table, d.entries, d.valid, d.gen)
    BY <1>1, FieldsIs
  <2>2. [d EXCEPT !.shape = "general"] = Fields("general", d.n, d.table, d.entries, d.valid, d.gen)
    BY <2>1, SetShape
  <2>. DEFINE w1 == [d EXCEPT !.shape = "general"]
              w2 == [w1 EXCEPT !.gen = d.gen + 1]
  <2>3. PromoteToGeneralShape(d) = w2
    BY DEF PromoteToGeneralShape
  <2>4. w1 = Fields("general", d.n, d.table, d.entries, d.valid, d.gen)
    BY <2>2
  <2>. HIDE DEF w1
  <2>5. w2 = Fields("general", d.n, d.table, d.entries, d.valid, d.gen + 1)
    BY <2>4, SetGen
  <2>. QED BY <2>3, <2>5
<1>. HIDE DEF w
<1>3. /\ w.shape = "general" /\ w.gen = d.gen + 1 /\ w.n = d.n /\ w.table = d.table
       /\ w.entries = d.entries /\ w.valid = d.valid /\ w \in DictRecords
  BY <1>1, <1>2 DEF Fields, DictRecords
<1>4. DictTyped(w) /\ Slots(w) = Slots(d) /\ Entries(w) = Entries(d) /\ Used(w) = Used(d)
  BY <1>1, <1>3 DEF DictTyped, Slots, Entries, Used
<1>5. Indexed(w) /\ EntriesHashed(w) /\ w.valid = Cardinality(Entries(w)) /\ RoomKept(w)
  BY <1>3, <1>4, SMTT(40) DEF DictOK, Indexed, EntriesHashed, RoomKept
<1>6. EntriesReached(w)
  BY <1>3, <1>4 DEF DictOK, EntriesReached, Reaches, Start, KeyAt
<1>7. Stored(w) = Stored(d) /\ Follows(d, w, {})
  BY <1>1, <1>3, <1>4 DEF Stored, Follows
<1>. QED BY <1>3, <1>4, <1>5, <1>6, <1>7 DEF DictOK, w

\* The type of an empty table.
LEMMA VacantTable ==
  ASSUME NEW n \in Nat
  PROVE  [s \in 0 .. n - 1 |-> NotPresent] \in UNION {[0 .. m - 1 -> Int] : m \in Nat}
<1>1. [s \in 0 .. n - 1 |-> NotPresent] \in [0 .. n - 1 -> Int]
  BY DEF NotPresent
<1>. QED BY <1>1

(* A dictionary without entries.                                           *)
LEMMA VacantOK ==
  ASSUME NEW d \in DictRecords, d.n > 4, d.table = [s \in 0 .. d.n - 1 |-> NotPresent],
         d.entries = <<>>, d.valid = 0
  PROVE  DictOK(d) /\ Stored(d) = {} /\ Entries(d) = {} /\ Used(d) = {}
<1>1. d.n \in Nat /\ d.table \in [Slots(d) -> Int] /\ \A s \in Slots(d) : d.table[s] = NotPresent
  BY DEF DictRecords, Slots, NotPresent
<1>2. DictTyped(d)
  BY <1>1 DEF DictTyped
<1>3. Entries(d) = {} /\ Used(d) = {} /\ Stored(d) = {} /\ Len(d.entries) = 0
  BY <1>1 DEF Entries, Used, Stored
<1>4. Cardinality({}) = 0
  BY FS_EmptySet
<1>5. Indexed(d) /\ EntriesHashed(d) /\ EntriesReached(d)
  BY <1>1, <1>3 DEF Indexed, EntriesHashed, EntriesReached, NotPresent
<1>6. RoomKept(d)
  BY <1>1, <1>3, <1>4 DEF RoomKept
<1>. QED BY <1>2, <1>3, <1>4, <1>5, <1>6 DEF DictOK

\* The dictionary a program starts with.
LEMMA EmptyOK == DictOK(EmptyDict) /\ Stored(EmptyDict) = {} /\ EmptyDict.shape = "string"
                 /\ EmptyDict.entries = <<>> /\ Fits(EmptyDict, 1)
<1>. DEFINE d == EmptyDict
<1>1. MinTableSize \in Nat /\ MinTableSize > 4
  BY DictConstants
<1>2. /\ d.n = MinTableSize /\ d.entries = <<>> /\ d.valid = 0 /\ d.shape = "string" /\ d.gen = 0
      /\ d.table = [s \in 0 .. MinTableSize - 1 |-> NotPresent]
  BY DEF EmptyDict
<1>3. d.table \in UNION {[0 .. m - 1 -> Int] : m \in Nat}
  BY <1>1, <1>2 DEF NotPresent
<1>4. d \in DictRecords
  BY <1>1, <1>2, <1>3 DEF DictRecords, EmptyDict
<1>. HIDE DEF d
<1>5. DictOK(d) /\ Stored(d) = {}
  BY <1>1, <1>2, <1>4, VacantOK
<1>6. Fits(d, 1)
  <2>1. Len(d.entries) = 0
    BY <1>2
  <2>. QED BY <1>1, <1>2, <2>1 DEF Fits
<1>. QED BY <1>2, <1>5, <1>6 DEF d

\* clear
LEMMA ClearOK ==
  ASSUME NEW d, DictOK(d)
  PROVE  LET w == Clear(d)
         IN  /\ DictOK(w) /\ w.shape = d.shape /\ Follows(d, w, {})
             /\ w.n = d.n /\ w.entries = <<>>
<1>. DEFINE w == Clear(d)
<1>1. DictTyped(d) /\ d \in DictRecords /\ d.gen \in Nat /\ d.n \in Nat /\ d.n > 4
      /\ DOMAIN d.table = 0 .. d.n - 1
  BY DEF DictOK, DictTyped, DictRecords, Slots
<1>2. w = Fields(d.shape, d.n, [s \in 0 .. d.n - 1 |-> NotPresent], <<>>, 0, d.gen + 1)
  <2>1. d = Fields(d.shape, d.n, d.table, d.entries, d.valid, d.gen)
    BY <1>1, FieldsIs
  <2>. DEFINE vacant == [s \in DOMAIN d.table |-> NotPresent]
              w1 == [d EXCEPT !.table = vacant]
              w2 == [w1 EXCEPT !.entries = <<>>]
              w3 == [w2 EXCEPT !.valid = 0]
              w4 == [w3 EXCEPT !.gen = d.gen + 1]
  <2>2. Clear(d) = w4
    BY DEF Clear
  <2>. HIDE DEF vacant
  <2>3. w1 = Fields(d.shape, d.n, vacant, d.entries, d.valid, d.gen)
    BY <2>1, SetTable
  <2>. HIDE DEF w1
  <2>4. w2 = Fields(d.shape, d.n, vacant, <<>>, d.valid, d.gen)
    BY <2>3, SetEntries
  <2>. HIDE DEF w2
  <2>5. w3 = Fields(d.shape, d.n, vacant, <<>>, 0, d.gen)
    BY <2>4, SetValid
  <2>. HIDE DEF w3
  <2>6. w4 = Fields(d.shape, d.n, vacant, <<>>, 0, d.gen + 1)
    BY <2>5, SetGen
  <2>. QED BY <1>1, <2>2, <2>6 DEF vacant
<1>. HIDE DEF w
<1>3. /\ w.shape = d.shape /\ w.gen = d.gen + 1 /\ w.n = d.n /\ w.entries = <<>> /\ w.valid = 0
      /\ w.table = [s \in 0 .. d.n - 1 |-> NotPresent]
  BY <1>2 DEF Fields
<1>4. w \in DictRecords
  <2>1. w.table \in UNION {[0 .. m - 1 -> Int] : m \in Nat}
    BY <1>1, <1>3, VacantTable, ZenonT(60)
  <2>2. d.shape \in {"string", "general"}
    BY <1>1 DEF DictRecords
  <2>3. w.entries \in Seq(StoredEntries \cup {Dead}) /\ w.valid \in Nat /\ w.gen \in Nat
    BY <1>1, <1>3
  <2>. QED BY <1>1, <1>2, <1>3, <2>1, <2>2, <2>3 DEF DictRecords, Fields
<1>5. DictOK(w)
  BY <1>1, <1>3, <1>4, VacantOK
<1>. QED BY <1>1, <1>3, <1>5 DEF Follows, w

(* Room: an entry for every slot used, so an empty slot while fewer entries *)
(* have been appended than there are slots.                                *)
LEMMA FreeSlot ==
  ASSUME NEW d, DictOK(d), Len(d.entries) < d.n
  PROVE  \E s \in Slots(d) : d.table[s] = NotPresent
<1>1. DictTyped(d)
  BY DEF DictOK
<1>2. /\ IsFiniteSet(Slots(d)) /\ Cardinality(Slots(d)) = d.n /\ IsFiniteSet(Used(d)) /\ d.n \in Nat
      /\ Len(d.entries) \in Nat
  BY <1>1, TypedIs
<1>3. Cardinality(Used(d)) \in Nat
  BY <1>2, FS_CardinalityType
<1>4. Cardinality(Used(d)) < Cardinality(Slots(d))
  BY <1>2, <1>3 DEF DictOK, RoomKept
<1>5. Used(d) # Slots(d)
  BY <1>2, <1>3, <1>4
<1>. QED BY <1>5 DEF Used

(* No more live entries than slots.                                        *)
LEMMA LiveBound ==
  ASSUME NEW d, DictOK(d)
  PROVE  Cardinality(Entries(d)) \in Nat /\ Cardinality(Entries(d)) <= d.n
<1>1. DictTyped(d)
  BY DEF DictOK
<1>2. /\ IsFiniteSet(Slots(d)) /\ Cardinality(Slots(d)) = d.n /\ IsFiniteSet(Entries(d)) /\ d.n \in Nat
  BY <1>1, TypedIs
<1>3. Cardinality(Entries(d)) \in Nat
  BY <1>2, FS_CardinalityType
<1>4. ASSUME Cardinality(Slots(d)) < Cardinality(Entries(d)) PROVE FALSE
  <2>. DEFINE where == [p \in Entries(d) |-> CHOOSE s \in Slots(d) : d.table[s] = p]
  <2>1. \A p \in Entries(d) : where[p] \in Slots(d) /\ d.table[where[p]] = p
    BY DEF DictOK, Indexed
  <2>2. where \in [Entries(d) -> Slots(d)]
    BY <2>1
  <2>. HIDE DEF where
  <2>3. \E p, q \in Entries(d) : p # q /\ where[p] = where[q]
    BY <1>2, <1>4, <2>2, FS_PigeonHole
  <2>. QED BY <2>1, <2>3
<1>. QED BY <1>2, <1>3, <1>4
-----------------------------------------------------------------------------
(* Growing and copying.                                                    *)
EmptySlots(d) == SlotsWith(d, NotPresent)

\* One entry is placed in a table with room.
LEMMA RehashOK ==
  ASSUME NEW d, DictOK(d), Len(d.entries) < d.n,
         WithinLimit(d),
         NEW e \in StoredEntries, IsLive(e), e.hash = HashOf[e.key]
  PROVE  LET w == Rehash(d, e)
         IN  /\ DictOK(w) /\ w.n = d.n /\ w.shape = d.shape /\ w.gen = d.gen
             /\ Len(w.entries) = Len(d.entries) + 1
             /\ Stored(w) = Stored(d) \cup {e}
<1>. DEFINE i == e.hash % d.n
            s == FirstFrom(EmptySlots(d), d.n, i)
<1>1. DictTyped(d) /\ e.key \in Keys /\ e.value \in Values \cup {Initial} /\ i = Start(d, e.key)
  BY DEF DictOK, StoredEntries, Start
<1>2. d.n \in Nat \ {0} /\ i \in 0 .. d.n - 1 /\ DOMAIN d.table = 0 .. d.n - 1
  BY <1>1, TypedIs DEF Slots
<1>3. EmptySlots(d) \in SUBSET (0 .. d.n - 1) /\ EmptySlots(d) # {}
  BY <1>2, FreeSlot DEF EmptySlots, SlotsWith, Slots
<1>. HIDE DEF i
<1>4. /\ s \in EmptySlots(d)
      /\ \A t \in EmptySlots(d) : Distance(d.n, i, s) <= Distance(d.n, i, t)
  BY <1>2, <1>3, FirstIs
<1>5. s \in Slots(d) /\ d.table[s] = NotPresent
  BY <1>2, <1>4 DEF EmptySlots, SlotsWith, Slots
<1>6. Rehash(d, e) = WriteNewAtSlot(d, s, e.key, e.value)
  BY DEF Rehash, EmptySlots, i
<1>. HIDE DEF s
<1>7. Reaches(d, Start(d, e.key), s)
  <2>1. ASSUME NEW t \in Slots(d), d.table[t] = NotPresent, t # s
        PROVE  Distance(d.n, i, s) < Distance(d.n, i, t)
    <3>1. Distance(d.n, i, s) <= Distance(d.n, i, t)
      BY <1>2, <1>4, <2>1 DEF EmptySlots, SlotsWith, Slots
    <3>2. /\ Distance(d.n, i, s) \in 0 .. d.n - 1 /\ Distance(d.n, i, t) \in 0 .. d.n - 1
          /\ Distance(d.n, i, s) = Distance(d.n, i, t) => s = t
      BY <1>2, <1>5, Distances DEF Slots
    <3>. QED BY <3>1, <3>2, <2>1
  <2>. QED BY <2>1, <1>1 DEF Reaches
<1>8. Placed(e.key, e.value) = e
  BY DEF Placed, StoredEntries
<1>. DEFINE w == WriteNewAtSlot(d, s, e.key, e.value)
<1>9. w.n = d.n /\ w.shape = d.shape /\ w.gen = d.gen /\ Len(w.entries) = Len(d.entries) + 1
  BY <1>1, <1>5, WriteNewIs
<1>10. DictOK(w) /\ Stored(w) = Stored(d) \cup {Placed(e.key, e.value)}
  <2>1. d.table[s] \in {NotPresent, Tombstone} /\ e.key \in Keys /\ e.value \in Values \cup {Initial}
    BY <1>1, <1>5
  <2>2. Written(d, WriteNewAtSlot(d, s, e.key, e.value), e.key, e.value)
    BY <1>5, <1>7, <2>1, WriteNewOK
  <2>. QED BY <2>2 DEF Written
<1>. QED BY <1>6, <1>8, <1>9, <1>10

\* The first i entries of d that are live.
Upper(d, i) == Entries(d) \cap (1 .. i)

\* The live entries up to i, one entry at a time.
LEMMA UpperIs ==
  ASSUME NEW d, DictTyped(d)
  PROVE  /\ Upper(d, 0) = {} /\ Upper(d, Len(d.entries)) = Entries(d)
         /\ \A i \in 0 .. Len(d.entries) :
              Cardinality(Upper(d, i)) \in Nat /\ Cardinality(Upper(d, i)) <= Cardinality(Entries(d))
         /\ \A i \in 1 .. Len(d.entries) :
              IF IsLive(d.entries[i])
              THEN /\ Upper(d, i) = Upper(d, i - 1) \cup {i} /\ i \in Entries(d)
                   /\ Cardinality(Upper(d, i)) = Cardinality(Upper(d, i - 1)) + 1
              ELSE Upper(d, i) = Upper(d, i - 1)
<1>1. /\ IsFiniteSet(Entries(d)) /\ Entries(d) \subseteq 1 .. Len(d.entries) /\ Len(d.entries) \in Nat
      /\ DOMAIN d.entries = 1 .. Len(d.entries)
  BY TypedIs
<1>2. ASSUME NEW i \in 0 .. Len(d.entries)
      PROVE  /\ IsFiniteSet(Upper(d, i)) /\ Cardinality(Upper(d, i)) \in Nat
             /\ Cardinality(Upper(d, i)) <= Cardinality(Entries(d))
  <2>1. Upper(d, i) \in SUBSET Entries(d)
    BY DEF Upper
  <2>2. IsFiniteSet(Upper(d, i)) /\ Cardinality(Upper(d, i)) <= Cardinality(Entries(d))
    BY <1>1, <2>1, FS_Subset
  <2>. QED BY <2>2, FS_CardinalityType
<1>3. ASSUME NEW i \in 1 .. Len(d.entries), IsLive(d.entries[i])
      PROVE  /\ Upper(d, i) = Upper(d, i - 1) \cup {i} /\ i \in Entries(d)
             /\ Cardinality(Upper(d, i)) = Cardinality(Upper(d, i - 1)) + 1
  <2>1. i \in Entries(d)
    BY <1>1, <1>3 DEF Entries
  <2>2. Upper(d, i) = Upper(d, i - 1) \cup {i} /\ i \notin Upper(d, i - 1)
    BY <2>1, <1>1 DEF Upper
  <2>3. IsFiniteSet(Upper(d, i - 1))
    <3>1. i - 1 \in 0 .. Len(d.entries)
      BY <1>1
    <3>. QED BY <3>1, <1>2
  <2>4. Cardinality(Upper(d, i - 1) \cup {i}) = Cardinality(Upper(d, i - 1)) + 1
    BY <2>2, <2>3, FS_AddElement
  <2>. QED BY <2>1, <2>2, <2>4
<1>4. ASSUME NEW i \in 1 .. Len(d.entries), ~IsLive(d.entries[i])
      PROVE  Upper(d, i) = Upper(d, i - 1)
  BY <1>1, <1>4 DEF Upper, Entries
<1>5. Upper(d, 0) = {} /\ Upper(d, Len(d.entries)) = Entries(d)
  BY <1>1 DEF Upper
<1>. QED BY <1>2, <1>3, <1>4, <1>5

\* Growing doubles the table, drops dead entries and keeps the live ones.
LEMMA GrowOK ==
  ASSUME NEW d, DictOK(d)
  PROVE  LET w == Grow(d)
         IN  /\ DictOK(w) /\ w.n = 2 * d.n /\ w.gen = d.gen + 1 /\ w.shape = d.shape
             /\ Stored(w) = Stored(d) /\ Len(w.entries) = Cardinality(Entries(d))
<1>. DEFINE n == Len(d.entries)
            emptied == [d EXCEPT !.n = 2 * d.n, !.table = [s \in 0 .. 2 * d.n - 1 |-> NotPresent],
                                 !.entries = <<>>, !.valid = 0, !.gen = @ + 1]
            Kept(i) == {x \in DictRecords :
                          /\ DictOK(x) /\ x.n = 2 * d.n /\ x.shape = d.shape /\ x.gen = d.gen + 1
                          /\ Len(x.entries) = Cardinality(Upper(d, i))
                          /\ Stored(x) = {d.entries[p] : p \in Upper(d, i)}}
            P == [i \in 0 .. n |-> Kept(i)]
            step == [y \in DictRecords \X (1 .. n) |-> Rehash(y[1], d.entries[y[2]])]
<1>1. DictTyped(d) /\ d \in DictRecords
  BY DEF DictOK, DictTyped
<1>2. /\ n \in Nat /\ d.n \in Nat /\ d.n > 4 /\ d.gen \in Nat /\ d.shape \in {"string", "general"}
      /\ \A p \in 1 .. n : d.entries[p] \in StoredEntries \cup {Dead}
      /\ \A p \in Entries(d) : d.entries[p] \in StoredEntries
  BY <1>1, TypedIs DEF DictTyped
<1>3. Cardinality(Entries(d)) \in Nat /\ Cardinality(Entries(d)) <= d.n
  BY LiveBound
<1>4. emptied \in Kept(0)
  <2>. DEFINE vacant == [s \in 0 .. 2 * d.n - 1 |-> NotPresent]
  <2>0. emptied = Fields(d.shape, 2 * d.n, vacant, <<>>, 0, d.gen + 1)
    <3>1. d = Fields(d.shape, d.n, d.table, d.entries, d.valid, d.gen)
      BY <1>1, FieldsIs
    <3>. DEFINE w1 == [d EXCEPT !.n = 2 * d.n]
                w2 == [w1 EXCEPT !.table = vacant]
                w3 == [w2 EXCEPT !.entries = <<>>]
                w4 == [w3 EXCEPT !.valid = 0]
                w5 == [w4 EXCEPT !.gen = d.gen + 1]
    <3>2. emptied = w5
      OBVIOUS
    <3>. HIDE DEF vacant, emptied
    <3>3. w1 = Fields(d.shape, 2 * d.n, d.table, d.entries, d.valid, d.gen)
      BY <3>1, SetSize
    <3>. HIDE DEF w1
    <3>4. w2 = Fields(d.shape, 2 * d.n, vacant, d.entries, d.valid, d.gen)
      BY <3>3, SetTable
    <3>. HIDE DEF w2
    <3>5. w3 = Fields(d.shape, 2 * d.n, vacant, <<>>, d.valid, d.gen)
      BY <3>4, SetEntries
    <3>. HIDE DEF w3
    <3>6. w4 = Fields(d.shape, 2 * d.n, vacant, <<>>, 0, d.gen)
      BY <3>5, SetValid
    <3>. HIDE DEF w4
    <3>7. w5 = Fields(d.shape, 2 * d.n, vacant, <<>>, 0, d.gen + 1)
      BY <3>6, SetGen
    <3>. QED BY <3>2, <3>7
  <2>. HIDE DEF emptied
  <2>1. /\ emptied.n = 2 * d.n /\ emptied.shape = d.shape /\ emptied.gen = d.gen + 1
        /\ emptied.table = vacant /\ emptied.entries = <<>> /\ emptied.valid = 0
    BY <2>0 DEF Fields
  <2>2. 2 * d.n \in Nat /\ emptied.table \in UNION {[0 .. m - 1 -> Int] : m \in Nat}
    <3>1. 2 * d.n \in Nat
      BY <1>2
    <3>2. vacant \in UNION {[0 .. m - 1 -> Int] : m \in Nat}
      BY <3>1, VacantTable, Zenon
    <3>. HIDE DEF vacant
    <3>. QED BY <2>1, <3>1, <3>2, Zenon
  <2>3. emptied \in DictRecords
    <3>1. <<>> \in Seq(StoredEntries \cup {Dead}) /\ 0 \in Nat /\ d.gen + 1 \in Nat
      BY <1>2
    <3>. HIDE DEF vacant
    <3>. QED BY <3>1, <1>2, <2>0, <2>1, <2>2 DEF DictRecords, Fields
  <2>4. emptied.n > 4
    BY <1>2, <2>1
  <2>5. DictOK(emptied) /\ Stored(emptied) = {}
    BY <2>1, <2>3, <2>4, VacantOK
  <2>6. Cardinality(Upper(d, 0)) = 0 /\ Upper(d, 0) = {}
    BY <1>1, UpperIs, FS_EmptySet
  <2>. QED BY <2>1, <2>3, <2>5, <2>6
<1>5. ASSUME NEW i \in 1 .. n, NEW x \in Kept(i - 1)
      PROVE  Rehash(x, d.entries[i]) \in Kept(i)
  <2>1. /\ DictOK(x) /\ x.n = 2 * d.n /\ x.shape = d.shape /\ x.gen = d.gen + 1
        /\ Len(x.entries) = Cardinality(Upper(d, i - 1))
        /\ Stored(x) = {d.entries[p] : p \in Upper(d, i - 1)} /\ x \in DictRecords
    OBVIOUS
  <2>2. i - 1 \in 0 .. n
    BY <1>2
  <2>3. Cardinality(Upper(d, i - 1)) \in Nat /\ Cardinality(Upper(d, i - 1)) <= Cardinality(Entries(d))
    BY <1>1, <2>2, UpperIs
  <2>4. CASE IsLive(d.entries[i])
    <3>1. /\ Upper(d, i) = Upper(d, i - 1) \cup {i} /\ i \in Entries(d)
          /\ Cardinality(Upper(d, i)) = Cardinality(Upper(d, i - 1)) + 1
      BY <1>1, <2>4, UpperIs
    <3>. DEFINE e == d.entries[i]
                w == Rehash(x, e)
    <3>2. e \in StoredEntries /\ e.hash = HashOf[e.key]
      BY <1>2, <3>1 DEF DictOK, EntriesHashed
    <3>3. Len(x.entries) < x.n /\ WithinLimit(x)
      BY <1>2, <1>3, <2>1, <2>3, SMTT(40) DEF WithinLimit
    <3>4. /\ DictOK(w) /\ w.n = x.n /\ w.shape = x.shape /\ w.gen = x.gen
          /\ Len(w.entries) = Len(x.entries) + 1 /\ Stored(w) = Stored(x) \cup {e}
      BY <2>1, <2>4, <3>2, <3>3, RehashOK
    <3>5. w \in DictRecords
      BY <3>4 DEF DictOK, DictTyped
    <3>. HIDE DEF w
    <3>6. Stored(w) = {d.entries[p] : p \in Upper(d, i)}
      BY <2>1, <3>1, <3>4
    <3>7. w \in Kept(i)
      BY <2>1, <3>1, <3>4, <3>5, <3>6
    <3>. QED BY <3>7 DEF w
  <2>5. CASE ~IsLive(d.entries[i])
    <3>1. Upper(d, i) = Upper(d, i - 1)
      BY <1>1, <2>5, UpperIs
    <3>2. Rehash(x, d.entries[i]) = x
      BY <2>5 DEF Rehash
    <3>. QED BY <3>1, <3>2, <2>1
  <2>. QED BY <2>4, <2>5
<1>. HIDE DEF emptied
<1>6. \A i \in 0 .. n : P[i] = Kept(i)
  OBVIOUS
<1>7. \A i \in 1 .. n : \A x \in Kept(i - 1) : x \in DictRecords /\ step[<<x, i>>] = Rehash(x, d.entries[i])
  OBVIOUS
<1>. HIDE DEF Kept, P, step
<1>8. \A i \in 1 .. n : \A x \in P[i - 1] : step[<<x, i>>] \in P[i]
  <2>1. ASSUME NEW i \in 1 .. n, NEW x \in P[i - 1] PROVE step[<<x, i>>] \in P[i]
    <3>1. i \in 0 .. n /\ i - 1 \in 0 .. n
      BY <1>2
    <3>2. x \in Kept(i - 1)
      BY <3>1, <1>6
    <3>. QED BY <3>1, <3>2, <1>5, <1>6, <1>7
  <2>. QED BY <2>1
<1>9. emptied \in P[0]
  BY <1>2, <1>4, <1>6
<1>10. PICK f : f = [i \in 0 .. n |-> IF i = 0 THEN emptied ELSE step[<<f[i - 1], i>>]]
  <2>1. \E f : Recursion(f, n, emptied, step)
    BY <1>2, <1>8, <1>9, RecursionExists
  <2>. QED BY <2>1 DEF Recursion
<1>. DEFINE Q == [i \in 0 .. n |-> f[i] \in P[i]]
<1>11. \A i \in 0 .. n : f[i] \in P[i]
  <2>1. Q[0]
    <3>1. 0 \in 0 .. n
      BY <1>2
    <3>2. f[0] = emptied
      BY <3>1, <1>10
    <3>. QED BY <3>1, <3>2, <1>9
  <2>2. \A i \in 1 .. n : Q[i - 1] => Q[i]
    <3>1. ASSUME NEW i \in 1 .. n, Q[i - 1] PROVE Q[i]
      <4>1. i \in 0 .. n /\ i - 1 \in 0 .. n /\ i # 0
        BY <1>2
      <4>2. f[i] = step[<<f[i - 1], i>>]
        BY <4>1, <1>10
      <4>3. f[i - 1] \in P[i - 1]
        BY <3>1, <4>1
      <4>. QED BY <4>1, <4>2, <4>3, <1>8
    <3>. QED BY <3>1
  <2>. HIDE DEF Q
  <2>3. \A i \in 0 .. n : Q[i]
    BY <2>1, <2>2, <1>2, UpTo
  <2>. QED BY <2>3 DEF Q
<1>12. f = [i \in 0 .. n |-> IF i = 0 THEN emptied ELSE Rehash(f[i - 1], d.entries[i])]
  <2>1. ASSUME NEW i \in 0 .. n
        PROVE  f[i] = IF i = 0 THEN emptied ELSE Rehash(f[i - 1], d.entries[i])
    <3>1. CASE i = 0
      BY <3>1, <1>10
    <3>2. CASE i # 0
      <4>1. i \in 1 .. n /\ i - 1 \in 0 .. n
        BY <1>2, <3>2
      <4>2. f[i - 1] \in Kept(i - 1)
        BY <4>1, <1>6, <1>11
      <4>3. f[i] = step[<<f[i - 1], i>>]
        BY <3>2, <1>10
      <4>. QED BY <3>2, <4>1, <4>2, <4>3, <1>7
    <3>. QED BY <3>1, <3>2
  <2>2. DOMAIN f = 0 .. n /\ f = [i \in 0 .. n |-> f[i]]
    BY <1>10
  <2>. QED BY <2>1, <2>2
<1>. DEFINE moved == CHOOSE g : g = [i \in 0 .. n |-> IF i = 0 THEN emptied ELSE Rehash(g[i - 1], d.entries[i])]
<1>13. moved = [i \in 0 .. n |-> IF i = 0 THEN emptied ELSE Rehash(moved[i - 1], d.entries[i])]
  BY <1>12
<1>14. Grow(d) = moved[n]
  BY DEF Grow, emptied
<1>. HIDE DEF moved
<1>15. moved[n] \in Kept(n)
  <2>. DEFINE M == [i \in 0 .. n |-> moved[i] \in Kept(i)]
  <2>1. M[0]
    <3>1. 0 \in 0 .. n
      BY <1>2
    <3>2. moved[0] = emptied
      BY <3>1, <1>13
    <3>. QED BY <3>1, <3>2, <1>4
  <2>2. \A i \in 1 .. n : M[i - 1] => M[i]
    <3>1. ASSUME NEW i \in 1 .. n, M[i - 1] PROVE M[i]
      <4>1. i \in 0 .. n /\ i - 1 \in 0 .. n /\ i # 0
        BY <1>2
      <4>2. moved[i] = Rehash(moved[i - 1], d.entries[i])
        BY <4>1, <1>13
      <4>3. moved[i - 1] \in Kept(i - 1)
        BY <3>1, <4>1
      <4>. QED BY <4>1, <4>2, <4>3, <1>5
    <3>. QED BY <3>1
  <2>. HIDE DEF M
  <2>3. \A i \in 0 .. n : M[i]
    BY <2>1, <2>2, <1>2, UpTo
  <2>4. n \in 0 .. n
    BY <1>2
  <2>5. M[n]
    BY <2>3, <2>4
  <2>. QED BY <2>4, <2>5 DEF M
<1>16. Upper(d, n) = Entries(d)
  BY <1>1, UpperIs
<1>. QED BY <1>14, <1>15, <1>16 DEF Kept, Stored

(* Room for one entry more.                                                *)
LEMMA ResizeOK ==
  ASSUME NEW d, DictOK(d)
  PROVE  LET w == ResizeIfNeeded(d)
         IN  /\ DictOK(w) /\ w.shape = d.shape /\ Stored(w) = Stored(d)
             /\ w = d \/ w.gen > d.gen
             /\ WithinLimit(w) /\ Len(w.entries) < w.n /\ w.n >= d.n
<1>1. DictTyped(d)
  BY DEF DictOK
<1>2. d.n \in Nat /\ d.n > 4 /\ d.gen \in Nat /\ Len(d.entries) \in Nat
  BY <1>1, TypedIs DEF DictTyped
<1>3. CASE NeedsResizeForInsert(d)
  <2>. DEFINE w == Grow(d)
  <2>1. /\ DictOK(w) /\ w.n = 2 * d.n /\ w.gen = d.gen + 1 /\ w.shape = d.shape
        /\ Stored(w) = Stored(d) /\ Len(w.entries) = Cardinality(Entries(d))
    BY GrowOK
  <2>2. Cardinality(Entries(d)) \in Nat /\ Cardinality(Entries(d)) <= d.n
    BY LiveBound
  <2>3. ResizeIfNeeded(d) = w
    BY <1>3 DEF ResizeIfNeeded
  <2>. HIDE DEF w
  <2>4. WithinLimit(w) /\ Len(w.entries) < w.n
    BY <1>2, <2>1, <2>2 DEF WithinLimit
  <2>5. w.gen > d.gen /\ w.n >= d.n
    BY <1>2, <2>1
  <2>. QED BY <2>1, <2>3, <2>4, <2>5
<1>4. CASE ~NeedsResizeForInsert(d)
  <2>1. ResizeIfNeeded(d) = d
    BY <1>4 DEF ResizeIfNeeded
  <2>2. WithinLimit(d)
    BY <1>2, <1>4 DEF NeedsResizeForInsert, WithinLimit
  <2>3. Len(d.entries) < d.n /\ d.n >= d.n
    BY <1>2, <2>2 DEF WithinLimit
  <2>. QED BY <2>1, <2>2, <2>3
<1>. QED BY <1>3, <1>4

\* One entry is copied, if it is live.
LEMMA CopyStoredOK ==
  ASSUME NEW d, DictOK(d), NEW e \in StoredEntries \cup {Dead}, IsLive(e) => e.hash = HashOf[e.key]
  PROVE  LET w == CopyStoredEntry(d, e)
         IN  /\ DictOK(w) /\ w.shape = d.shape
             /\ Stored(w) = Stored(d) \cup (IF IsLive(e) THEN {e} ELSE {})
             /\ Fits(d, 1) => Fits(w, 1)
<1>. DEFINE r == ResizeIfNeeded(d)
<1>1. CASE IsLive(e)
  <2>1. /\ DictOK(r) /\ r.shape = d.shape /\ Stored(r) = Stored(d)
        /\ WithinLimit(r) /\ Len(r.entries) < r.n /\ r.n >= d.n
    BY ResizeOK
  <2>2. e \in StoredEntries /\ e.hash = HashOf[e.key]
    BY <1>1 DEF IsLive
  <2>3. CopyStoredEntry(d, e) = Rehash(r, e)
    BY <1>1 DEF CopyStoredEntry
  <2>. HIDE DEF r
  <2>. DEFINE w == Rehash(r, e)
  <2>4. /\ DictOK(w) /\ w.n = r.n /\ w.shape = r.shape /\ Stored(w) = Stored(r) \cup {e}
        /\ Len(w.entries) = Len(r.entries) + 1
    BY <1>1, <2>1, <2>2, RehashOK
  <2>. HIDE DEF w
  <2>5. Fits(d, 1) => Fits(w, 1)
    <3>1. d.n \in Nat /\ r.n \in Nat /\ Len(r.entries) \in Nat /\ MinTableSize \in Nat
      BY <2>1, TypedIs, DictConstants DEF DictOK
    <3>. QED BY <2>1, <2>4, <3>1 DEF Fits, WithinLimit
  <2>. QED BY <1>1, <2>1, <2>3, <2>4, <2>5 DEF w
<1>2. CASE ~IsLive(e)
  BY <1>2 DEF CopyStoredEntry
<1>. QED BY <1>1, <1>2

\* A copy stores what the original does.
LEMMA CopyOK ==
  ASSUME NEW d, DictOK(d)
  PROVE  Built(CopyOf(d)) /\ CopyOf(d).shape = d.shape /\ Stored(CopyOf(d)) = Stored(d)
<1>. DEFINE n == Len(d.entries)
            fresh == IF d.shape = "string" THEN EmptyDict ELSE PromoteToGeneralShape(EmptyDict)
            Kept(i) == {x \in DictRecords : /\ Built(x) /\ x.shape = d.shape
                                            /\ Stored(x) = {d.entries[p] : p \in Upper(d, i)}}
            P == [i \in 0 .. n |-> Kept(i)]
            step == [y \in DictRecords \X (1 .. n) |-> CopyStoredEntry(y[1], d.entries[y[2]])]
<1>1. DictTyped(d) /\ d \in DictRecords
  BY DEF DictOK, DictTyped
<1>2. /\ n \in Nat /\ d.shape \in {"string", "general"}
      /\ \A p \in 1 .. n : d.entries[p] \in StoredEntries \cup {Dead}
  BY <1>1, TypedIs
<1>3. fresh \in Kept(0)
  <2>1. Built(EmptyDict) /\ Stored(EmptyDict) = {} /\ EmptyDict.shape = "string"
    BY EmptyOK DEF Built
  <2>2. Built(fresh) /\ Stored(fresh) = {} /\ fresh.shape = d.shape
    BY <1>2, <2>1, PromoteOK DEF Built, Fits
  <2>3. Upper(d, 0) = {}
    BY <1>1, UpperIs
  <2>. HIDE DEF fresh
  <2>. QED BY <2>2, <2>3 DEF Built, DictOK, DictTyped
<1>4. ASSUME NEW i \in 1 .. n, NEW x \in Kept(i - 1)
      PROVE  CopyStoredEntry(x, d.entries[i]) \in Kept(i)
  <2>. DEFINE e == d.entries[i]
              w == CopyStoredEntry(x, e)
  <2>1. Built(x) /\ x.shape = d.shape /\ Stored(x) = {d.entries[p] : p \in Upper(d, i - 1)}
    OBVIOUS
  <2>2. e \in StoredEntries \cup {Dead}
    BY <1>2
  <2>3. IsLive(e) => Upper(d, i) = Upper(d, i - 1) \cup {i} /\ i \in Entries(d)
    BY <1>1, UpperIs
  <2>4. ~IsLive(e) => Upper(d, i) = Upper(d, i - 1)
    BY <1>1, UpperIs
  <2>5. IsLive(e) => e.hash = HashOf[e.key]
    BY <2>3 DEF DictOK, EntriesHashed
  <2>6. /\ Built(w) /\ w.shape = x.shape
        /\ Stored(w) = Stored(x) \cup (IF IsLive(e) THEN {e} ELSE {})
    BY <2>1, <2>2, <2>5, CopyStoredOK DEF Built
  <2>. HIDE DEF w
  <2>7. Stored(w) = {d.entries[p] : p \in Upper(d, i)}
    BY <2>1, <2>3, <2>4, <2>6
  <2>8. w \in Kept(i)
    BY <2>1, <2>6, <2>7 DEF Built, DictOK, DictTyped
  <2>. QED BY <2>8 DEF w
<1>. HIDE DEF fresh
<1>5. \A i \in 0 .. n : P[i] = Kept(i)
  OBVIOUS
<1>6. \A i \in 1 .. n : \A x \in Kept(i - 1) : step[<<x, i>>] = CopyStoredEntry(x, d.entries[i])
  OBVIOUS
<1>. HIDE DEF Kept, P, step
<1>7. \A i \in 1 .. n : \A x \in P[i - 1] : step[<<x, i>>] \in P[i]
  <2>1. ASSUME NEW i \in 1 .. n, NEW x \in P[i - 1] PROVE step[<<x, i>>] \in P[i]
    <3>1. i \in 0 .. n /\ i - 1 \in 0 .. n
      BY <1>2
    <3>2. x \in Kept(i - 1)
      BY <3>1, <1>5
    <3>. QED BY <3>1, <3>2, <1>4, <1>5, <1>6
  <2>. QED BY <2>1
<1>8. fresh \in P[0]
  BY <1>2, <1>3, <1>5
<1>9. PICK f : f = [i \in 0 .. n |-> IF i = 0 THEN fresh ELSE step[<<f[i - 1], i>>]]
  <2>1. \E f : Recursion(f, n, fresh, step)
    BY <1>2, <1>7, <1>8, RecursionExists
  <2>. QED BY <2>1 DEF Recursion
<1>. DEFINE Q == [i \in 0 .. n |-> f[i] \in P[i]]
<1>10. \A i \in 0 .. n : f[i] \in P[i]
  <2>1. Q[0]
    <3>1. 0 \in 0 .. n
      BY <1>2
    <3>2. f[0] = fresh
      BY <3>1, <1>9
    <3>. QED BY <3>1, <3>2, <1>8
  <2>2. \A i \in 1 .. n : Q[i - 1] => Q[i]
    <3>1. ASSUME NEW i \in 1 .. n, Q[i - 1] PROVE Q[i]
      <4>1. i \in 0 .. n /\ i - 1 \in 0 .. n /\ i # 0
        BY <1>2
      <4>2. f[i] = step[<<f[i - 1], i>>]
        BY <4>1, <1>9
      <4>3. f[i - 1] \in P[i - 1]
        BY <3>1, <4>1
      <4>. QED BY <4>1, <4>2, <4>3, <1>7
    <3>. QED BY <3>1
  <2>. HIDE DEF Q
  <2>3. \A i \in 0 .. n : Q[i]
    BY <2>1, <2>2, <1>2, UpTo
  <2>. QED BY <2>3 DEF Q
<1>11. f = [i \in 0 .. n |-> IF i = 0 THEN fresh ELSE CopyStoredEntry(f[i - 1], d.entries[i])]
  <2>1. ASSUME NEW i \in 0 .. n
        PROVE  f[i] = IF i = 0 THEN fresh ELSE CopyStoredEntry(f[i - 1], d.entries[i])
    <3>1. CASE i = 0
      BY <3>1, <1>9
    <3>2. CASE i # 0
      <4>1. i \in 1 .. n /\ i - 1 \in 0 .. n
        BY <1>2, <3>2
      <4>2. f[i - 1] \in Kept(i - 1)
        BY <4>1, <1>5, <1>10
      <4>3. f[i] = step[<<f[i - 1], i>>]
        BY <3>2, <1>9
      <4>. QED BY <3>2, <4>1, <4>2, <4>3, <1>6
    <3>. QED BY <3>1, <3>2
  <2>2. DOMAIN f = 0 .. n /\ f = [i \in 0 .. n |-> f[i]]
    BY <1>9
  <2>. QED BY <2>1, <2>2
<1>. DEFINE copied == CHOOSE g : g = [i \in 0 .. n |-> IF i = 0 THEN fresh ELSE CopyStoredEntry(g[i - 1], d.entries[i])]
<1>12. copied = [i \in 0 .. n |-> IF i = 0 THEN fresh ELSE CopyStoredEntry(copied[i - 1], d.entries[i])]
  BY <1>11
<1>13. CopyOf(d) = copied[n]
  BY DEF CopyOf, fresh
<1>. HIDE DEF copied
<1>14. copied[n] \in Kept(n)
  <2>. DEFINE M == [i \in 0 .. n |-> copied[i] \in Kept(i)]
  <2>1. M[0]
    <3>1. 0 \in 0 .. n
      BY <1>2
    <3>2. copied[0] = fresh
      BY <3>1, <1>12
    <3>. QED BY <3>1, <3>2, <1>3
  <2>2. \A i \in 1 .. n : M[i - 1] => M[i]
    <3>1. ASSUME NEW i \in 1 .. n, M[i - 1] PROVE M[i]
      <4>1. i \in 0 .. n /\ i - 1 \in 0 .. n /\ i # 0
        BY <1>2
      <4>2. copied[i] = CopyStoredEntry(copied[i - 1], d.entries[i])
        BY <4>1, <1>12
      <4>3. copied[i - 1] \in Kept(i - 1)
        BY <3>1, <4>1
      <4>. QED BY <4>1, <4>2, <4>3, <1>4
    <3>. QED BY <3>1
  <2>. HIDE DEF M
  <2>3. \A i \in 0 .. n : M[i]
    BY <2>1, <2>2, <1>2, UpTo
  <2>4. n \in 0 .. n
    BY <1>2
  <2>5. M[n]
    BY <2>3, <2>4
  <2>. QED BY <2>4, <2>5 DEF M
<1>15. Upper(d, n) = Entries(d)
  BY <1>1, UpperIs
<1>. QED BY <1>13, <1>14, <1>15 DEF Kept, Stored

\* One pair of a display is inserted.
LEMMA InsertPairOK ==
  ASSUME NEW d, DictOK(d), NEW k \in Keys
  PROVE  DictOK(InsertPair(d, k)) /\ (Fits(d, 1) => Fits(InsertPair(d, k), 1))
<1>. DEFINE e == [key |-> k, value |-> Initial, hash |-> HashOf[k]]
            r == IF k \in StrKeys THEN d ELSE MaybePromote(d)
<1>1. DictOK(r) /\ (Fits(d, 1) => Fits(r, 1))
  BY PromoteOK DEF MaybePromote, Fits
<1>2. e \in StoredEntries /\ e.hash = HashOf[e.key]
  BY DictConstants DEF StoredEntries
<1>3. InsertPair(d, k) = CopyStoredEntry(r, e)
  BY DEF InsertPair
<1>. HIDE DEF e, r
<1>. QED BY <1>1, <1>2, <1>3, CopyStoredOK

\* The dictionary a display makes.
LEMMA CreatedOK ==
  ASSUME program \in Programs
  PROVE  Built(Created)
<1>. DEFINE display == program.display
            n == Len(display)
            P == [i \in 0 .. n |-> {x \in DictRecords : Built(x)}]
            step == [y \in DictRecords \X (1 .. n) |-> InsertPair(y[1], display[y[2]])]
<1>1. n \in Nat /\ \A i \in 1 .. n : display[i] \in Keys
  <2>1. program.display \in Seq(Keys)
    BY ProgramsAssumption, Zenon
  <2>. HIDE DEF display
  <2>2. display \in Seq(Keys)
    BY <2>1 DEF display
  <2>. QED BY <2>2
<1>. HIDE DEF display
<1>2. \A x : Built(x) => x \in DictRecords
  BY DEF Built, DictOK, DictTyped
<1>3. Built(EmptyDict)
  BY EmptyOK DEF Built
<1>4. \A i \in 1 .. n : \A x \in P[i - 1] : step[<<x, i>>] \in P[i] /\ step[<<x, i>>] = InsertPair(x, display[i])
  <2>1. ASSUME NEW i \in 1 .. n, NEW x \in P[i - 1]
        PROVE  step[<<x, i>>] \in P[i] /\ step[<<x, i>>] = InsertPair(x, display[i])
    <3>1. i \in 0 .. n /\ i - 1 \in 0 .. n
      BY <1>1
    <3>2. x \in DictRecords /\ Built(x)
      BY <3>1
    <3>3. Built(InsertPair(x, display[i]))
      BY <1>1, <3>2, InsertPairOK DEF Built
    <3>4. step[<<x, i>>] = InsertPair(x, display[i])
      BY <3>2
    <3>. QED BY <1>2, <3>1, <3>3, <3>4
  <2>. QED BY <2>1
<1>5. EmptyDict \in P[0] /\ \A i \in 0 .. n : \A x \in P[i] : Built(x)
  BY <1>1, <1>2, <1>3
<1>. HIDE DEF P, step
<1>6. PICK f : f = [i \in 0 .. n |-> IF i = 0 THEN EmptyDict ELSE step[<<f[i - 1], i>>]]
  <2>1. \A i \in 1 .. n : \A x \in P[i - 1] : step[<<x, i>>] \in P[i]
    BY <1>4
  <2>2. \E f : Recursion(f, n, EmptyDict, step)
    BY <1>1, <1>5, <2>1, RecursionExists
  <2>. QED BY <2>2 DEF Recursion
<1>7. \A i \in 0 .. n : f[i] \in P[i]
  <2>. DEFINE Q == [i \in 0 .. n |-> f[i] \in P[i]]
  <2>1. Q[0]
    <3>1. 0 \in 0 .. n
      BY <1>1
    <3>2. f[0] = EmptyDict
      BY <3>1, <1>6
    <3>. QED BY <3>1, <3>2, <1>5
  <2>2. \A i \in 1 .. n : Q[i - 1] => Q[i]
    <3>1. ASSUME NEW i \in 1 .. n, Q[i - 1] PROVE Q[i]
      <4>1. i \in 0 .. n /\ i - 1 \in 0 .. n /\ i # 0
        BY <1>1
      <4>2. f[i] = step[<<f[i - 1], i>>]
        BY <4>1, <1>6
      <4>3. f[i - 1] \in P[i - 1]
        BY <3>1, <4>1
      <4>. QED BY <4>1, <4>2, <4>3, <1>4
    <3>. QED BY <3>1
  <2>. HIDE DEF Q
  <2>3. \A i \in 0 .. n : Q[i]
    BY <2>1, <2>2, <1>1, UpTo
  <2>. QED BY <2>3 DEF Q
<1>8. f = [i \in 0 .. n |-> IF i = 0 THEN EmptyDict ELSE InsertPair(f[i - 1], display[i])]
  <2>1. ASSUME NEW i \in 0 .. n
        PROVE  f[i] = IF i = 0 THEN EmptyDict ELSE InsertPair(f[i - 1], display[i])
    <3>1. CASE i = 0
      BY <3>1, <1>6
    <3>2. CASE i # 0
      <4>1. i \in 1 .. n /\ i - 1 \in 0 .. n
        BY <1>1, <3>2
      <4>2. f[i - 1] \in P[i - 1]
        BY <4>1, <1>7
      <4>3. f[i] = step[<<f[i - 1], i>>]
        BY <3>2, <1>6
      <4>. QED BY <3>2, <4>1, <4>2, <4>3, <1>4
    <3>. QED BY <3>1, <3>2
  <2>2. DOMAIN f = 0 .. n /\ f = [i \in 0 .. n |-> f[i]]
    BY <1>6
  <2>. QED BY <2>1, <2>2
<1>. DEFINE made == CHOOSE g : g = [i \in 0 .. n |-> IF i = 0 THEN EmptyDict ELSE InsertPair(g[i - 1], display[i])]
<1>9. made = [i \in 0 .. n |-> IF i = 0 THEN EmptyDict ELSE InsertPair(made[i - 1], display[i])]
  BY <1>8
<1>10. Created = made[n]
  BY DEF Created, display
<1>. HIDE DEF made
<1>11. Built(made[n])
  <2>. DEFINE M == [i \in 0 .. n |-> Built(made[i])]
  <2>1. M[0]
    <3>1. 0 \in 0 .. n
      BY <1>1
    <3>2. made[0] = EmptyDict
      BY <3>1, <1>9
    <3>. QED BY <3>1, <3>2, <1>3
  <2>2. \A i \in 1 .. n : M[i - 1] => M[i]
    <3>1. ASSUME NEW i \in 1 .. n, M[i - 1] PROVE M[i]
      <4>1. i \in 0 .. n /\ i - 1 \in 0 .. n /\ i # 0
        BY <1>1
      <4>2. made[i] = InsertPair(made[i - 1], display[i])
        BY <4>1, <1>9
      <4>3. Built(made[i - 1])
        BY <3>1, <4>1
      <4>. QED BY <4>1, <4>2, <4>3, <1>1, InsertPairOK DEF Built
    <3>. QED BY <3>1
  <2>. HIDE DEF M
  <2>3. \A i \in 0 .. n : M[i]
    BY <2>1, <2>2, <1>1, UpTo
  <2>. QED BY <2>3, <1>1 DEF M
<1>. QED BY <1>10, <1>11
-----------------------------------------------------------------------------
(* The mapping of each class of keys follows the stored entries.           *)
LEMMA PresentIs ==
  ASSUME NEW d, NEW key
  PROVE  PresentIn(d, key) <=> \E e \in Stored(d) : ClassOf[e.key] = ClassOf[key]
  BY DEF PresentIn, Stored, Entries

\* The value of a key, in terms of the stored entries.
LEMMA ValueIs ==
  ASSUME NEW d, NEW c
  PROVE  ValueOf(d, c) = {e.value : e \in {x \in Stored(d) : ClassOf[x.key] = c}}
  BY DEF ValueOf, Stored

\* Stored entries are entries.
LEMMA StoredTyped ==
  ASSUME NEW d, DictOK(d)
  PROVE  Stored(d) \subseteq StoredEntries
<1>1. DictTyped(d)
  BY DEF DictOK
<1>2. \A p \in Entries(d) : d.entries[p] \in StoredEntries
  BY <1>1, TypedIs
<1>. QED BY <1>2 DEF Stored

\* What is the same outside C has the same values outside C.
LEMMA SameValues ==
  ASSUME NEW d, DictOK(d), NEW w, DictOK(w), NEW C, SameOutside(d, w, C), NEW c, c \notin C
  PROVE  ValueOf(w, c) = ValueOf(d, c)
<1>1. Stored(d) \subseteq StoredEntries /\ Stored(w) \subseteq StoredEntries
  BY StoredTyped
<1>2. {x \in Stored(w) : ClassOf[x.key] = c} = {x \in Stored(d) : ClassOf[x.key] = c}
  BY <1>1 DEF SameOutside
<1>. QED BY <1>2, ValueIs

\* The mapping depends on the stored entries only.
LEMMA SameStored ==
  ASSUME NEW d, NEW w, Stored(w) = Stored(d)
  PROVE  /\ \A c : ValueOf(w, c) = ValueOf(d, c)
         /\ \A key : PresentIn(w, key) <=> PresentIn(d, key)
         /\ \A C : SameOutside(d, w, C)
<1>1. ASSUME NEW c PROVE ValueOf(w, c) = ValueOf(d, c)
  BY ValueIs
<1>2. ASSUME NEW key PROVE PresentIn(w, key) <=> PresentIn(d, key)
  BY PresentIs
<1>3. ASSUME NEW C PROVE SameOutside(d, w, C)
  BY DEF SameOutside
<1>. QED BY <1>1, <1>2, <1>3

\* The slots that hold an entry of the key's class.
Holding(d, key) == {s \in Slots(d) : d.table[s] > 0 /\ ClassOf[KeyAt(d, s)] = ClassOf[key]}

\* The slots that hold a key are reached from the slot its hash selects.
LEMMA HoldingIs ==
  ASSUME NEW d, DictOK(d), NEW key \in Keys
  PROVE  /\ PresentIn(d, key) <=> Holding(d, key) # {}
         /\ \A s \in Holding(d, key) :
              /\ s \in Slots(d) /\ d.table[s] \in Entries(d) /\ KeyAt(d, s) \in Keys
              /\ d.entries[d.table[s]].hash = HashOf[key]
              /\ Reaches(d, Start(d, key), s)
<1>1. DictTyped(d)
  BY DEF DictOK
<1>2. /\ Entries(d) \subseteq 1 .. Len(d.entries) /\ DOMAIN d.entries = 1 .. Len(d.entries)
      /\ \A p \in Entries(d) : d.entries[p] \in StoredEntries /\ d.entries[p].key \in Keys
      /\ Len(d.entries) \in Nat
  BY <1>1, TypedIs
<1>3. ASSUME NEW s \in Holding(d, key)
      PROVE  /\ s \in Slots(d) /\ d.table[s] \in Entries(d) /\ KeyAt(d, s) \in Keys
             /\ d.entries[d.table[s]].hash = HashOf[key]
             /\ Reaches(d, Start(d, key), s)
  <2>1. s \in Slots(d) /\ d.table[s] > 0 /\ ClassOf[KeyAt(d, s)] = ClassOf[key]
    BY DEF Holding
  <2>2. d.table[s] \in Entries(d)
    BY <2>1 DEF DictOK, Indexed, NotPresent, Tombstone
  <2>3. KeyAt(d, s) \in Keys
    BY <2>2, <1>2 DEF KeyAt
  <2>4. HashOf[KeyAt(d, s)] = HashOf[key]
    BY <2>1, <2>3, DictConstants
  <2>5. d.entries[d.table[s]].hash = HashOf[key]
    BY <2>2, <2>4 DEF DictOK, EntriesHashed, KeyAt
  <2>6. Reaches(d, Start(d, KeyAt(d, s)), s)
    BY <2>1 DEF DictOK, EntriesReached
  <2>7. Start(d, KeyAt(d, s)) = Start(d, key)
    BY <2>4 DEF Start
  <2>. QED BY <2>1, <2>2, <2>3, <2>5, <2>6, <2>7
<1>4. ASSUME PresentIn(d, key) PROVE Holding(d, key) # {}
  <2>1. PICK p \in Entries(d) : ClassOf[d.entries[p].key] = ClassOf[key]
    BY <1>4 DEF PresentIn, Entries
  <2>2. PICK s \in Slots(d) : d.table[s] = p
    BY DEF DictOK, Indexed
  <2>3. d.table[s] > 0 /\ KeyAt(d, s) = d.entries[p].key
    BY <2>2, <1>2 DEF KeyAt
  <2>. QED BY <2>1, <2>3 DEF Holding
<1>5. ASSUME Holding(d, key) # {} PROVE PresentIn(d, key)
  <2>1. PICK s \in Holding(d, key) : TRUE
    BY <1>5
  <2>2. d.table[s] \in Entries(d) /\ ClassOf[KeyAt(d, s)] = ClassOf[key]
    BY <2>1, <1>3 DEF Holding
  <2>. QED BY <2>2 DEF PresentIn, Entries, KeyAt
<1>. QED BY <1>3, <1>4, <1>5

(* An empty slot at which a probe from the key's own slot may stop.        *)
LEMMA NearestEmpty ==
  ASSUME NEW d, DictTyped(d), NEW i \in Slots(d), NEW s \in Slots(d),
         \A t \in Slots(d) : d.table[t] = NotPresent => Distance(d.n, i, s) <= Distance(d.n, i, t)
  PROVE  Reaches(d, i, s)
<1>1. d.n \in Nat \ {0}
  BY TypedIs
<1>2. ASSUME NEW t \in Slots(d), d.table[t] = NotPresent, t # s
      PROVE  Distance(d.n, i, s) < Distance(d.n, i, t)
  <2>1. /\ Distance(d.n, i, s) \in 0 .. d.n - 1 /\ Distance(d.n, i, t) \in 0 .. d.n - 1
        /\ Distance(d.n, i, s) = Distance(d.n, i, t) => s = t
    BY <1>1, Distances, ZenonT(60) DEF Slots
  <2>. QED BY <2>1, <1>2
<1>. QED BY <1>2 DEF Reaches

(* What is nearest from i is nearest from a slot that meets i first.       *)
LEMMA Around ==
  ASSUME NEW d, d.n \in Nat \ {0}, NEW j \in Slots(d), NEW i \in Slots(d), NEW s \in Slots(d), NEW t \in Slots(d),
         Distance(d.n, i, s) <= Distance(d.n, i, t), Distance(d.n, j, i) <= Distance(d.n, j, t)
  PROVE  Distance(d.n, j, s) <= Distance(d.n, j, t)
<1>1. Distance(d.n, j, s) <= Distance(d.n, j, i) + Distance(d.n, i, s)
  BY Detour DEF Slots
<1>2. Distance(d.n, j, t) = Distance(d.n, j, i) + Distance(d.n, i, t)
  BY Detour DEF Slots
<1>3. Distance(d.n, j, s) \in Nat /\ Distance(d.n, i, s) \in Nat
  BY DistanceIn DEF Slots
<1>4. Distance(d.n, j, t) \in Nat /\ Distance(d.n, i, t) \in Nat /\ Distance(d.n, j, i) \in Nat
  BY DistanceIn DEF Slots
<1>. QED BY <1>1, <1>2, <1>3, <1>4
-----------------------------------------------------------------------------
(* The operations on str keys, which run no user code.                     *)
\* Where find_entry ends: at the key's entry, or where a new one may go.
Found(d, key, s) ==
  /\ s \in Slots(d)
  /\ d.table[s] > 0 => s \in Holding(d, key)
  /\ ~(d.table[s] > 0) =>
       /\ d.table[s] \in {NotPresent, Tombstone}
       /\ Reaches(d, Start(d, key), s) /\ ~PresentIn(d, key)

\* A probe for a string finds it, or its key is absent.
LEMMA FindEntryOK ==
  ASSUME NEW d, DictOK(d), d.shape = "string", NEW key \in Keys
  PROVE  Found(d, key, FindEntry(d, key))
<1>. DEFINE start == HashOf[key] % d.n
            stops == {s \in DOMAIN d.table :
                        \/ d.table[s] = NotPresent
                        \/ /\ d.table[s] > 0
                           /\ ClassOf[d.entries[d.table[s]].key] = ClassOf[key]}
            stop == FirstFrom(stops, d.n, start)
            tombs == {s \in SlotsWith(d, Tombstone) :
                        Distance(d.n, start, s) < Distance(d.n, start, stop)}
<1>1. DictTyped(d)
  BY DEF DictOK
<1>2. /\ d.n \in Nat \ {0} /\ d.n > 4 /\ start \in Slots(d) /\ DOMAIN d.table = Slots(d)
      /\ Len(d.entries) \in Nat /\ start = Start(d, key)
  <2>1. start = Start(d, key)
    BY DEF Start
  <2>. QED BY <1>1, <2>1, TypedIs DEF DictTyped
<1>3. Len(d.entries) < d.n
  BY <1>2 DEF DictOK, RoomKept
<1>4. PICK free \in Slots(d) : d.table[free] = NotPresent
  BY <1>3, FreeSlot
<1>5. stops \in SUBSET Slots(d) /\ stops # {}
  BY <1>2, <1>4
<1>6. FindEntry(d, key) = IF d.table[stop] > 0 \/ tombs = {} THEN stop ELSE FirstFrom(tombs, d.n, start)
  BY DEF FindEntry
<1>7. \A s \in Slots(d) : s \in stops <=> d.table[s] = NotPresent \/ s \in Holding(d, key)
  BY <1>2 DEF Holding, KeyAt
<1>. HIDE DEF start, stops
<1>8. stop \in stops /\ \A t \in stops : Distance(d.n, start, stop) <= Distance(d.n, start, t)
  BY <1>2, <1>5, FirstIs DEF Slots
<1>9. tombs \in SUBSET Slots(d)
  BY <1>2 DEF SlotsWith
<1>. HIDE DEF stop
<1>10. stop \in Slots(d)
  BY <1>5, <1>8
<1>11. CASE d.table[stop] > 0
  <2>1. stop \in Holding(d, key)
    BY <1>7, <1>8, <1>10, <1>11 DEF NotPresent
  <2>. QED BY <1>6, <1>10, <1>11, <2>1 DEF Found
<1>12. CASE ~(d.table[stop] > 0)
  <2>1. d.table[stop] = NotPresent
    BY <1>7, <1>8, <1>10, <1>12 DEF Holding
  <2>2. \A t \in Slots(d) : d.table[t] = NotPresent => Distance(d.n, start, stop) <= Distance(d.n, start, t)
    BY <1>7, <1>8
  <2>3. Reaches(d, start, stop)
    BY <1>1, <1>2, <1>10, <2>2, NearestEmpty
  <2>4. ~PresentIn(d, key)
    <3>1. SUFFICES ASSUME NEW s \in Holding(d, key) PROVE FALSE
      BY HoldingIs
    <3>2. s \in Slots(d) /\ Reaches(d, start, s) /\ s # stop
      BY <1>2, <1>12, HoldingIs DEF Holding
    <3>3. Distance(d.n, start, s) < Distance(d.n, start, stop)
      BY <1>10, <2>1, <3>2 DEF Reaches
    <3>4. Distance(d.n, start, stop) <= Distance(d.n, start, s)
      BY <1>7, <1>8, <3>2
    <3>5. Distance(d.n, start, s) \in Nat
      BY <1>2, <3>2, DistanceIn DEF Slots
    <3>6. Distance(d.n, start, stop) \in Nat
      BY <1>2, <1>10, DistanceIn DEF Slots
    <3>. QED BY <3>3, <3>4, <3>5, <3>6
  <2>5. CASE tombs = {}
    BY <1>2, <1>6, <1>10, <1>12, <2>1, <2>3, <2>4, <2>5 DEF Found
  <2>6. CASE tombs # {}
    <3>. DEFINE s == FirstFrom(tombs, d.n, start)
    <3>1. s \in tombs
      BY <1>2, <1>9, <2>6, FirstIs DEF Slots
    <3>2. FindEntry(d, key) = s
      BY <1>6, <1>12, <2>6
    <3>. HIDE DEF s
    <3>3. s \in Slots(d) /\ d.table[s] = Tombstone /\ Distance(d.n, start, s) < Distance(d.n, start, stop)
      BY <1>2, <3>1 DEF SlotsWith
    <3>4. \A t \in Slots(d) : d.table[t] = NotPresent => Distance(d.n, start, s) <= Distance(d.n, start, t)
      <4>1. ASSUME NEW t \in Slots(d), d.table[t] = NotPresent
            PROVE  Distance(d.n, start, s) <= Distance(d.n, start, t)
        <5>1. Distance(d.n, start, stop) <= Distance(d.n, start, t)
          BY <2>2, <4>1
        <5>2. /\ Distance(d.n, start, s) \in Nat /\ Distance(d.n, start, stop) \in Nat
              /\ Distance(d.n, start, t) \in Nat
          BY <1>2, <1>10, <3>3, Distances, SMTT(40) DEF Slots
        <5>. QED BY <3>3, <5>1, <5>2
      <4>. QED BY <4>1
    <3>5. Reaches(d, start, s)
      BY <1>1, <1>2, <3>3, <3>4, NearestEmpty
    <3>6. ~(d.table[s] > 0)
      BY <3>3 DEF Tombstone
    <3>. QED BY <1>2, <2>4, <3>2, <3>3, <3>5, <3>6 DEF Found
  <2>. QED BY <2>5, <2>6
<1>. QED BY <1>11, <1>12

\* An insertion into a string-keyed dictionary.
LEMMA StringKeyedInsertOK ==
  ASSUME NEW d, DictOK(d), d.shape = "string", NEW key \in Keys, NEW value \in Values \cup {Initial}
  PROVE  LET w == StringKeyedInsert(d, key, value)
         IN  DictOK(w) /\ w.shape = "string" /\ SameOutside(d, w, {ClassOf[key]}) /\ w.n >= d.n
<1>. DEFINE r == ResizeIfNeeded(d)
            s == FindEntry(r, key)
<1>1. /\ DictOK(r) /\ r.shape = "string" /\ Stored(r) = Stored(d) /\ WithinLimit(r) /\ r.n >= d.n
  BY ResizeOK
<1>2. StringKeyedInsert(d, key, value) = IF r.table[s] > 0 THEN WriteExisting(r, r.table[s], value)
                                         ELSE WriteNewAtSlot(r, s, key, value)
  BY DEF StringKeyedInsert
<1>. HIDE DEF r
<1>3. Found(r, key, s)
  BY <1>1, FindEntryOK
<1>. HIDE DEF s
<1>4. CASE r.table[s] > 0
  <2>. DEFINE w == WriteExisting(r, r.table[s], value)
  <2>1. s \in Holding(r, key)
    BY <1>3, <1>4, SMTT(40) DEF Found
  <2>2. r.table[s] \in Entries(r) /\ ClassOf[r.entries[r.table[s]].key] = ClassOf[key]
    BY <1>1, <2>1, HoldingIs DEF Holding, KeyAt
  <2>3. DictOK(w) /\ w.shape = r.shape /\ w.n = r.n /\ SameOutside(r, w, {ClassOf[r.entries[r.table[s]].key]})
    BY <1>1, <2>2, WriteExistingOK
  <2>. HIDE DEF w
  <2>4. SameOutside(d, w, {ClassOf[key]})
    BY <1>1, <2>2, <2>3 DEF SameOutside
  <2>. QED BY <1>1, <1>2, <1>4, <2>3, <2>4 DEF w
<1>5. CASE ~(r.table[s] > 0)
  <2>. DEFINE w == WriteNewAtSlot(r, s, key, value)
  <2>1. s \in Slots(r) /\ r.table[s] \in {NotPresent, Tombstone} /\ Reaches(r, Start(r, key), s)
    BY <1>3, <1>5 DEF Found
  <2>2. Written(r, w, key, value)
    BY <1>1, <2>1, WriteNewOK
  <2>3. Placed(key, value).key = key
    BY PlacedIs
  <2>. HIDE DEF w
  <2>4. SameOutside(d, w, {ClassOf[key]})
    BY <1>1, <2>2, <2>3 DEF Written, SameOutside
  <2>. QED BY <1>1, <1>2, <1>5, <2>2, <2>4 DEF w, Written
<1>. QED BY <1>4, <1>5

\* Every operation of the string shape.
LEMMA StringKeyedOK ==
  ASSUME NEW d, DictOK(d), d.shape = "string", NEW key \in Keys, NEW value \in Values, NEW op \in Ops
  PROVE  LET w == StringKeyed(d, op, key, value)
         IN  /\ DictOK(w) /\ w.shape = "string" /\ SameOutside(d, w, {ClassOf[key]}) /\ w.n >= d.n
             /\ ~(d.table[FindEntry(d, key)] > 0) => ~PresentIn(d, key)
<1>. DEFINE s == FindEntry(d, key)
<1>1. Found(d, key, s)
  BY FindEntryOK
<1>2. ~(d.table[s] > 0) => ~PresentIn(d, key)
  BY <1>1 DEF Found
<1>3. SameOutside(d, d, {ClassOf[key]}) /\ d.n \in Nat
  BY TypedIs DEF SameOutside, DictOK
<1>4. CASE op = "set" \/ (op = "setdefault" /\ ~(d.table[s] > 0))
  <2>1. StringKeyed(d, op, key, value) = StringKeyedInsert(d, key, value)
    BY <1>4 DEF StringKeyed
  <2>. QED BY <1>2, <2>1, StringKeyedInsertOK
<1>5. CASE op \in {"del", "pop"} /\ d.table[s] > 0
  <2>1. StringKeyed(d, op, key, value) = DeleteEntryAtSlot(d, s)
    BY <1>5 DEF StringKeyed
  <2>2. s \in Slots(d) /\ ClassOf[KeyAt(d, s)] = ClassOf[key]
    BY <1>1, <1>5 DEF Found, Holding
  <2>. HIDE DEF s
  <2>3. LET w == DeleteEntryAtSlot(d, s)
        IN  DictOK(w) /\ w.shape = d.shape /\ SameOutside(d, w, {ClassOf[KeyAt(d, s)]}) /\ w.n = d.n
    BY <1>5, <2>2, DeleteOK
  <2>4. {ClassOf[KeyAt(d, s)]} = {ClassOf[key]}
    BY <2>2
  <2>. QED BY <1>2, <1>3, <2>1, <2>3, <2>4 DEF s
<1>6. CASE \/ op = "get" \/ (op = "setdefault" /\ d.table[s] > 0)
           \/ op \in {"del", "pop"} /\ ~(d.table[s] > 0)
  <2>1. StringKeyed(d, op, key, value) = d
    BY <1>6 DEF StringKeyed
  <2>. QED BY <1>2, <1>3, <2>1
<1>. QED BY <1>4, <1>5, <1>6 DEF Ops
-----------------------------------------------------------------------------
(* Probing for any key.                                                    *)
FrameRecords ==
  [op : Ops, key : Keys, value : Values, native : BOOLEAN,
   pc : {"hash", "eq", "looping", "hit", "miss"}, idx : Nat, cand : Int,
   candKey : Keys \cup {NoKey}, gen : Nat, tomb : Int]

\* What a probe knows when it goes on from slot i: no empty slot is behind it
\* and, unless the key is known to have been absent, no slot that holds it.
Ahead(d, key, i, flag) ==
  /\ i \in Slots(d)
  /\ \A t \in Slots(d) : d.table[t] = NotPresent => Distance(d.n, Start(d, key), i) <= Distance(d.n, Start(d, key), t)
  /\ ~flag => \A s \in Holding(d, key) : Distance(d.n, Start(d, key), i) <= Distance(d.n, Start(d, key), s)

\* The tombstone remembered for an insertion.
Remembered(d, key, tomb) ==
  tomb \in Int /\ (tomb # -1 => tomb \in Slots(d) /\ Reaches(d, Start(d, key), tomb))

\* What a call that waits for __eq__ knows while the generation is its own.
FrameOK(d, f, flag) ==
  /\ f.gen <= d.gen
  /\ f.pc = "eq" /\ f.gen = d.gen => Ahead(d, f.key, f.idx, flag) /\ Remembered(d, f.key, f.tomb)

\* Where a probe of f has stopped.
Stopped(d, f, g, flag) ==
  /\ g \in FrameRecords /\ g.op = f.op /\ g.key = f.key /\ g.value = f.value /\ g.native = f.native
  /\ g.pc \in {"looping", "hit", "miss", "eq"}
  /\ g.pc \in {"eq", "looping"} => FrameOK(d, g, flag)
  /\ g.pc = "hit" => /\ g.idx \in Holding(d, g.key) /\ g.cand = d.table[g.idx]
  /\ g.pc = "miss" => /\ flag /\ g.idx \in Slots(d) /\ d.table[g.idx] = NotPresent
                      /\ Reaches(d, Start(d, g.key), g.idx) /\ Remembered(d, g.key, g.tomb)

(* From the slot its hash selects, everything is ahead.                    *)
LEMMA StartAhead ==
  ASSUME NEW d, DictOK(d), NEW key \in Keys, NEW flag
  PROVE  Ahead(d, key, Start(d, key), flag) /\ Remembered(d, key, -1)
<1>. DEFINE i == Start(d, key)
<1>1. DictTyped(d)
  BY DEF DictOK
<1>2. d.n \in Nat \ {0} /\ i \in Slots(d)
  BY <1>1, TypedIs
<1>. HIDE DEF i
<1>3. Distance(d.n, i, i) = 0
  BY <1>2, Distances DEF Slots
<1>4. ASSUME NEW t \in Slots(d) PROVE Distance(d.n, i, i) <= Distance(d.n, i, t)
  <2>1. Distance(d.n, i, t) \in Nat
    BY <1>2, DistanceIn DEF Slots
  <2>. QED BY <1>3, <2>1
<1>5. Ahead(d, key, i, flag)
  BY <1>2, <1>4 DEF Ahead, Holding, i
<1>. QED BY <1>5 DEF i, Remembered

(* The slot after a candidate that was not equal.                          *)
LEMMA NextAhead ==
  ASSUME NEW d, DictOK(d), NEW key \in Keys, NEW flag, NEW j, Ahead(d, key, j, flag),
         d.table[j] > 0, j \notin Holding(d, key)
  PROVE  Ahead(d, key, (j + 1) % d.n, flag)
<1>. DEFINE i == Start(d, key)
            m == (j + 1) % d.n
<1>1. DictTyped(d)
  BY DEF DictOK
<1>2. d.n \in Nat \ {0} /\ i \in Slots(d) /\ j \in Slots(d)
  BY <1>1, TypedIs DEF Ahead
<1>3. m \in Slots(d) /\ \A s \in Slots(d) : Distance(d.n, i, j) < Distance(d.n, i, s) =>
                                              Distance(d.n, i, m) <= Distance(d.n, i, s)
  BY <1>2, NextSlot DEF Slots
<1>. HIDE DEF m
<1>4. ASSUME NEW s \in Slots(d), s # j, Distance(d.n, i, j) <= Distance(d.n, i, s)
      PROVE  Distance(d.n, i, m) <= Distance(d.n, i, s)
  <2>1. /\ Distance(d.n, i, j) \in 0 .. d.n - 1 /\ Distance(d.n, i, s) \in 0 .. d.n - 1
        /\ Distance(d.n, i, j) = Distance(d.n, i, s) => j = s
    <3>. HIDE DEF i
    <3>. QED BY <1>2, Distances DEF Slots
  <2>2. Distance(d.n, i, j) < Distance(d.n, i, s)
    BY <1>4, <2>1
  <2>. QED BY <1>3, <2>2
<1>5. \A t \in Slots(d) : d.table[t] = NotPresent => Distance(d.n, i, m) <= Distance(d.n, i, t)
  BY <1>4 DEF Ahead, NotPresent
<1>6. ~flag => \A s \in Holding(d, key) : Distance(d.n, i, m) <= Distance(d.n, i, s)
  <2>1. ASSUME ~flag, NEW s \in Holding(d, key)
        PROVE  Distance(d.n, i, m) <= Distance(d.n, i, s)
    <3>1. s \in Slots(d) /\ s # j
      BY DEF Holding
    <3>2. Distance(d.n, i, j) <= Distance(d.n, i, s)
      BY <2>1 DEF Ahead
    <3>. QED BY <3>1, <3>2, <1>4
  <2>. QED BY <2>1
<1>. QED BY <1>3, <1>5, <1>6 DEF Ahead, m

\* A probe goes on to the next slot worth comparing, skipping nothing that counts.
LEMMA ProbeOK ==
  ASSUME NEW d, DictOK(d), NEW f \in FrameRecords, NEW i, NEW tomb, NEW flag \in BOOLEAN,
         f.gen <= d.gen, Ahead(d, f.key, i, flag), Remembered(d, f.key, tomb),
         ~PresentIn(d, f.key) => flag
  PROVE  Stopped(d, f, Probe(d, f, i, tomb), flag)
<1>. DEFINE stops == {s \in DOMAIN d.table :
                        \/ d.table[s] = NotPresent
                        \/ /\ d.table[s] > 0
                           /\ LET e == d.entries[d.table[s]]
                              IN  /\ e.hash = HashOf[f.key]
                                  /\ RunsUserCode(e.key, f.key) \/ ClassOf[e.key] = ClassOf[f.key]}
            stop == FirstFrom(stops, d.n, i)
            tombs == {s \in SlotsWith(d, Tombstone) :
                        Distance(d.n, i, s) < Distance(d.n, i, stop)}
            p == d.table[stop]
            candKey == IF p > 0 THEN d.entries[p].key ELSE NoKey
            kept == IF Inserts(f.op) /\ tomb = -1 /\ tombs # {} THEN FirstFrom(tombs, d.n, i) ELSE tomb
            pc == CASE p = NotPresent -> "miss"
                    [] p > 0 /\ (Identical(d, p, f.key) \/ ~RunsUserCode(d.entries[p].key, f.key)) -> "hit"
                    [] OTHER -> "eq"
            g == [f EXCEPT !.idx = stop, !.cand = p, !.gen = d.gen, !.candKey = candKey, !.tomb = kept, !.pc = pc]
            start == Start(d, f.key)
<1>1. DictTyped(d) /\ f.key \in Keys
  BY DEF DictOK, FrameRecords
<1>2. /\ d.n \in Nat \ {0} /\ d.gen \in Nat /\ DOMAIN d.table = Slots(d) /\ start \in Slots(d)
      /\ i \in Slots(d) /\ tomb \in Int
      /\ \A q \in Entries(d) : d.entries[q].key \in Keys
  BY <1>1, TypedIs DEF Ahead, Remembered
<1>3. Probe(d, f, i, tomb) = IF stops = {} THEN [f EXCEPT !.pc = "looping"] ELSE g
  BY DEF Probe
<1>4. CASE stops = {}
  <2>. DEFINE h == [f EXCEPT !.pc = "looping"]
  <2>1. /\ h \in FrameRecords /\ h.op = f.op /\ h.key = f.key /\ h.value = f.value
        /\ h.native = f.native /\ h.pc = "looping" /\ h.gen = f.gen
    BY SMTT(60) DEF FrameRecords
  <2>2. Probe(d, f, i, tomb) = h
    BY <1>3, <1>4, ZenonT(60)
  <2>. HIDE DEF h
  <2>. QED BY <2>1, <2>2 DEF Stopped, FrameOK
<1>5. CASE stops # {}
  <2>1. stops \in SUBSET Slots(d)
    BY <1>2
  <2>2. \A s \in Slots(d) : s \in stops =>
          d.table[s] = NotPresent \/ (d.table[s] > 0 /\ (RunsUserCode(d.entries[d.table[s]].key, f.key) \/ s \in Holding(d, f.key)))
    BY DEF Holding, KeyAt
  <2>3. \A s \in Slots(d) : d.table[s] = NotPresent => s \in stops
    BY <1>2
  <2>4. \A s \in Holding(d, f.key) : s \in stops
    <3>1. ASSUME NEW s \in Holding(d, f.key) PROVE s \in stops
      <4>1. s \in Slots(d) /\ d.table[s] > 0 /\ ClassOf[d.entries[d.table[s]].key] = ClassOf[f.key]
        BY DEF Holding, KeyAt
      <4>2. d.entries[d.table[s]].hash = HashOf[f.key]
        BY <1>1, HoldingIs
      <4>. QED BY <1>2, <4>1, <4>2
    <3>. QED BY <3>1
  <2>. HIDE DEF stops, start
  <2>5. stop \in stops /\ \A t \in stops : Distance(d.n, i, stop) <= Distance(d.n, i, t)
    BY <1>2, <1>5, <2>1, FirstIs DEF Slots
  <2>. HIDE DEF stop
  <2>6. stop \in Slots(d)
    BY <2>1, <2>5
  <2>7. ASSUME NEW t \in stops, Distance(d.n, start, i) <= Distance(d.n, start, t)
        PROVE  Distance(d.n, start, stop) <= Distance(d.n, start, t)
    <3>1. t \in Slots(d) /\ Distance(d.n, i, stop) <= Distance(d.n, i, t)
      BY <2>1, <2>5
    <3>. QED BY <1>2, <2>6, <2>7, <3>1, Around
  <2>8. \A t \in Slots(d) : d.table[t] = NotPresent => Distance(d.n, start, stop) <= Distance(d.n, start, t)
    BY <2>3, <2>7 DEF Ahead, start
  <2>9. ~flag => \A s \in Holding(d, f.key) : Distance(d.n, start, stop) <= Distance(d.n, start, s)
    BY <2>4, <2>7 DEF Ahead, start
  <2>10. Ahead(d, f.key, stop, flag)
    BY <2>6, <2>8, <2>9 DEF Ahead, start
  <2>11. Remembered(d, f.key, kept)
    <3>1. CASE Inserts(f.op) /\ tomb = -1 /\ tombs # {}
      <4>. DEFINE u == FirstFrom(tombs, d.n, i)
      <4>1. tombs \in SUBSET Slots(d)
        BY <1>2 DEF SlotsWith
      <4>2. u \in tombs
        BY <1>2, <3>1, <4>1, FirstIs DEF Slots
      <4>. HIDE DEF u
      <4>3. u \in Slots(d) /\ Distance(d.n, i, u) < Distance(d.n, i, stop)
        BY <4>1, <4>2
      <4>4. ASSUME NEW t \in Slots(d), d.table[t] = NotPresent
            PROVE  Distance(d.n, start, u) <= Distance(d.n, start, t)
        <5>1. Distance(d.n, i, stop) <= Distance(d.n, i, t) /\ Distance(d.n, start, i) <= Distance(d.n, start, t)
          BY <2>3, <2>5, <4>4 DEF Ahead, start
        <5>2. Distance(d.n, i, u) <= Distance(d.n, i, t)
          <6>1. /\ Distance(d.n, i, u) \in Nat /\ Distance(d.n, i, stop) \in Nat
                /\ Distance(d.n, i, t) \in Nat
            BY <1>2, <2>6, <4>3, DistanceIn DEF Slots
          <6>. QED BY <4>3, <5>1, <6>1
        <5>. QED BY <1>2, <4>3, <5>1, <5>2, Around
      <4>5. Reaches(d, start, u)
        BY <1>1, <1>2, <4>3, <4>4, NearestEmpty
      <4>6. kept = u /\ u \in Int
        BY <3>1, <4>3 DEF u, Slots
      <4>. QED BY <4>3, <4>5, <4>6 DEF Remembered, start
    <3>2. CASE ~(Inserts(f.op) /\ tomb = -1 /\ tombs # {})
      BY <3>2
    <3>. QED BY <3>1, <3>2
  <2>12. p \in Int /\ candKey \in Keys \cup {NoKey}
    <3>1. p \in {NotPresent, Tombstone} \cup Entries(d)
      BY <2>6 DEF DictOK, Indexed
    <3>2. p > 0 => p \in Entries(d)
      BY <3>1 DEF NotPresent, Tombstone
    <3>3. p \in Int
      BY <1>1, <2>6 DEF DictTyped
    <3>. QED BY <1>2, <3>2, <3>3
  <2>13. pc \in {"miss", "hit", "eq"}
    OBVIOUS
  <2>14. (pc = "miss" => p = NotPresent) /\ (pc = "hit" => stop \in Holding(d, f.key)) /\ (pc # "miss" => p > 0)
    <3>1. p = NotPresent => pc = "miss"
      BY DEF NotPresent
    <3>2. p > 0 /\ pc = "hit" => stop \in Holding(d, f.key)
      BY <2>2, <2>5, <2>6 DEF Identical, Holding, KeyAt, NotPresent
    <3>3. p = NotPresent \/ p > 0
      BY <2>2, <2>5, <2>6
    <3>4. p > 0 => pc # "miss"
      BY DEF NotPresent
    <3>. QED BY <3>1, <3>2, <3>3, <3>4
  <2>. HIDE DEF kept, pc, candKey
  <2>15. /\ g \in FrameRecords /\ g.op = f.op /\ g.key = f.key /\ g.value = f.value /\ g.native = f.native
         /\ g.pc = pc /\ g.idx = stop /\ g.cand = p /\ g.gen = d.gen /\ g.tomb = kept
    <3>1. kept \in Int /\ stop \in Nat
      BY <2>6, <2>11 DEF Remembered, Slots
    <3>. HIDE DEF p
    <3>. QED BY <1>2, <2>12, <2>13, <3>1 DEF FrameRecords
  <2>16. Probe(d, f, i, tomb) = g
    BY <1>3, <1>5
  <2>. HIDE DEF g
  <2>17. g.pc \in {"eq", "looping"} => FrameOK(d, g, flag)
    BY <1>2, <2>10, <2>11, <2>15 DEF FrameOK
  <2>18. g.pc = "hit" => g.idx \in Holding(d, g.key) /\ g.cand = d.table[g.idx]
    BY <2>14, <2>15
  <2>19. g.pc = "miss" => /\ flag /\ g.idx \in Slots(d) /\ d.table[g.idx] = NotPresent
                          /\ Reaches(d, Start(d, g.key), g.idx) /\ Remembered(d, g.key, g.tomb)
    <3>1. SUFFICES ASSUME g.pc = "miss"
                   PROVE  flag /\ d.table[stop] = NotPresent /\ Reaches(d, start, stop)
      BY <2>6, <2>11, <2>15 DEF start
    <3>2. d.table[stop] = NotPresent
      BY <2>14, <2>15, <3>1
    <3>3. Reaches(d, start, stop)
      BY <1>1, <1>2, <2>6, <2>8, NearestEmpty
    <3>4. ASSUME ~flag PROVE FALSE
      <4>1. PICK s \in Holding(d, f.key) : TRUE
        BY <1>1, <3>4, HoldingIs
      <4>2. s \in Slots(d) /\ Reaches(d, start, s) /\ s # stop
        BY <1>1, <3>2, <4>1, HoldingIs DEF Holding, start, NotPresent
      <4>3. Distance(d.n, start, s) < Distance(d.n, start, stop)
        BY <2>6, <3>2, <4>2 DEF Reaches
      <4>4. Distance(d.n, start, stop) <= Distance(d.n, start, s)
        BY <2>9, <3>4, <4>1
      <4>5. Distance(d.n, start, s) \in Nat
        BY <1>2, <4>2, DistanceIn DEF Slots
      <4>6. Distance(d.n, start, stop) \in Nat
        BY <1>2, <2>6, DistanceIn DEF Slots
      <4>. QED BY <4>3, <4>4, <4>5, <4>6
    <3>. QED BY <3>2, <3>3, <3>4
  <2>. QED BY <2>13, <2>15, <2>16, <2>17, <2>18, <2>19 DEF Stopped
<1>. QED BY <1>4, <1>5
-----------------------------------------------------------------------------
(* The invariant of the calls in progress.                                 *)
\* absent[i] is TRUE for an outer call when it is for an inner one of a key of
\* the same class: the inner call began later.
FramesOK(d, fs, flags) ==
  /\ fs \in Seq(FrameRecords) /\ flags \in [1 .. Len(fs) -> BOOLEAN]
  /\ fs # <<>> => d.shape = "general"
  /\ \A i \in 1 .. Len(fs) : FrameOK(d, fs[i], flags[i]) /\ (~PresentIn(d, fs[i].key) => flags[i])
  /\ \A i, j \in 1 .. Len(fs) : i < j /\ ClassOf[fs[i].key] = ClassOf[fs[j].key] /\ flags[j] => flags[i]

(* The calls that wait for __eq__ and may still append an entry without    *)
(* making room again.  As many calls as the depth allows can be in progress*)
(* and each adds one entry at most after it saw the table within its limit.*)
AddsLater(f) == f.pc = "eq" /\ Inserts(f.op)
Waiting(fs) == {i \in 1 .. Len(fs) : AddsLater(fs[i])}
MaxCalls(p) == IF p.depth = 0 THEN 1 ELSE p.depth

RoomOK(p, d, fs) ==
  /\ Len(fs) <= MaxCalls(p)
  /\ Fits(d, MaxCalls(p) - Cardinality(Waiting(fs)))

IteratorRecords == [index : Nat, expected : Int \cup {NoValue}]

DictInv ==
  /\ program \in Programs /\ calls \in Nat /\ raised \subseteq Iterators
  /\ DictOK(dict)
  /\ FramesOK(dict, frames, absent) /\ RoomOK(program, dict, frames)
  /\ iters \in [Iterators -> IteratorRecords]
  /\ \A i \in raised : iters[i].expected = -1
  /\ MissesJustified

(* What a waiting call knows survives a step that keeps the generation and *)
(* adds no entry of its key, unless the key was absent.                    *)
LEMMA FrameKept ==
  ASSUME NEW d, DictOK(d), NEW w, DictOK(w), NEW C, Follows(d, w, C),
         NEW f \in FrameRecords, NEW flag \in BOOLEAN, NEW later \in BOOLEAN,
         FrameOK(d, f, flag), flag => later, ClassOf[f.key] \in C => later
  PROVE  FrameOK(w, f, later)
<1>1. DictTyped(d) /\ DictTyped(w) /\ f.key \in Keys /\ f.gen \in Nat
  BY DEF DictOK, FrameRecords
<1>2. d.gen \in Nat /\ w.gen \in Nat
  BY <1>1, TypedIs
<1>3. f.gen <= w.gen
  BY <1>1, <1>2 DEF FrameOK, Follows
<1>4. ASSUME f.pc = "eq", f.gen = w.gen
      PROVE  Ahead(w, f.key, f.idx, later) /\ Remembered(w, f.key, f.tomb)
  <2>1. w.gen = d.gen /\ f.gen = d.gen
    BY <1>1, <1>2, <1>4 DEF FrameOK, Follows
  <2>2. /\ Ahead(d, f.key, f.idx, flag) /\ Remembered(d, f.key, f.tomb)
    BY <1>4, <2>1 DEF FrameOK
  <2>3. /\ w.n = d.n /\ Slots(w) = Slots(d) /\ Start(w, f.key) = Start(d, f.key)
        /\ \A t \in Slots(d) : w.table[t] = NotPresent => d.table[t] = NotPresent
    BY <2>1 DEF Follows, Slots, Start
  <2>4. Remembered(w, f.key, f.tomb)
    BY <2>2, <2>3 DEF Remembered, Reaches
  <2>5. ~later => Holding(w, f.key) \subseteq Holding(d, f.key)
    <3>1. ASSUME ~later, NEW s \in Holding(w, f.key) PROVE s \in Holding(d, f.key)
      <4>1. s \in Slots(d) /\ w.table[s] > 0 /\ ClassOf[KeyAt(w, s)] = ClassOf[f.key]
        BY <2>3 DEF Holding
      <4>2. w.table[s] = d.table[s] /\ KeyAt(w, s) = KeyAt(d, s)
        BY <2>1, <3>1, <4>1 DEF Follows
      <4>. QED BY <4>1, <4>2 DEF Holding
    <3>. QED BY <3>1
  <2>6. Ahead(w, f.key, f.idx, later)
    BY <2>2, <2>3, <2>5 DEF Ahead
  <2>. QED BY <2>4, <2>6
<1>. QED BY <1>3, <1>4 DEF FrameOK

(* Note makes the flags of the calls that are left.                        *)
LEMMA NoteOK ==
  ASSUME NEW w, NEW fs \in Seq(FrameRecords), NEW flags, NEW noted,
         noted = [i \in DOMAIN fs |-> flags[i] \/ ~PresentIn(w, fs[i].key)],
         fs # <<>> => w.shape = "general",
         \A i \in 1 .. Len(fs) : flags[i] \in BOOLEAN,
         \A i \in 1 .. Len(fs) : FrameOK(w, fs[i], flags[i] \/ ~PresentIn(w, fs[i].key)),
         \A i, j \in 1 .. Len(fs) : i < j /\ ClassOf[fs[i].key] = ClassOf[fs[j].key] /\ flags[j] => flags[i]
  PROVE  FramesOK(w, fs, noted)
<1>1. DOMAIN fs = 1 .. Len(fs)
  OBVIOUS
<1>2. \A i \in 1 .. Len(fs) : noted[i] = (flags[i] \/ ~PresentIn(w, fs[i].key))
  BY <1>1
<1>3. \A i \in 1 .. Len(fs) : noted[i] \in BOOLEAN
  <2>1. ASSUME NEW i \in 1 .. Len(fs) PROVE noted[i] \in BOOLEAN
    <3>1. (flags[i] \/ ~PresentIn(w, fs[i].key)) \in BOOLEAN
      OBVIOUS
    <3>2. noted[i] = (flags[i] \/ ~PresentIn(w, fs[i].key))
      BY <1>2
    <3>. QED BY <3>1, <3>2, Zenon
  <2>. QED BY <2>1
<1>4. noted \in [1 .. Len(fs) -> BOOLEAN]
  BY <1>1, <1>3, Zenon
<1>5. ASSUME NEW i \in 1 .. Len(fs)
      PROVE  FrameOK(w, fs[i], noted[i]) /\ (~PresentIn(w, fs[i].key) => noted[i])
  BY <1>2, Zenon
<1>6. ASSUME NEW i \in 1 .. Len(fs), NEW j \in 1 .. Len(fs), i < j,
             ClassOf[fs[i].key] = ClassOf[fs[j].key], noted[j]
      PROVE  noted[i]
  <2>1. PresentIn(w, fs[i].key) <=> PresentIn(w, fs[j].key)
    BY <1>6 DEF PresentIn
  <2>2. flags[j] => flags[i]
    BY <1>6
  <2>. QED BY <1>2, <1>6, <2>1, <2>2, Zenon
<1>. QED BY <1>4, <1>5, <1>6 DEF FramesOK

\* The calls in progress after a step that changes the dictionary to w: those
\* that go on waiting, their keys noted.
LEMMA WaitingOn ==
  ASSUME DictInv, NEW w, DictOK(w), NEW C, Follows(dict, w, C),
         frames # <<>> => w.shape = "general",
         \A i \in 1 .. Len(frames) : ClassOf[frames[i].key] \in C => absent[i]
  PROVE  \A i \in 1 .. Len(frames) :
           /\ absent[i] \in BOOLEAN /\ frames[i] \in FrameRecords
           /\ FrameOK(w, frames[i], absent[i] \/ ~PresentIn(w, frames[i].key))
<1>1. FramesOK(dict, frames, absent) /\ DictOK(dict)
  BY DEF DictInv
<1>2. SUFFICES ASSUME NEW i \in 1 .. Len(frames)
               PROVE  /\ absent[i] \in BOOLEAN /\ frames[i] \in FrameRecords
                      /\ FrameOK(w, frames[i], absent[i] \/ ~PresentIn(w, frames[i].key))
  OBVIOUS
<1>3. absent[i] \in BOOLEAN /\ frames[i] \in FrameRecords /\ FrameOK(dict, frames[i], absent[i])
  BY <1>1 DEF FramesOK
<1>. DEFINE later == absent[i] \/ ~PresentIn(w, frames[i].key)
<1>4. /\ later \in BOOLEAN /\ (absent[i] => later) /\ (ClassOf[frames[i].key] \in C => later)
  OBVIOUS
<1>. HIDE DEF later
<1>5. FrameOK(w, frames[i], later)
  BY <1>1, <1>3, <1>4, FrameKept
<1>. QED BY <1>3, <1>5 DEF later

\* A step that leaves the calls as they are.
LEMMA FramesStay ==
  ASSUME DictInv, NEW w, DictOK(w), Follows(dict, w, {}), frames # <<>> => w.shape = "general",
         NEW noted, noted = [i \in DOMAIN frames |-> absent[i] \/ ~PresentIn(w, frames[i].key)]
  PROVE  FramesOK(w, frames, noted)
<1>1. FramesOK(dict, frames, absent)
  BY DEF DictInv
<1>2. \A i \in 1 .. Len(frames) :
        /\ absent[i] \in BOOLEAN /\ frames[i] \in FrameRecords
        /\ FrameOK(w, frames[i], absent[i] \/ ~PresentIn(w, frames[i].key))
  <2>1. \A i \in 1 .. Len(frames) : ClassOf[frames[i].key] \in {} => absent[i]
    OBVIOUS
  <2>. QED BY <2>1, WaitingOn
<1>3. /\ frames \in Seq(FrameRecords) /\ (frames # <<>> => w.shape = "general")
      /\ \A i \in 1 .. Len(frames) : absent[i] \in BOOLEAN
      /\ \A i \in 1 .. Len(frames) : FrameOK(w, frames[i], absent[i] \/ ~PresentIn(w, frames[i].key))
      /\ \A i, j \in 1 .. Len(frames) :
           i < j /\ ClassOf[frames[i].key] = ClassOf[frames[j].key] /\ absent[j] => absent[i]
  BY <1>1, <1>2, Zenon DEF FramesOK
<1>. QED BY <1>3, NoteOK

\* A step that begins a call.
LEMMA FramesPushed ==
  ASSUME DictInv, NEW w, DictOK(w), Follows(dict, w, {}), w.shape = "general",
         NEW f \in FrameRecords, f.pc = "hash", f.gen = 0,
         NEW noted,
         noted = [i \in DOMAIN Append(frames, f) |->
                    Append(absent, FALSE)[i] \/ ~PresentIn(w, Append(frames, f)[i].key)]
  PROVE  FramesOK(w, Append(frames, f), noted)
<1>. DEFINE fs == Append(frames, f)
            flags == Append(absent, FALSE)
            n == Len(frames)
<1>1. /\ FramesOK(dict, frames, absent) /\ frames \in Seq(FrameRecords) /\ n \in Nat
      /\ absent \in Seq(BOOLEAN) /\ Len(absent) = n
      /\ \A i, j \in 1 .. n : i < j /\ ClassOf[frames[i].key] = ClassOf[frames[j].key] /\ absent[j] => absent[i]
  <2>1. FramesOK(dict, frames, absent)
    BY DEF DictInv
  <2>2. frames \in Seq(FrameRecords) /\ n \in Nat /\ absent \in [1 .. n -> BOOLEAN]
    BY <2>1 DEF FramesOK
  <2>3. absent \in Seq(BOOLEAN) /\ Len(absent) = n
    BY <2>2
  <2>. QED BY <2>1, <2>2, <2>3 DEF FramesOK
<1>2. \A i \in 1 .. n :
        /\ absent[i] \in BOOLEAN /\ frames[i] \in FrameRecords
        /\ FrameOK(w, frames[i], absent[i] \/ ~PresentIn(w, frames[i].key))
  <2>1. \A i \in 1 .. n : ClassOf[frames[i].key] \in {} => absent[i]
    OBVIOUS
  <2>. QED BY <2>1, WaitingOn
<1>3. /\ fs \in Seq(FrameRecords) /\ Len(fs) = n + 1 /\ fs[n + 1] = f /\ flags[n + 1] = FALSE
      /\ \A i \in 1 .. n : fs[i] = frames[i] /\ flags[i] = absent[i]
      /\ DOMAIN fs = 1 .. n + 1
  <2>1. /\ fs \in Seq(FrameRecords) /\ Len(fs) = n + 1 /\ fs[n + 1] = f
        /\ \A i \in 1 .. n : fs[i] = frames[i]
    BY <1>1
  <2>2. flags[n + 1] = FALSE /\ \A i \in 1 .. n : flags[i] = absent[i]
    <3>. DEFINE B == BOOLEAN
                no == FALSE
    <3>1. absent \in Seq(B) /\ no \in B
      BY <1>1
    <3>. HIDE DEF B, no
    <3>2. /\ Append(absent, no)[Len(absent) + 1] = no
          /\ \A i \in 1 .. Len(absent) : Append(absent, no)[i] = absent[i]
      BY <3>1
    <3>. QED BY <1>1, <3>2, Zenon DEF no
  <2>3. DOMAIN fs = 1 .. n + 1
    BY <2>1
  <2>. QED BY <2>1, <2>2, <2>3, Zenon
<1>4. noted = [i \in DOMAIN fs |-> flags[i] \/ ~PresentIn(w, fs[i].key)]
  OBVIOUS
<1>. HIDE DEF fs, flags, n
<1>5. ASSUME NEW i \in 1 .. n + 1
      PROVE  flags[i] \in BOOLEAN /\ FrameOK(w, fs[i], flags[i] \/ ~PresentIn(w, fs[i].key))
  <2>1. CASE i = n + 1
    <3>1. FrameOK(w, f, FALSE \/ ~PresentIn(w, f.key))
      <4>1. DictTyped(w) /\ w.gen \in Nat
        BY TypedIs DEF DictOK
      <4>. QED BY <4>1 DEF FrameOK
    <3>. QED BY <1>3, <2>1, <3>1
  <2>2. CASE i \in 1 .. n
    BY <1>2, <1>3, <2>2
  <2>. QED BY <1>1, <2>1, <2>2
<1>6. ASSUME NEW i \in 1 .. n + 1, NEW j \in 1 .. n + 1, i < j,
             ClassOf[fs[i].key] = ClassOf[fs[j].key], flags[j]
      PROVE  flags[i]
  <2>1. j # n + 1
    BY <1>3, <1>6, Zenon
  <2>2. i \in 1 .. n /\ j \in 1 .. n
    BY <1>1, <1>6, <2>1, SMTT(40)
  <2>3. absent[j] /\ ClassOf[frames[i].key] = ClassOf[frames[j].key]
    BY <1>3, <1>6, <2>2, Zenon
  <2>4. absent[i]
    BY <1>1, <1>6, <2>2, <2>3
  <2>. QED BY <1>3, <2>2, <2>4, Zenon
<1>7. /\ fs # <<>> => w.shape = "general"
      /\ \A i \in 1 .. Len(fs) : flags[i] \in BOOLEAN
      /\ \A i \in 1 .. Len(fs) : FrameOK(w, fs[i], flags[i] \/ ~PresentIn(w, fs[i].key))
      /\ \A i, j \in 1 .. Len(fs) : i < j /\ ClassOf[fs[i].key] = ClassOf[fs[j].key] /\ flags[j] => flags[i]
  BY <1>3, <1>5, <1>6, Zenon
<1>8. FramesOK(w, fs, noted)
  BY <1>3, <1>4, <1>7, NoteOK
<1>. QED BY <1>8 DEF fs

\* The end of an insertion of a new key.
Adds(g) == g.pc = "miss" /\ Inserts(g.op)

(* The end of a probe of the innermost call.                               *)
Ended(d, w, g, flag) ==
  /\ DictOK(w) /\ w.shape = "general" /\ SameOutside(d, w, {ClassOf[g.key]})
  /\ Follows(d, w, IF flag THEN {ClassOf[g.key]} ELSE {})
  /\ w.n = d.n /\ Len(w.entries) = Len(d.entries) + (IF Adds(g) THEN 1 ELSE 0)

\* What a probe does when it ends.
LEMMA EffectOK ==
  ASSUME NEW d, DictOK(d), d.shape = "general", NEW f, NEW g, NEW flag \in BOOLEAN,
         Stopped(d, f, g, flag), g.pc \in {"hit", "miss"}
  PROVE  Ended(d, Effect(d, g), g, flag)
<1>. DEFINE w == Effect(d, g)
            C == IF flag THEN {ClassOf[g.key]} ELSE {}
<1>1. /\ g \in FrameRecords /\ g.op \in Ops /\ g.key \in Keys /\ g.value \in Values /\ DictTyped(d)
      /\ Len(d.entries) \in Nat /\ g.value \in Values \cup {Initial}
  BY TypedIs DEF Stopped, FrameRecords, DictOK
<1>2. Follows(d, d, C) /\ SameOutside(d, d, {ClassOf[g.key]})
  BY <1>1, TypedIs DEF Follows, SameOutside
<1>3. \A v : Follows(d, v, {}) => Follows(d, v, C)
  BY DEF Follows
<1>. HIDE DEF C
<1>4. CASE g.pc = "hit" /\ g.op = "set"
  <2>. DEFINE v == WriteExisting(d, g.cand, g.value)
  <2>1. w = v
    BY <1>4 DEF Effect
  <2>2. g.cand \in Entries(d) /\ {ClassOf[d.entries[g.cand].key]} = {ClassOf[g.key]}
    BY <1>1, <1>4, HoldingIs DEF Stopped, Holding, KeyAt
  <2>3. /\ DictOK(v) /\ v.shape = d.shape /\ Follows(d, v, {}) /\ SameOutside(d, v, {ClassOf[d.entries[g.cand].key]})
        /\ v.n = d.n /\ Len(v.entries) = Len(d.entries)
    BY <1>1, <2>2, WriteExistingOK
  <2>. HIDE DEF w, v
  <2>4. Len(v.entries) = Len(d.entries) + (IF Adds(g) THEN 1 ELSE 0)
    BY <1>1, <1>4, <2>3 DEF Adds
  <2>5. Ended(d, v, g, flag)
    BY <1>3, <2>2, <2>3, <2>4 DEF Ended, C
  <2>. QED BY <2>1, <2>5 DEF w
<1>5. CASE g.pc = "hit" /\ g.op \in {"del", "pop"}
  <2>. DEFINE v == DeleteEntryAtSlot(d, g.idx)
  <2>1. w = v
    BY <1>5 DEF Effect
  <2>2. g.idx \in Slots(d) /\ d.table[g.idx] > 0 /\ {ClassOf[KeyAt(d, g.idx)]} = {ClassOf[g.key]}
    BY <1>5 DEF Stopped, Holding
  <2>3. /\ DictOK(v) /\ v.shape = d.shape /\ Follows(d, v, {}) /\ SameOutside(d, v, {ClassOf[KeyAt(d, g.idx)]})
        /\ v.n = d.n /\ Len(v.entries) = Len(d.entries)
    BY <2>2, DeleteOK
  <2>. HIDE DEF w, v
  <2>4. Len(v.entries) = Len(d.entries) + (IF Adds(g) THEN 1 ELSE 0)
    BY <1>1, <1>5, <2>3 DEF Adds
  <2>5. Ended(d, v, g, flag)
    BY <1>3, <2>2, <2>3, <2>4 DEF Ended, C
  <2>. QED BY <2>1, <2>5 DEF w
<1>6. CASE g.pc = "miss" /\ Inserts(g.op)
  <2>. DEFINE s == WriteSlot(d, g)
              v == WriteNewAtSlot(d, s, g.key, g.value)
  <2>1. w = v
    BY <1>6 DEF Effect, Inserts
  <2>2. s \in Slots(d) /\ d.table[s] \in {NotPresent, Tombstone} /\ Reaches(d, Start(d, g.key), s)
    BY <1>6 DEF Stopped, Remembered, WriteSlot, TombstoneAvailable
  <2>. HIDE DEF s
  <2>3. Written(d, v, g.key, g.value)
    <3>1. d.shape = "string" => WithinLimit(d)
      OBVIOUS
    <3>. QED BY <1>1, <2>2, <3>1, WriteNewOK
  <2>4. Placed(g.key, g.value).key = g.key
    BY <1>1, PlacedIs
  <2>5. C = {ClassOf[g.key]}
    BY <1>6 DEF Stopped, C
  <2>. HIDE DEF w, v
  <2>6. SameOutside(d, v, {ClassOf[g.key]})
    BY <2>3, <2>4 DEF Written, SameOutside
  <2>7. Ended(d, v, g, flag)
    BY <1>6, <2>3, <2>5, <2>6 DEF Written, Ended, Adds, C
  <2>. QED BY <2>1, <2>7 DEF w
<1>7. CASE \/ g.pc = "hit" /\ g.op \notin {"set", "del", "pop"}
           \/ g.pc = "miss" /\ ~Inserts(g.op)
  <2>1. w = d
    BY <1>7 DEF Effect
  <2>2. Len(d.entries) = Len(d.entries) + (IF Adds(g) THEN 1 ELSE 0)
    <3>1. ~Adds(g)
      BY <1>7, Zenon DEF Adds
    <3>. QED BY <1>1, <3>1
  <2>3. Ended(d, d, g, flag)
    BY <1>2, <2>2 DEF Ended, C
  <2>. QED BY <2>1, <2>3
<1>. QED BY <1>4, <1>5, <1>6, <1>7 DEF Stopped, Inserts

\* The innermost waiting call.
LEMMA TopIs ==
  ASSUME DictInv, frames # <<>>
  PROVE  LET n == Len(frames)
             flag == Last(absent)
         IN  /\ n \in Nat /\ n > 0 /\ frames \in Seq(FrameRecords) /\ Top = frames[n] /\ flag = absent[n]
             /\ absent \in [1 .. n -> BOOLEAN] /\ Len(absent) = n
             /\ flag \in BOOLEAN /\ Top \in FrameRecords /\ dict.shape = "general"
             /\ FrameOK(dict, Top, flag) /\ (~PresentIn(dict, Top.key) => flag)
             /\ \A i \in 1 .. n : ClassOf[frames[i].key] = ClassOf[Top.key] /\ flag => absent[i]
<1>. DEFINE n == Len(frames)
<1>1. FramesOK(dict, frames, absent)
  BY DEF DictInv
<1>2. frames \in Seq(FrameRecords) /\ absent \in [1 .. n -> BOOLEAN] /\ dict.shape = "general"
  BY <1>1 DEF FramesOK
<1>3. n \in Nat /\ n > 0
  BY <1>2
<1>4. Len(absent) = n
  <2>1. absent \in Seq(BOOLEAN)
    BY <1>2, <1>3
  <2>. QED BY <1>2, <1>3, <2>1
<1>5. Top = frames[n] /\ Last(absent) = absent[n]
  BY <1>4, Zenon DEF Top, Last
<1>6. n \in 1 .. n
  BY <1>3
<1>7. absent[n] \in BOOLEAN /\ frames[n] \in FrameRecords
  BY <1>2, <1>6
<1>8. FrameOK(dict, frames[n], absent[n]) /\ (~PresentIn(dict, frames[n].key) => absent[n])
  BY <1>1, <1>6, Zenon DEF FramesOK
<1>9. ASSUME NEW i \in 1 .. n, ClassOf[frames[i].key] = ClassOf[frames[n].key], absent[n]
      PROVE  absent[i]
  <2>1. CASE i = n
    BY <1>9, <2>1, Zenon
  <2>2. CASE i < n
    BY <1>1, <1>6, <1>9, <2>2 DEF FramesOK
  <2>. QED BY <1>3, <2>1, <2>2
<1>. QED BY <1>2, <1>3, <1>4, <1>5, <1>7, <1>8, <1>9, Zenon

-----------------------------------------------------------------------------
(* Room for the entries of the calls in progress.                          *)
\* The bound on the calls in progress.
LEMMA MaxCallsIs ==
  ASSUME NEW p \in Programs
  PROVE  MaxCalls(p) \in Nat /\ MaxCalls(p) >= 1 /\ p.depth \in Nat /\ p.depth <= MaxCalls(p)
<1>1. p.depth \in Nat
  BY ProgramsAssumption, Zenon
<1>. QED BY <1>1 DEF MaxCalls

\* No more calls wait than are in progress.
LEMMA WaitingIs ==
  ASSUME NEW fs, Len(fs) \in Nat
  PROVE  /\ IsFiniteSet(Waiting(fs)) /\ Cardinality(Waiting(fs)) \in Nat
         /\ Cardinality(Waiting(fs)) <= Len(fs)
<1>1. IsFiniteSet(1 .. Len(fs)) /\ Cardinality(1 .. Len(fs)) = Len(fs)
  <2>1. 1 \in Int /\ Len(fs) \in Int /\ (1 > Len(fs) => Len(fs) = 0) /\ Len(fs) - 1 + 1 = Len(fs)
    OBVIOUS
  <2>. QED BY <2>1, FS_Interval
<1>2. Waiting(fs) \in SUBSET (1 .. Len(fs))
  BY DEF Waiting
<1>3. IsFiniteSet(Waiting(fs)) /\ Cardinality(Waiting(fs)) <= Cardinality(1 .. Len(fs))
  BY <1>1, <1>2, FS_Subset
<1>. QED BY <1>1, <1>3, FS_CardinalityType

\* A further call, waiting or not.
LEMMA WaitingAppended ==
  ASSUME NEW fs \in Seq(FrameRecords), NEW f \in FrameRecords
  PROVE  Cardinality(Waiting(Append(fs, f))) =
           Cardinality(Waiting(fs)) + (IF AddsLater(f) THEN 1 ELSE 0)
<1>. DEFINE n == Len(fs) + 1
            gs == Append(fs, f)
<1>1. /\ Len(fs) \in Nat /\ Len(gs) = n /\ gs[n] = f /\ n \notin 1 .. Len(fs)
      /\ 1 .. n = (1 .. Len(fs)) \cup {n} /\ \A i \in 1 .. Len(fs) : gs[i] = fs[i]
  OBVIOUS
<1>2. IsFiniteSet(Waiting(fs)) /\ Cardinality(Waiting(fs)) \in Nat /\ n \notin Waiting(fs)
  BY <1>1, WaitingIs DEF Waiting
<1>. HIDE DEF n, gs
<1>3. CASE AddsLater(f)
  <2>1. Waiting(gs) = Waiting(fs) \cup {n}
    BY <1>1, <1>3 DEF Waiting
  <2>2. Cardinality(Waiting(fs) \cup {n}) = Cardinality(Waiting(fs)) + 1
    BY <1>2, FS_AddElement
  <2>. QED BY <1>3, <2>1, <2>2 DEF gs
<1>4. CASE ~AddsLater(f)
  <2>1. Waiting(gs) = Waiting(fs)
    BY <1>1, <1>4 DEF Waiting
  <2>. QED BY <1>2, <1>4, <2>1 DEF gs
<1>. QED BY <1>3, <1>4

\* The calls around the innermost one.
LEMMA FrontIs ==
  ASSUME NEW fs \in Seq(FrameRecords), fs # <<>>
  PROVE  /\ Front(fs) \in Seq(FrameRecords) /\ Len(Front(fs)) = Len(fs) - 1 /\ Len(fs) \in Nat
         /\ \A i \in 1 .. Len(fs) - 1 : Front(fs)[i] = fs[i]
         /\ fs = Append(Front(fs), Last(fs)) /\ Last(fs) \in FrameRecords
         /\ \A g \in FrameRecords : Front(fs) \o <<g>> = Append(Front(fs), g)
<1>1. Len(fs) \in Nat /\ Len(fs) > 0 /\ Last(fs) = fs[Len(fs)] /\ Len(fs) \in 1 .. Len(fs)
  BY DEF Last
<1>2. /\ Front(fs) \in Seq(FrameRecords) /\ Len(Front(fs)) = Len(fs) - 1
      /\ \A i \in 1 .. Len(fs) - 1 : Front(fs)[i] = fs[i]
  <2>. DEFINE m == Len(fs) - 1
              front == SubSeq(fs, 1, m)
  <2>1. Front(fs) = front
    BY DEF Front
  <2>2. \A i \in 1 .. m : fs[i] \in FrameRecords
    BY <1>1
  <2>3. m \in Nat
    BY <1>1
  <2>. HIDE DEF m
  <2>4. /\ 1 \in Int /\ m \in Int /\ 1 + m - 1 = m /\ m - 1 + 1 = m
        /\ (IF 1 <= m THEN m - 1 + 1 ELSE 0) = m
    BY <2>3
  <2>5. \A i \in 1 .. m : fs[1 + i - 1] \in FrameRecords /\ 1 + i - 1 = i
    BY <2>2
  <2>6. /\ front \in Seq(FrameRecords) /\ Len(front) = IF 1 <= m THEN m - 1 + 1 ELSE 0
        /\ \A i \in 1 .. m - 1 + 1 : front[i] = fs[1 + i - 1]
    BY <2>2, <2>4, SubSeqProperties
  <2>7. ASSUME NEW i \in 1 .. m PROVE front[i] = fs[i]
    BY <2>4, <2>5, <2>6
  <2>. HIDE DEF front
  <2>. QED BY <2>1, <2>4, <2>6, <2>7 DEF m
<1>3. Last(fs) \in FrameRecords
  BY <1>1
<1>4. fs = Append(Front(fs), Last(fs))
  BY <1>1, <1>2
<1>5. ASSUME NEW g \in FrameRecords PROVE Front(fs) \o <<g>> = Append(Front(fs), g)
  BY <1>1, <1>2
<1>. QED BY <1>1, <1>2, <1>3, <1>4, <1>5

\* The numbers of RoomOK.
LEMMA RoomIs ==
  ASSUME NEW d, DictOK(d), NEW p \in Programs, NEW fs \in Seq(FrameRecords)
  PROVE  /\ d.n \in Nat /\ Len(d.entries) \in Nat /\ (d.n * 3) \div 4 \in Nat
         /\ MaxCalls(p) \in Nat /\ MaxCalls(p) >= 1 /\ MinTableSize \in Nat /\ Len(fs) \in Nat
         /\ Cardinality(Waiting(fs)) \in Nat /\ Cardinality(Waiting(fs)) <= Len(fs)
<1>1. d.n \in Nat /\ Len(d.entries) \in Nat
  BY TypedIs DEF DictOK
<1>2. (d.n * 3) \div 4 \in Nat
  BY <1>1
<1>. QED BY <1>1, <1>2, MaxCallsIs, WaitingIs, DictConstants

\* No call is in progress.
LEMMA RoomAlone ==
  ASSUME NEW d, Built(d), NEW p \in Programs
  PROVE  RoomOK(p, d, <<>>)
<1>1. Waiting(<<>>) = {} /\ Cardinality({}) = 0 /\ Len(<<>>) = 0
  BY FS_EmptySet DEF Waiting
<1>2. <<>> \in Seq(FrameRecords)
  OBVIOUS
<1>3. /\ d.n \in Nat /\ Len(d.entries) \in Nat /\ (d.n * 3) \div 4 \in Nat
      /\ MaxCalls(p) \in Nat /\ MaxCalls(p) >= 1 /\ MinTableSize \in Nat
  BY <1>2, RoomIs DEF Built
<1>4. MinTableSize <= d.n /\ Len(d.entries) <= (d.n * 3) \div 4 + 1
  BY DEF Built, Fits
<1>. DEFINE limit == (d.n * 3) \div 4
<1>5. limit \in Nat /\ Len(d.entries) <= limit + 1
  BY <1>3, <1>4
<1>. HIDE DEF limit
<1>6. Len(d.entries) <= limit + (MaxCalls(p) - 0) /\ 0 <= MaxCalls(p)
  BY <1>3, <1>5
<1>. QED BY <1>1, <1>4, <1>6 DEF RoomOK, Fits, limit

\* A step that appends no entry.
LEMMA RoomStays ==
  ASSUME NEW d, DictOK(d), NEW w, DictOK(w), NEW p \in Programs, NEW fs \in Seq(FrameRecords),
         RoomOK(p, d, fs), w.n = d.n, Len(w.entries) <= Len(d.entries)
  PROVE  RoomOK(p, w, fs)
<1>. DEFINE limit == (d.n * 3) \div 4
            W == Cardinality(Waiting(fs))
<1>1. /\ Len(d.entries) \in Nat /\ Len(w.entries) \in Nat /\ limit \in Nat /\ MaxCalls(p) \in Nat /\ W \in Nat
  BY RoomIs
<1>2. MinTableSize <= d.n /\ Len(d.entries) <= limit + (MaxCalls(p) - W) /\ Len(fs) <= MaxCalls(p)
  BY DEF RoomOK, Fits
<1>. HIDE DEF limit, W
<1>3. Len(w.entries) <= limit + (MaxCalls(p) - W)
  BY <1>1, <1>2
<1>. QED BY <1>2, <1>3 DEF RoomOK, Fits, limit, W

\* A call begins: its hash is to come.
LEMMA RoomPushed ==
  ASSUME NEW d, DictOK(d), NEW p \in Programs, NEW fs \in Seq(FrameRecords), RoomOK(p, d, fs),
         NEW f \in FrameRecords, f.pc = "hash", fs # <<>> => Len(fs) < p.depth
  PROVE  RoomOK(p, d, Append(fs, f))
<1>1. Cardinality(Waiting(Append(fs, f))) = Cardinality(Waiting(fs)) /\ Cardinality(Waiting(fs)) \in Nat
  <2>1. ~AddsLater(f)
    BY DEF AddsLater
  <2>2. Cardinality(Waiting(fs)) \in Nat
    BY RoomIs
  <2>. QED BY <2>1, <2>2, WaitingAppended
<1>2. Len(Append(fs, f)) <= MaxCalls(p)
  <2>1. Len(Append(fs, f)) = Len(fs) + 1 /\ Len(fs) \in Nat /\ (fs = <<>> => Len(fs) = 0)
    OBVIOUS
  <2>. QED BY <2>1, MaxCallsIs
<1>. QED BY <1>1, <1>2 DEF RoomOK

\* The innermost call ends without an entry.
LEMMA RoomPopped ==
  ASSUME NEW d, DictOK(d), NEW p \in Programs, NEW fs \in Seq(FrameRecords), fs # <<>>, RoomOK(p, d, fs)
  PROVE  RoomOK(p, d, Front(fs))
<1>. DEFINE limit == (d.n * 3) \div 4
            W == Cardinality(Waiting(fs))
            V == Cardinality(Waiting(Front(fs)))
            x == IF AddsLater(Last(fs)) THEN 1 ELSE 0
<1>1. /\ Front(fs) \in Seq(FrameRecords) /\ Len(Front(fs)) = Len(fs) - 1 /\ Len(fs) \in Nat
      /\ fs = Append(Front(fs), Last(fs)) /\ Last(fs) \in FrameRecords
  BY FrontIs
<1>2. W = V + x
  <2>1. Cardinality(Waiting(Append(Front(fs), Last(fs)))) = V + x
    BY <1>1, WaitingAppended
  <2>. QED BY <1>1, <2>1
<1>3. /\ Len(d.entries) \in Nat /\ limit \in Nat /\ MaxCalls(p) \in Nat /\ V \in Nat
  BY <1>1, RoomIs
<1>4. MinTableSize <= d.n /\ Len(d.entries) <= limit + (MaxCalls(p) - W) /\ Len(fs) <= MaxCalls(p)
  BY DEF RoomOK, Fits
<1>5. x \in {0, 1}
  OBVIOUS
<1>. HIDE DEF limit, W, V, x
<1>6. Len(d.entries) <= limit + (MaxCalls(p) - V) /\ Len(Front(fs)) <= MaxCalls(p)
  BY <1>1, <1>2, <1>3, <1>4, <1>5
<1>. QED BY <1>4, <1>6 DEF RoomOK, Fits, limit, V

\* Sizes around one call among n, of which V others may add an entry each, as
\* it may before (x) or after (y) unless it has (z).
LEMMA RoomShared ==
  ASSUME NEW limit \in Nat, NEW most \in Nat, NEW V \in Nat, NEW n \in Nat, NEW len \in Nat,
         NEW x \in {0, 1}, NEW y \in {0, 1}, NEW z \in {0, 1}, V <= n - 1, n <= most,
         len <= limit \/ len <= limit + (most - (V + x)),
         len <= limit \/ x = 1 \/ (y = 0 /\ z = 0)
  PROVE  /\ len + z <= limit + (most - V) /\ n - 1 <= most
         /\ z = 0 => len + z <= limit + (most - (V + y))
  OBVIOUS

\* The room that a probe of f starts with: made for it just now, or what its
\* waiting call has kept.
RoomFor(d, f) ==
  /\ d.n >= dict.n
  /\ WithinLimit(d) \/ (d = dict /\ (f.pc = "eq" \/ ~Inserts(f.op)))

\* The innermost call ends, or waits again.
LEMMA RoomSettled ==
  ASSUME DictInv, frames # <<>>, NEW d, DictOK(d), RoomFor(d, Top),
         NEW g \in FrameRecords, g.op = Top.op,
         NEW w, DictOK(w), w.n = d.n, Len(w.entries) = Len(d.entries) + (IF Adds(g) THEN 1 ELSE 0)
  PROVE  /\ RoomOK(program, w, Front(frames))
         /\ g.pc # "miss" => RoomOK(program, w, Append(Front(frames), g))
<1>. DEFINE limit == (d.n * 3) \div 4
            n == Len(frames)
            V == Cardinality(Waiting(Front(frames)))
            x == IF AddsLater(Top) THEN 1 ELSE 0
            y == IF AddsLater(g) THEN 1 ELSE 0
            z == IF Adds(g) THEN 1 ELSE 0
            most == MaxCalls(program)
<1>1. DictOK(dict) /\ RoomOK(program, dict, frames) /\ program \in Programs /\ frames \in Seq(FrameRecords)
  BY DEF DictInv, FramesOK
<1>2. /\ Front(frames) \in Seq(FrameRecords) /\ Len(Front(frames)) = n - 1 /\ n \in Nat
      /\ frames = Append(Front(frames), Top) /\ Top \in FrameRecords
  BY <1>1, FrontIs DEF Top
<1>3. Cardinality(Waiting(frames)) = V + x
  <2>1. Cardinality(Waiting(Append(Front(frames), Top))) = V + x
    BY <1>2, WaitingAppended
  <2>. QED BY <1>2, <2>1
<1>4. Cardinality(Waiting(Append(Front(frames), g))) = V + y
  BY <1>2, WaitingAppended
<1>5. /\ d.n \in Nat /\ Len(d.entries) \in Nat /\ limit \in Nat /\ most \in Nat /\ V \in Nat
      /\ V <= n - 1 /\ MinTableSize \in Nat /\ dict.n \in Nat
  <2>1. V \in Nat /\ V <= Len(Front(frames))
    BY <1>1, <1>2, RoomIs
  <2>. QED BY <1>1, <1>2, <2>1, RoomIs
<1>6. /\ MinTableSize <= dict.n /\ n <= most
      /\ Len(dict.entries) <= (dict.n * 3) \div 4 + (most - (V + x))
  BY <1>1, <1>3 DEF RoomOK, Fits
<1>7. MinTableSize <= w.n
  BY <1>5, <1>6 DEF RoomFor
<1>8. /\ x \in {0, 1} /\ y \in {0, 1} /\ z \in {0, 1}
      /\ Inserts(Top.op) /\ Top.pc = "eq" => x = 1
      /\ ~Inserts(Top.op) => y = 0 /\ z = 0
      /\ g.pc # "miss" => z = 0
  BY Zenon DEF AddsLater, Adds
<1>9. Len(d.entries) <= limit \/ Len(d.entries) <= limit + (most - (V + x))
  BY <1>6 DEF RoomFor, WithinLimit
<1>10. Len(d.entries) <= limit \/ x = 1 \/ (y = 0 /\ z = 0)
  BY <1>8 DEF RoomFor, WithinLimit
<1>11. Len(w.entries) = Len(d.entries) + z
  OBVIOUS
<1>12. limit = (w.n * 3) \div 4
  OBVIOUS
<1>. HIDE DEF limit, V, x, y, z, most
<1>13. n \in Nat /\ n <= most /\ x \in {0, 1} /\ y \in {0, 1} /\ z \in {0, 1}
  BY <1>2, <1>6, <1>8
<1>14. /\ Len(w.entries) <= limit + (most - V) /\ n - 1 <= most
       /\ z = 0 => Len(w.entries) <= limit + (most - (V + y))
  <2>. DEFINE len == Len(d.entries)
  <2>1. /\ len \in Nat
        /\ len <= limit \/ len <= limit + (most - (V + x))
        /\ len <= limit \/ x = 1 \/ (y = 0 /\ z = 0)
        /\ V <= n - 1 /\ limit \in Nat /\ most \in Nat /\ V \in Nat /\ n \in Nat
    BY <1>5, <1>9, <1>10, <1>13
  <2>2. Len(w.entries) = len + z
    BY <1>11
  <2>. HIDE DEF len
  <2>3. /\ len + z <= limit + (most - V) /\ n - 1 <= most
        /\ z = 0 => len + z <= limit + (most - (V + y))
    BY <1>13, <2>1, RoomShared
  <2>. QED BY <2>2, <2>3
<1>15. RoomOK(program, w, Front(frames))
  BY <1>2, <1>7, <1>12, <1>14 DEF RoomOK, Fits, V, most
<1>16. ASSUME g.pc # "miss" PROVE RoomOK(program, w, Append(Front(frames), g))
  <2>1. Len(Append(Front(frames), g)) = n
    BY <1>2
  <2>2. Len(w.entries) <= limit + (most - (V + y))
    BY <1>8, <1>14, <1>16
  <2>. QED BY <1>4, <1>7, <1>12, <1>13, <2>1, <2>2 DEF RoomOK, Fits, most
<1>. QED BY <1>15, <1>16

-----------------------------------------------------------------------------
\* The innermost call has ended.
LEMMA FramesPopped ==
  ASSUME DictInv, frames # <<>>, NEW w, DictOK(w), w.shape = "general",
         Follows(dict, w, IF Last(absent) THEN {ClassOf[Top.key]} ELSE {}),
         NEW noted,
         noted = [i \in DOMAIN Front(frames) |-> absent[i] \/ ~PresentIn(w, Front(frames)[i].key)]
  PROVE  FramesOK(w, Front(frames), noted)
<1>. DEFINE n == Len(frames)
            fs == Front(frames)
            C == IF Last(absent) THEN {ClassOf[Top.key]} ELSE {}
<1>1. /\ n \in Nat /\ n > 0 /\ frames \in Seq(FrameRecords) /\ FramesOK(dict, frames, absent)
      /\ \A i \in 1 .. n : ClassOf[frames[i].key] = ClassOf[Top.key] /\ Last(absent) => absent[i]
  BY TopIs DEF DictInv
<1>2. \A i \in 1 .. n : ClassOf[frames[i].key] \in C => absent[i]
  BY <1>1, Zenon
<1>. HIDE DEF C
<1>3. Follows(dict, w, C)
  BY DEF C
<1>4. \A i \in 1 .. n :
        /\ absent[i] \in BOOLEAN /\ frames[i] \in FrameRecords
        /\ FrameOK(w, frames[i], absent[i] \/ ~PresentIn(w, frames[i].key))
  BY <1>2, <1>3, WaitingOn
<1>5. fs \in Seq(FrameRecords) /\ Len(fs) = n - 1 /\ \A i \in 1 .. n - 1 : fs[i] = frames[i]
  BY <1>1, FrontIs
<1>6. noted = [i \in DOMAIN fs |-> absent[i] \/ ~PresentIn(w, fs[i].key)]
  OBVIOUS
<1>. HIDE DEF fs
<1>7. ASSUME NEW i \in 1 .. Len(fs)
      PROVE  i \in 1 .. n /\ fs[i] = frames[i]
  BY <1>1, <1>5
<1>8. \A i \in 1 .. Len(fs) : absent[i] \in BOOLEAN /\ FrameOK(w, fs[i], absent[i] \/ ~PresentIn(w, fs[i].key))
  BY <1>4, <1>7, Zenon
<1>9. ASSUME NEW i \in 1 .. Len(fs), NEW j \in 1 .. Len(fs), i < j,
             ClassOf[fs[i].key] = ClassOf[fs[j].key], absent[j]
      PROVE  absent[i]
  <2>1. i \in 1 .. n /\ j \in 1 .. n /\ fs[i] = frames[i] /\ fs[j] = frames[j]
    BY <1>7
  <2>. QED BY <1>1, <1>9, <2>1 DEF FramesOK
<1>10. /\ fs # <<>> => w.shape = "general"
       /\ \A i \in 1 .. Len(fs) : absent[i] \in BOOLEAN
       /\ \A i \in 1 .. Len(fs) : FrameOK(w, fs[i], absent[i] \/ ~PresentIn(w, fs[i].key))
       /\ \A i, j \in 1 .. Len(fs) : i < j /\ ClassOf[fs[i].key] = ClassOf[fs[j].key] /\ absent[j] => absent[i]
  BY <1>8, <1>9, Zenon
<1>11. FramesOK(w, fs, noted)
  BY <1>5, <1>6, <1>10, NoteOK
<1>. QED BY <1>11 DEF fs

\* The innermost call goes on waiting, for another __eq__.
LEMMA FramesReplaced ==
  ASSUME DictInv, frames # <<>>, NEW w, DictOK(w), w.shape = "general", Follows(dict, w, {}),
         NEW g \in FrameRecords, g.key = Top.key, FrameOK(w, g, Last(absent)),
         NEW noted,
         noted = [i \in DOMAIN (Front(frames) \o <<g>>) |->
                    absent[i] \/ ~PresentIn(w, (Front(frames) \o <<g>>)[i].key)]
  PROVE  FramesOK(w, Front(frames) \o <<g>>, noted)
<1>. DEFINE n == Len(frames)
            fs == Front(frames) \o <<g>>
<1>1. /\ n \in Nat /\ n > 0 /\ frames \in Seq(FrameRecords) /\ FramesOK(dict, frames, absent)
      /\ Last(absent) = absent[n] /\ Top = frames[n]
  BY TopIs DEF DictInv
<1>2. \A i \in 1 .. n :
        /\ absent[i] \in BOOLEAN /\ frames[i] \in FrameRecords
        /\ FrameOK(w, frames[i], absent[i] \/ ~PresentIn(w, frames[i].key))
  <2>1. \A i \in 1 .. n : ClassOf[frames[i].key] \in {} => absent[i]
    OBVIOUS
  <2>. QED BY <2>1, WaitingOn
<1>3. /\ fs \in Seq(FrameRecords) /\ Len(fs) = n /\ fs[n] = g
      /\ \A i \in 1 .. n - 1 : fs[i] = frames[i]
  BY <1>1 DEF Front
<1>4. noted = [i \in DOMAIN fs |-> absent[i] \/ ~PresentIn(w, fs[i].key)]
  OBVIOUS
<1>. HIDE DEF fs
<1>5. ASSUME NEW i \in 1 .. n
      PROVE  /\ fs[i].key = frames[i].key
             /\ FrameOK(w, fs[i], absent[i] \/ ~PresentIn(w, fs[i].key))
  <2>1. CASE i = n
    <3>1. fs[i] = g /\ g.key = frames[i].key
      BY <1>1, <1>3, <2>1
    <3>2. FrameOK(w, g, absent[i])
      BY <1>1, <2>1, Zenon
    <3>3. Follows(w, w, {})
      BY TypedIs DEF Follows, DictOK
    <3>. DEFINE later == absent[i] \/ ~PresentIn(w, g.key)
    <3>4. later \in BOOLEAN /\ (absent[i] => later) /\ (ClassOf[g.key] \in {} => later)
      OBVIOUS
    <3>5. absent[i] \in BOOLEAN
      BY <1>2
    <3>. HIDE DEF later
    <3>6. FrameOK(w, g, later)
      BY <3>2, <3>3, <3>4, <3>5, FrameKept
    <3>. QED BY <3>1, <3>6, Zenon DEF later
  <2>2. CASE i # n
    <3>1. i \in 1 .. n - 1
      BY <1>1, <2>2
    <3>2. fs[i] = frames[i]
      BY <1>3, <3>1
    <3>. QED BY <1>2, <3>2, Zenon
  <2>. QED BY <2>1, <2>2
<1>6. ASSUME NEW i \in 1 .. n, NEW j \in 1 .. n, i < j,
             ClassOf[fs[i].key] = ClassOf[fs[j].key], absent[j]
      PROVE  absent[i]
  <2>1. ClassOf[frames[i].key] = ClassOf[frames[j].key]
    BY <1>5, <1>6
  <2>. QED BY <1>1, <1>6, <2>1 DEF FramesOK
<1>7. /\ fs # <<>> => w.shape = "general"
      /\ \A i \in 1 .. Len(fs) : absent[i] \in BOOLEAN
      /\ \A i \in 1 .. Len(fs) : FrameOK(w, fs[i], absent[i] \/ ~PresentIn(w, fs[i].key))
      /\ \A i, j \in 1 .. Len(fs) : i < j /\ ClassOf[fs[i].key] = ClassOf[fs[j].key] /\ absent[j] => absent[i]
  BY <1>2, <1>3, <1>5, <1>6, Zenon
<1>8. FramesOK(w, fs, noted)
  BY <1>3, <1>4, <1>7, NoteOK
<1>. QED BY <1>8 DEF fs

(* The property of every step: what OnlyOwnKeyChanges says.                *)
OwnKeyStep ==
  dict' # dict => \A c \in {ClassOf[k] : k \in Keys} :
    ValueOf(dict', c) # ValueOf(dict, c) =>
      /\ last' # NoValue
      /\ last'.op = "clear" \/ ("key" \in DOMAIN last' /\ ClassOf[last'.key] = c)

ReportKept ==
  last # NoValue /\ "hit" \in DOMAIN last /\ ~last.hit => last.absent

\* The record of a call that ended.
LEMMA CompletedIs ==
  ASSUME NEW g \in FrameRecords, NEW hit \in BOOLEAN, NEW flag \in BOOLEAN
  PROVE  LET r == Completed(g, hit, flag)
         IN  /\ r # NoValue /\ r.op = g.op /\ r.hit = hit /\ r.absent = flag /\ r.key = g.key
             /\ "key" \in DOMAIN r
<1>. DEFINE r == Completed(g, hit, flag)
<1>1. g.op \in Ops /\ g.key \in Keys
  BY DEF FrameRecords
<1>2. r \in [op : Ops, key : Keys, hit : BOOLEAN, absent : BOOLEAN]
  BY <1>1 DEF Completed
<1>3. r # NoValue
  <2>1. r \in Reports
    BY <1>2 DEF Reports
  <2>. QED BY <2>1, DictConstants
<1>4. r.op = g.op /\ r.hit = hit /\ r.absent = flag /\ r.key = g.key /\ "key" \in DOMAIN r
  BY DEF Completed
<1>. QED BY <1>3, <1>4

\* A probe that goes on either waits again or ends.
LEMMA SettleOK ==
  ASSUME DictInv, frames # <<>>, NEW d, DictOK(d), Stored(d) = Stored(dict), d.shape = "general",
         d = dict \/ d.gen > dict.gen, RoomFor(d, Top),
         NEW g, Stopped(d, Top, g, Last(absent)), Settle(g, d)
  PROVE  DictInv' /\ OwnKeyStep
<1>. DEFINE flag == Last(absent)
<1>1. /\ FramesOK(dict, frames, absent) /\ DictOK(dict) /\ flag \in BOOLEAN /\ Top \in FrameRecords
      /\ dict.gen \in Nat /\ d.gen \in Nat
  <2>1. DictOK(dict)
    BY DEF DictInv
  <2>2. DictTyped(dict) /\ DictTyped(d)
    BY <2>1 DEF DictOK
  <2>. QED BY <2>1, <2>2, TopIs, TypedIs DEF DictInv
<1>2. g \in FrameRecords /\ g.op = Top.op /\ g.key = Top.key /\ g.key \in Keys /\ g.pc \in {"looping", "hit", "miss", "eq"}
  BY DEF Stopped, FrameRecords
<1>3. /\ program' = program /\ iters' = iters /\ calls' = calls /\ raised' = raised
  BY DEF Settle
<1>4. \A C : SameOutside(dict, d, C)
  BY SameStored
<1>. HIDE DEF flag
<1>5. ASSUME NEW w, NEW C, Follows(d, w, C), DictOK(w)
      PROVE  Follows(dict, w, C)
  <2>1. CASE d = dict
    BY <1>5, <2>1
  <2>2. CASE d.gen > dict.gen
    <3>1. w.gen \in Nat
      BY <1>5, TypedIs DEF DictOK
    <3>. QED BY <1>1, <1>5, <2>2, <3>1 DEF Follows
  <2>. QED BY <2>1, <2>2
<1>6. CASE g.pc \in {"hit", "miss"}
  <2>. DEFINE w == Effect(d, g)
  <2>1. /\ dict' = w /\ frames' = Front(frames)
        /\ absent' = [i \in DOMAIN Front(frames) |-> absent[i] \/ ~PresentIn(w, Front(frames)[i].key)]
        /\ last' = Completed(g, g.pc = "hit", flag)
    BY <1>6 DEF Settle, Note, flag
  <2>2. Ended(d, w, g, flag)
    BY <1>1, <1>6, EffectOK DEF flag
  <2>. HIDE DEF w
  <2>3. /\ DictOK(w) /\ w.shape = "general" /\ SameOutside(d, w, {ClassOf[g.key]})
        /\ Follows(d, w, IF flag THEN {ClassOf[g.key]} ELSE {})
        /\ w.n = d.n /\ Len(w.entries) = Len(d.entries) + (IF Adds(g) THEN 1 ELSE 0)
    BY <2>2 DEF Ended
  <2>4. Follows(dict, w, IF flag THEN {ClassOf[Top.key]} ELSE {})
    BY <1>2, <1>5, <2>3
  <2>5. FramesOK(w, frames', absent')
    BY <2>1, <2>3, <2>4, FramesPopped DEF flag
  <2>6. /\ last' # NoValue /\ "key" \in DOMAIN last' /\ last'.key = g.key
        /\ last'.hit = (g.pc = "hit") /\ last'.absent = flag
    <3>. DEFINE hit == g.pc = "hit"
    <3>1. hit \in BOOLEAN
      OBVIOUS
    <3>. HIDE DEF hit
    <3>2. LET r == Completed(g, hit, flag)
          IN  r # NoValue /\ "key" \in DOMAIN r /\ r.key = g.key /\ r.hit = hit /\ r.absent = flag
      BY <1>1, <1>2, <3>1, CompletedIs
    <3>. QED BY <2>1, <3>2 DEF hit
  <2>7. MissesJustified'
    <3>1. g.pc = "miss" => flag
      BY DEF Stopped, flag
    <3>2. ~last'.hit => last'.absent
      BY <1>6, <2>6, <3>1, Zenon
    <3>. QED BY <3>2, Zenon DEF MissesJustified
  <2>8. RoomOK(program, w, Front(frames))
    BY <1>2, <2>3, RoomSettled
  <2>9. DictInv'
    BY <1>3, <2>1, <2>3, <2>5, <2>7, <2>8 DEF DictInv
  <2>10. OwnKeyStep
    <3>1. SameOutside(dict, w, {ClassOf[g.key]})
      BY <1>4, <2>3 DEF SameOutside
    <3>2. ASSUME NEW c, ValueOf(w, c) # ValueOf(dict, c) PROVE c = ClassOf[g.key]
      <4>1. CASE c \notin {ClassOf[g.key]}
        BY <1>1, <2>3, <3>1, <3>2, <4>1, SameValues
      <4>. QED BY <4>1
    <3>. QED BY <2>1, <2>6, <3>2 DEF OwnKeyStep
  <2>. QED BY <2>9, <2>10
<1>7. CASE g.pc \notin {"hit", "miss"}
  <2>1. /\ dict' = d /\ frames' = Front(frames) \o <<g>>
        /\ absent' = [i \in DOMAIN (Front(frames) \o <<g>>) |->
                        absent[i] \/ ~PresentIn(d, (Front(frames) \o <<g>>)[i].key)]
        /\ last' = NoValue
    BY <1>7 DEF Settle, Note
  <2>2. FrameOK(d, g, flag)
    BY <1>2, <1>7 DEF Stopped, flag
  <2>3. Follows(d, d, {})
    BY <1>1 DEF Follows
  <2>4. Follows(dict, d, {})
    BY <1>5, <2>3
  <2>5. FramesOK(d, frames', absent')
    BY <1>2, <2>1, <2>2, <2>4, FramesReplaced DEF flag
  <2>6. RoomOK(program, d, frames')
    <3>1. ~Adds(g)
      BY <1>7, Zenon DEF Adds
    <3>2. Len(d.entries) \in Nat
      BY TypedIs DEF DictOK
    <3>3. Len(d.entries) = Len(d.entries) + (IF Adds(g) THEN 1 ELSE 0)
      BY <3>1, <3>2
    <3>4. g.pc # "miss" => RoomOK(program, d, Append(Front(frames), g))
      BY <1>2, <3>3, RoomSettled
    <3>5. Front(frames) \o <<g>> = Append(Front(frames), g)
      BY <1>1, <1>2, FrontIs DEF FramesOK
    <3>. QED BY <1>7, <2>1, <3>4, <3>5, Zenon
  <2>7. DictInv'
    BY <1>3, <2>1, <2>5, <2>6 DEF DictInv, MissesJustified
  <2>8. \A c : ValueOf(d, c) = ValueOf(dict, c)
    BY SameStored
  <2>. QED BY <2>1, <2>7, <2>8 DEF OwnKeyStep
<1>. QED BY <1>6, <1>7
-----------------------------------------------------------------------------
(* Steps that leave the calls in progress waiting.                         *)
LEMMA QuietStep ==
  ASSUME DictInv, NEW w, DictOK(w), Follows(dict, w, {}), frames # <<>> => w.shape = "general",
         dict' = w, Note(frames, w, absent), program' = program, iters' = iters, raised' = raised,
         calls' \in Nat, MissesJustified', w.n = dict.n, Len(w.entries) <= Len(dict.entries)
  PROVE  DictInv'
<1>1. frames' = frames /\ absent' = [i \in DOMAIN frames |-> absent[i] \/ ~PresentIn(w, frames[i].key)]
  BY DEF Note
<1>2. FramesOK(w, frames', absent')
  BY <1>1, FramesStay
<1>3. RoomOK(program, w, frames)
  BY RoomStays DEF DictInv, FramesOK
<1>. QED BY <1>1, <1>2, <1>3 DEF DictInv

\* Only general dictionaries have calls that wait.
LEMMA GeneralIfWaiting ==
  ASSUME DictInv
  PROVE  /\ frames # <<>> => dict.shape = "general"
         /\ dict.shape = "string" => frames = <<>>
         /\ DictOK(dict) /\ DictTyped(dict) /\ dict.gen \in Nat /\ calls \in Nat
         /\ Follows(dict, dict, {})
<1>1. DictOK(dict) /\ FramesOK(dict, frames, absent) /\ calls \in Nat
  BY DEF DictInv
<1>2. DictTyped(dict) /\ dict.gen \in Nat
  BY <1>1, TypedIs DEF DictOK
<1>. QED BY <1>1, <1>2 DEF FramesOK, Follows

\* Promotion, if it was needed.
LEMMA PromotedIs ==
  ASSUME NEW d, DictOK(d)
  PROVE  LET w == MaybePromote(d)
         IN  /\ DictOK(w) /\ w.shape = "general" /\ Stored(w) = Stored(d) /\ Follows(d, w, {})
             /\ w.n = d.n /\ w.entries = d.entries
<1>1. CASE d.shape = "string"
  <2>1. MaybePromote(d) = PromoteToGeneralShape(d)
    BY <1>1 DEF MaybePromote
  <2>. QED BY <2>1, PromoteOK
<1>2. CASE d.shape # "string"
  <2>1. MaybePromote(d) = d
    BY <1>2 DEF MaybePromote
  <2>2. d.shape = "general" /\ d.gen \in Nat
    BY <1>2, TypedIs DEF DictOK
  <2>. QED BY <2>1, <2>2 DEF Follows
<1>. QED BY <1>1, <1>2

\* The initial state.
LEMMA InitOK ==
  ASSUME Init
  PROVE  DictInv
<1>1. DictOK(dict)
  BY CreatedOK DEF Init, Built
<1>2. FramesOK(dict, frames, absent)
  BY DEF Init, FramesOK
<1>3. iters \in [Iterators -> IteratorRecords]
  BY DEF Init, NoIterator, IteratorRecords
<1>4. RoomOK(program, dict, frames)
  BY CreatedOK, RoomAlone DEF Init
<1>. QED BY <1>1, <1>2, <1>3, <1>4 DEF Init, DictInv, MissesJustified

\* The program keeps to the constants.
LEMMA ProgramIs ==
  ASSUME DictInv
  PROVE  program.keys \subseteq Keys /\ program.ops \subseteq AllOps
         /\ program.paths \subseteq BOOLEAN /\ program.iterators \subseteq Iterators
  BY ProgramsAssumption, Zenon DEF DictInv

\* A call on a string-keyed dictionary.
LEMMA StringKeyedStep ==
  ASSUME DictInv, NEW op \in Ops, NEW key \in Keys, NEW value \in Values,
         CallStringKeyed(op, key, value)
  PROVE  DictInv' /\ OwnKeyStep
<1>. DEFINE w == StringKeyed(dict, op, key, value)
            hit == dict.table[FindEntry(dict, key)] > 0
<1>1. /\ DictOK(dict) /\ dict.shape = "string" /\ frames = <<>> /\ calls \in Nat
  BY GeneralIfWaiting DEF CallStringKeyed
<1>2. /\ DictOK(w) /\ SameOutside(dict, w, {ClassOf[key]}) /\ (~hit => ~PresentIn(dict, key))
      /\ w.shape = "string" /\ w.n >= dict.n
  BY <1>1, StringKeyedOK
<1>3. /\ dict' = w /\ program' = program /\ iters' = iters /\ raised' = raised /\ calls' = calls + 1
      /\ Note(frames, w, absent)
      /\ last' = [op |-> op, key |-> key, hit |-> hit, absent |-> ~PresentIn(dict, key)]
  BY DEF CallStringKeyed
<1>. HIDE DEF w, hit
<1>4. /\ last' # NoValue /\ "key" \in DOMAIN last' /\ last'.key = key
      /\ last'.hit = hit /\ last'.absent = ~PresentIn(dict, key)
  <2>1. hit \in BOOLEAN
    BY DEF hit
  <2>. DEFINE gone == ~PresentIn(dict, key)
  <2>2. gone \in BOOLEAN /\ last' = [op |-> op, key |-> key, hit |-> hit, absent |-> gone]
    BY <1>3
  <2>. HIDE DEF gone
  <2>3. last' \in Reports
    BY <2>1, <2>2 DEF Reports
  <2>4. last' # NoValue
    BY <2>3, DictConstants
  <2>5. "key" \in DOMAIN last' /\ last'.key = key /\ last'.hit = hit /\ last'.absent = gone
    BY <2>2
  <2>. QED BY <2>4, <2>5 DEF gone
<1>5. MissesJustified'
  <2>1. ~last'.hit => last'.absent
    BY <1>2, <1>4, Zenon
  <2>. QED BY <2>1, Zenon DEF MissesJustified
<1>6. FramesOK(w, frames', absent')
  BY <1>1, <1>3 DEF Note, FramesOK
<1>7. DictInv'
  <2>1. calls' \in Nat
    BY <1>1, <1>3
  <2>2. RoomOK(program, w, frames')
    <3>1. /\ MinTableSize \in Nat /\ dict.n \in Nat /\ w.n \in Nat /\ MinTableSize <= dict.n
      BY <1>1, <1>2, TypedIs, DictConstants DEF DictInv, RoomOK, Fits, DictOK
    <3>2. Built(w)
      BY <1>2, <3>1 DEF Built, Fits, DictOK, RoomKept
    <3>3. frames' = <<>>
      BY <1>1, <1>3 DEF Note
    <3>. QED BY <3>2, <3>3, RoomAlone DEF DictInv
  <2>. QED BY <1>2, <1>3, <1>5, <1>6, <2>1, <2>2 DEF DictInv
<1>8. OwnKeyStep
  <2>1. ASSUME NEW c, ValueOf(w, c) # ValueOf(dict, c) PROVE c = ClassOf[key]
    <3>1. CASE c \notin {ClassOf[key]}
      BY <1>1, <1>2, <2>1, <3>1, SameValues
    <3>. QED BY <3>1
  <2>. QED BY <1>3, <1>4, <2>1 DEF OwnKeyStep
<1>. QED BY <1>7, <1>8

\* A call on a general dictionary begins.
LEMMA BeginStep ==
  ASSUME DictInv, NEW op \in Ops, NEW key \in Keys, NEW value \in Values, NEW native \in BOOLEAN,
         BeginCall(op, key, value, native)
  PROVE  DictInv' /\ OwnKeyStep
<1>. DEFINE w == MaybePromote(dict)
            f == [op |-> op, key |-> key, value |-> value, native |-> native,
                  pc |-> "hash", idx |-> 0, cand |-> 0, candKey |-> NoKey, gen |-> 0, tomb |-> -1]
<1>1. DictOK(dict) /\ calls \in Nat
  BY GeneralIfWaiting
<1>2. DictOK(w) /\ w.shape = "general" /\ Stored(w) = Stored(dict) /\ Follows(dict, w, {})
      /\ w.n = dict.n /\ w.entries = dict.entries
  BY <1>1, PromotedIs
<1>3. f \in FrameRecords /\ f.pc = "hash" /\ f.gen = 0
  BY DEF FrameRecords
<1>4. /\ dict' = w /\ program' = program /\ iters' = iters /\ raised' = raised /\ calls' = calls + 1
      /\ last' = NoValue /\ frames' = Append(frames, f)
      /\ absent' = [i \in DOMAIN Append(frames, f) |->
                      Append(absent, FALSE)[i] \/ ~PresentIn(w, Append(frames, f)[i].key)]
  BY DEF BeginCall, Note
<1>. HIDE DEF w, f
<1>5. FramesOK(w, frames', absent')
  BY <1>2, <1>3, <1>4, FramesPushed
<1>6. RoomOK(program, w, frames')
  <2>1. program \in Programs /\ frames \in Seq(FrameRecords) /\ RoomOK(program, dict, frames)
    BY DEF DictInv, FramesOK
  <2>2. Len(w.entries) <= Len(dict.entries)
    BY <1>1, <1>2, TypedIs DEF DictOK
  <2>3. RoomOK(program, w, frames)
    BY <1>1, <1>2, <2>1, <2>2, RoomStays
  <2>4. frames # <<>> => Len(frames) < program.depth
    BY DEF BeginCall, UserCode
  <2>. QED BY <1>2, <1>3, <1>4, <2>1, <2>3, <2>4, RoomPushed
<1>7. DictInv'
  <2>1. MissesJustified'
    BY <1>4, Zenon DEF MissesJustified
  <2>2. calls' \in Nat
    BY <1>1, <1>4
  <2>. QED BY <1>2, <1>4, <1>5, <1>6, <2>1, <2>2 DEF DictInv
<1>8. \A c : ValueOf(w, c) = ValueOf(dict, c)
  BY <1>2, SameStored
<1>. QED BY <1>4, <1>7, <1>8 DEF OwnKeyStep

(* A probe from the slot the key's hash selects.                           *)
LEMMA FreshProbe ==
  ASSUME DictInv, frames # <<>>, NEW d, DictOK(d), Stored(d) = Stored(dict), d.shape = "general",
         d = dict \/ d.gen > dict.gen, RoomFor(d, Top), Settle(ProbeStart(d, Top), d)
  PROVE  DictInv' /\ OwnKeyStep
<1>. DEFINE flag == Last(absent)
<1>1. /\ Top \in FrameRecords /\ flag \in BOOLEAN /\ (~PresentIn(dict, Top.key) => flag)
      /\ FrameOK(dict, Top, flag) /\ DictOK(dict)
  BY TopIs DEF DictInv
<1>. HIDE DEF flag
<1>2. Top.key \in Keys /\ Top.gen \in Nat /\ d.gen \in Nat /\ dict.gen \in Nat
  BY <1>1, TypedIs DEF FrameRecords, DictOK
<1>3. Top.gen <= d.gen
  BY <1>1, <1>2 DEF FrameOK
<1>4. ~PresentIn(d, Top.key) => flag
  BY <1>1, SameStored
<1>5. Ahead(d, Top.key, Start(d, Top.key), flag) /\ Remembered(d, Top.key, -1)
  BY <1>2, StartAhead
<1>6. Stopped(d, Top, Probe(d, Top, Start(d, Top.key), -1), flag)
  BY <1>1, <1>3, <1>4, <1>5, ProbeOK
<1>7. Stopped(d, Top, ProbeStart(d, Top), flag)
  BY <1>6 DEF ProbeStart, Start
<1>. QED BY <1>7, SettleOK DEF flag

\* __hash__ returns.
LEMMA HashStep ==
  ASSUME DictInv, HashReturns
  PROVE  DictInv' /\ OwnKeyStep
<1>. DEFINE d == IF Inserts(Top.op) THEN ResizeIfNeeded(dict) ELSE dict
<1>1. frames # <<>> /\ Settle(ProbeStart(d, Top), d)
  BY DEF HashReturns
<1>2. DictOK(dict) /\ dict.shape = "general"
  BY <1>1, GeneralIfWaiting
<1>3. DictOK(d) /\ d.shape = "general" /\ Stored(d) = Stored(dict) /\ (d = dict \/ d.gen > dict.gen)
  BY <1>2, ResizeOK
<1>4. RoomFor(d, Top)
  <2>1. dict.n \in Nat
    BY <1>2, TypedIs DEF DictOK
  <2>. QED BY <1>2, <2>1, ResizeOK DEF RoomFor
<1>. HIDE DEF d
<1>. QED BY <1>1, <1>3, <1>4, FreshProbe

\* What the call still knows about its candidate.
LEMMA CandidateIs ==
  ASSUME DictInv, frames # <<>>, Top.pc = "eq", EntryStillMatches(dict, Top)
  PROVE  /\ Ahead(dict, Top.key, Top.idx, Last(absent)) /\ Remembered(dict, Top.key, Top.tomb)
         /\ Top.idx \in Slots(dict) /\ dict.table[Top.idx] = Top.cand /\ Top.cand > 0
         /\ KeyAt(dict, Top.idx) = Top.candKey
<1>1. /\ FrameOK(dict, Top, Last(absent)) /\ DictOK(dict) /\ Top \in FrameRecords
  BY TopIs DEF DictInv
<1>2. /\ dict.gen = Top.gen /\ Top.idx \in DOMAIN dict.table /\ dict.table[Top.idx] = Top.cand
      /\ Top.cand \in DOMAIN dict.entries /\ dict.entries[Top.cand].key = Top.candKey
  BY DEF EntryStillMatches
<1>3. DOMAIN dict.table = Slots(dict) /\ DOMAIN dict.entries = 1 .. Len(dict.entries) /\ Len(dict.entries) \in Nat
  BY <1>1, TypedIs DEF DictOK
<1>4. Top.cand > 0
  BY <1>2, <1>3
<1>. QED BY <1>1, <1>2, <1>3, <1>4 DEF FrameOK, KeyAt

\* __eq__ returns, to a dictionary that may have changed meanwhile.
LEMMA EqStep ==
  ASSUME DictInv, EqReturns
  PROVE  DictInv' /\ OwnKeyStep
<1>. DEFINE flag == Last(absent)
<1>1. frames # <<>> /\ Top.pc = "eq"
  BY DEF EqReturns
<1>2. /\ Top \in FrameRecords /\ flag \in BOOLEAN /\ (~PresentIn(dict, Top.key) => flag)
      /\ FrameOK(dict, Top, flag) /\ DictOK(dict) /\ dict.shape = "general"
  BY <1>1, TopIs DEF DictInv
<1>3. /\ Top.key \in Keys /\ Top.gen \in Nat /\ Top.idx \in Nat /\ Top.cand \in Int
      /\ dict.gen \in Nat /\ Top.gen <= dict.gen /\ dict.n \in Nat
  BY <1>2, TypedIs DEF FrameRecords, DictOK, FrameOK
<1>. HIDE DEF flag
<1>4. RoomFor(dict, Top)
  BY <1>1, <1>3 DEF RoomFor
<1>5. CASE ~EntryStillMatches(dict, Top)
  <2>. DEFINE d == IF Inserts(Top.op) /\ ~Top.native THEN ResizeIfNeeded(dict) ELSE dict
  <2>1. Settle(ProbeStart(d, Top), d)
    BY <1>5 DEF EqReturns
  <2>2. DictOK(d) /\ d.shape = "general" /\ Stored(d) = Stored(dict) /\ (d = dict \/ d.gen > dict.gen)
    BY <1>2, ResizeOK
  <2>3. RoomFor(d, Top)
    BY <1>1, <1>2, <1>3, ResizeOK DEF RoomFor
  <2>. HIDE DEF d
  <2>. QED BY <1>1, <2>1, <2>2, <2>3, FreshProbe
<1>6. CASE EntryStillMatches(dict, Top) /\ ClassOf[Top.key] = ClassOf[Top.candKey]
  <2>. DEFINE g == [Top EXCEPT !.pc = "hit"]
  <2>1. Settle(g, dict)
    BY <1>6 DEF EqReturns
  <2>2. Top.idx \in Holding(dict, Top.key) /\ Top.cand = dict.table[Top.idx]
    BY <1>1, <1>6, CandidateIs DEF Holding
  <2>3. /\ g \in FrameRecords /\ g.op = Top.op /\ g.key = Top.key /\ g.value = Top.value
        /\ g.native = Top.native /\ g.pc = "hit" /\ g.idx = Top.idx /\ g.cand = Top.cand
    BY <1>2 DEF FrameRecords
  <2>. HIDE DEF g
  <2>4. Stopped(dict, Top, g, flag)
    BY <2>2, <2>3 DEF Stopped
  <2>. QED BY <1>1, <1>2, <1>4, <2>1, <2>4, SettleOK DEF flag
<1>7. CASE EntryStillMatches(dict, Top) /\ ClassOf[Top.key] # ClassOf[Top.candKey]
  <2>. DEFINE tomb == IF Top.native /\ ~TombstoneAvailable(dict, Top) THEN -1 ELSE Top.tomb
              next == (Top.idx + 1) % dict.n
  <2>1. Settle(Probe(dict, Top, next, tomb), dict)
    BY <1>7 DEF EqReturns
  <2>2. /\ Ahead(dict, Top.key, Top.idx, flag) /\ Remembered(dict, Top.key, Top.tomb)
        /\ dict.table[Top.idx] > 0 /\ KeyAt(dict, Top.idx) = Top.candKey
    BY <1>1, <1>7, CandidateIs DEF flag
  <2>3. Top.idx \notin Holding(dict, Top.key)
    BY <1>7, <2>2 DEF Holding
  <2>4. Ahead(dict, Top.key, next, flag)
    BY <1>2, <1>3, <2>2, <2>3, NextAhead
  <2>5. Remembered(dict, Top.key, tomb)
    BY <2>2 DEF Remembered
  <2>. HIDE DEF tomb, next
  <2>6. Stopped(dict, Top, Probe(dict, Top, next, tomb), flag)
    BY <1>2, <1>3, <2>4, <2>5, ProbeOK
  <2>. QED BY <1>1, <1>2, <1>4, <2>1, <2>6, SettleOK DEF flag
<1>. QED BY <1>5, <1>6, <1>7

\* __hash__ or __eq__ raises: the call is given up.
LEMMA RaisesStep ==
  ASSUME DictInv, Raises
  PROVE  DictInv' /\ OwnKeyStep
<1>1. /\ frames # <<>> /\ last' = NoValue /\ program' = program /\ dict' = dict /\ iters' = iters
      /\ calls' = calls /\ raised' = raised /\ frames' = Front(frames)
      /\ absent' = [i \in DOMAIN Front(frames) |-> absent[i] \/ ~PresentIn(dict, Front(frames)[i].key)]
  BY DEF Raises, Note
<1>2. DictOK(dict) /\ dict.shape = "general" /\ dict.gen \in Nat
  BY <1>1, GeneralIfWaiting
<1>3. Follows(dict, dict, IF Last(absent) THEN {ClassOf[Top.key]} ELSE {})
  BY <1>2 DEF Follows
<1>4. FramesOK(dict, frames', absent')
  BY <1>1, <1>2, <1>3, FramesPopped
<1>5. MissesJustified'
  BY <1>1, Zenon DEF MissesJustified
<1>6. RoomOK(program, dict, frames')
  BY <1>1, <1>2, RoomPopped DEF DictInv, FramesOK
<1>7. DictInv'
  BY <1>1, <1>2, <1>4, <1>5, <1>6 DEF DictInv
<1>. QED BY <1>1, <1>7 DEF OwnKeyStep

\* clear
LEMMA ClearStep ==
  ASSUME DictInv, CallClear
  PROVE  DictInv' /\ OwnKeyStep
<1>. DEFINE w == Clear(dict)
            result == [op |-> "clear"]
<1>1. /\ dict' = w /\ calls' = calls + 1 /\ Note(frames, w, absent) /\ last' = result
      /\ program' = program /\ iters' = iters /\ raised' = raised
  BY DEF CallClear, Replace
<1>2. /\ DictOK(dict) /\ calls \in Nat /\ (frames # <<>> => dict.shape = "general")
  BY GeneralIfWaiting
<1>3. /\ DictOK(w) /\ w.shape = dict.shape /\ Follows(dict, w, {})
      /\ w.n = dict.n /\ Len(w.entries) <= Len(dict.entries)
  <2>1. w.entries = <<>> => Len(w.entries) = 0
    OBVIOUS
  <2>2. Len(dict.entries) \in Nat
    BY <1>2, TypedIs DEF DictOK
  <2>3. /\ DictOK(w) /\ w.shape = dict.shape /\ Follows(dict, w, {}) /\ w.n = dict.n /\ w.entries = <<>>
    BY <1>2, ClearOK
  <2>. HIDE DEF w
  <2>. QED BY <2>1, <2>2, <2>3
<1>4. result # NoValue /\ result.op = "clear" /\ "hit" \notin DOMAIN result
  <2>1. result \in Reports
    BY DEF Reports
  <2>2. result.op = "clear" /\ "hit" \notin DOMAIN result
    OBVIOUS
  <2>. HIDE DEF result
  <2>. QED BY <2>1, <2>2, DictConstants
<1>. HIDE DEF w, result
<1>5. MissesJustified' /\ calls' \in Nat
  BY <1>1, <1>2, <1>4 DEF MissesJustified
<1>6. DictInv'
  BY <1>1, <1>2, <1>3, <1>5, QuietStep
<1>. QED BY <1>1, <1>4, <1>6 DEF OwnKeyStep

\* The live entry that was inserted last.
LEMMA GreatestEntry ==
  ASSUME NEW d, DictOK(d), d.valid > 0
  PROVE  \E q \in Entries(d) : \A r \in q + 1 .. Len(d.entries) : ~IsLive(d.entries[r])
<1>. DEFINE n == Len(d.entries)
            T == {n - q : q \in Entries(d)}
<1>1. /\ n \in Nat /\ Entries(d) \subseteq 1 .. n /\ d.valid = Cardinality(Entries(d)) /\ DOMAIN d.entries = 1 .. n
  BY TypedIs DEF DictOK
<1>2. Entries(d) # {}
  <2>1. ASSUME Entries(d) = {} PROVE FALSE
    <3>1. Cardinality(Entries(d)) = 0
      BY <2>1, FS_EmptySet, Zenon
    <3>. QED BY <1>1, <3>1
  <2>. QED BY <2>1
<1>3. T \in SUBSET Nat /\ T # {}
  BY <1>1, <1>2
<1>4. PICK x \in T : \A y \in T : x <= y
  <2>. HIDE DEF T
  <2>. QED BY <1>3, LeastElement
<1>5. PICK q \in Entries(d) : x = n - q
  BY <1>4
<1>6. ASSUME NEW r \in q + 1 .. n, IsLive(d.entries[r]) PROVE FALSE
  <2>1. r \in 1 .. n /\ q \in 1 .. n /\ r > q
    BY <1>1, <1>5, <1>6
  <2>2. r \in Entries(d)
    BY <1>1, <1>6, <2>1 DEF Entries
  <2>3. n - q <= n - r
    BY <1>4, <1>5, <2>2
  <2>. QED BY <1>1, <2>1, <2>3
<1>. QED BY <1>6

\* popitem
LEMMA PopItemStep ==
  ASSUME DictInv, CallPopItem
  PROVE  DictInv' /\ OwnKeyStep
<1>. DEFINE LastLive(q) == IsLive(dict.entries[q]) /\ \A r \in q + 1 .. Len(dict.entries) : ~IsLive(dict.entries[r])
            p == CHOOSE q \in DOMAIN dict.entries : LastLive(q)
            s == CHOOSE t \in SlotsWith(dict, p) : \A u \in SlotsWith(dict, p) : t <= u
            w == DeleteEntryAtSlot(dict, s)
            result == [op |-> "pop", key |-> dict.entries[p].key, hit |-> TRUE, absent |-> FALSE]
<1>1. /\ dict' = w /\ calls' = calls + 1 /\ Note(frames, w, absent) /\ last' = result
      /\ program' = program /\ iters' = iters /\ raised' = raised /\ dict.valid > 0
  BY DEF CallPopItem, Replace
<1>2. /\ DictOK(dict) /\ calls \in Nat /\ (frames # <<>> => dict.shape = "general") /\ DictTyped(dict)
  BY GeneralIfWaiting
<1>3. p \in Entries(dict)
  <2>1. \E q \in DOMAIN dict.entries : LastLive(q)
    BY <1>1, <1>2, GreatestEntry DEF Entries
  <2>2. p \in DOMAIN dict.entries /\ LastLive(p)
    BY <2>1, Zenon
  <2>. QED BY <2>2 DEF Entries
<1>. HIDE DEF p
<1>4. dict.entries[p].key \in Keys /\ p \in Nat /\ p > 0 /\ DOMAIN dict.table = Slots(dict) /\ dict.n \in Nat
  BY <1>2, <1>3, TypedIs
<1>5. s \in Slots(dict) /\ dict.table[s] = p
  <2>1. SlotsWith(dict, p) \in SUBSET Nat
    BY <1>4 DEF SlotsWith, Slots
  <2>2. SlotsWith(dict, p) # {}
    BY <1>2, <1>3, <1>4 DEF DictOK, Indexed, SlotsWith
  <2>3. \E t \in SlotsWith(dict, p) : \A u \in SlotsWith(dict, p) : t <= u
    BY <2>1, <2>2, LeastElement
  <2>4. s \in SlotsWith(dict, p)
    BY <2>3, Zenon
  <2>. QED BY <1>4, <2>4 DEF SlotsWith
<1>. HIDE DEF s
<1>6. /\ DictOK(w) /\ w.shape = dict.shape /\ Follows(dict, w, {})
      /\ SameOutside(dict, w, {ClassOf[dict.entries[p].key]})
      /\ w.n = dict.n /\ Len(w.entries) <= Len(dict.entries)
  <2>1. /\ DictOK(w) /\ w.shape = dict.shape /\ Follows(dict, w, {})
        /\ SameOutside(dict, w, {ClassOf[KeyAt(dict, s)]})
        /\ w.n = dict.n /\ Len(w.entries) = Len(dict.entries)
    BY <1>2, <1>4, <1>5, DeleteOK
  <2>2. Len(dict.entries) \in Nat
    BY <1>2, TypedIs
  <2>. HIDE DEF w
  <2>. QED BY <1>5, <2>1, <2>2 DEF KeyAt
<1>7. /\ result # NoValue /\ result.hit = TRUE /\ "key" \in DOMAIN result
      /\ result.key = dict.entries[p].key
  <2>1. result \in [op : Ops, key : Keys, hit : BOOLEAN, absent : BOOLEAN]
    BY <1>4 DEF Ops
  <2>2. result \in Reports
    BY <2>1 DEF Reports
  <2>3. result.hit = TRUE /\ "key" \in DOMAIN result /\ result.key = dict.entries[p].key
    OBVIOUS
  <2>. HIDE DEF result
  <2>. QED BY <2>2, <2>3, DictConstants
<1>. HIDE DEF w, result
<1>8. MissesJustified' /\ calls' \in Nat
  <2>1. MissesJustified'
    BY <1>1, <1>7, Zenon DEF MissesJustified
  <2>. QED BY <1>1, <1>2, <2>1
<1>9. DictInv'
  BY <1>1, <1>2, <1>6, <1>8, QuietStep
<1>10. ASSUME NEW c, ValueOf(w, c) # ValueOf(dict, c) PROVE c = ClassOf[dict.entries[p].key]
  <2>1. CASE c \notin {ClassOf[dict.entries[p].key]}
    BY <1>2, <1>6, <1>10, <2>1, SameValues
  <2>. QED BY <2>1
<1>. QED BY <1>1, <1>7, <1>9, <1>10 DEF OwnKeyStep

\* copy
LEMMA CopyStep ==
  ASSUME DictInv, CallCopy
  PROVE  DictInv' /\ OwnKeyStep
<1>. DEFINE w == CopyOf(dict)
            result == [op |-> "copy"]
<1>1. /\ dict' = w /\ calls' = calls + 1 /\ Note(frames, w, absent) /\ last' = result
      /\ program' = program /\ iters' = iters /\ raised' = raised /\ frames = <<>>
  BY DEF CallCopy, Replace
<1>2. DictOK(dict) /\ calls \in Nat
  BY GeneralIfWaiting
<1>3. DictOK(w) /\ Built(w) /\ Stored(w) = Stored(dict)
  BY <1>2, CopyOK DEF Built
<1>. HIDE DEF w
<1>4. FramesOK(w, frames', absent')
  BY <1>1 DEF Note, FramesOK
<1>5. MissesJustified' /\ calls' \in Nat
  <2>1. "hit" \notin DOMAIN result
    OBVIOUS
  <2>. HIDE DEF result
  <2>. QED BY <1>1, <1>2, <2>1 DEF MissesJustified
<1>6. DictInv'
  <2>1. RoomOK(program, w, frames')
    BY <1>1, <1>3, RoomAlone DEF DictInv, Note
  <2>. QED BY <1>1, <1>3, <1>4, <1>5, <2>1 DEF DictInv
<1>7. \A c : ValueOf(w, c) = ValueOf(dict, c)
  BY <1>3, SameStored
<1>. QED BY <1>1, <1>6, <1>7 DEF OwnKeyStep

\* An iterator is made.
LEMMA MakeStep ==
  ASSUME DictInv, NEW i \in Iterators, MakeIterator(i)
  PROVE  DictInv' /\ OwnKeyStep
<1>1. /\ iters[i] = NoIterator /\ iters' = [iters EXCEPT ![i] = [index |-> 0, expected |-> dict.valid]]
      /\ calls' = calls + 1 /\ last' = NoValue
      /\ program' = program /\ dict' = dict /\ frames' = frames /\ absent' = absent /\ raised' = raised
  BY DEF MakeIterator
<1>2. DictOK(dict) /\ calls \in Nat /\ dict.valid \in Nat
  BY GeneralIfWaiting, TypedIs
<1>3. iters \in [Iterators -> IteratorRecords] /\ \A j \in raised : iters[j].expected = -1
  BY DEF DictInv
<1>4. i \notin raised
  <2>1. iters[i].expected = NoValue
    BY <1>1 DEF NoIterator
  <2>2. NoValue # -1
    BY DictConstants
  <2>. QED BY <1>3, <2>1, <2>2
<1>5. iters' \in [Iterators -> IteratorRecords] /\ \A j \in raised : iters'[j].expected = -1
  <2>1. [index |-> 0, expected |-> dict.valid] \in IteratorRecords
    BY <1>2 DEF IteratorRecords
  <2>2. raised \subseteq Iterators
    BY DEF DictInv
  <2>. QED BY <1>1, <1>3, <1>4, <2>1, <2>2
<1>6. MissesJustified' /\ calls' \in Nat
  BY <1>1, <1>2 DEF MissesJustified
<1>7. DictInv'
  BY <1>1, <1>5, <1>6 DEF DictInv
<1>. QED BY <1>1, <1>7 DEF OwnKeyStep

\* An iterator advances, ends or is poisoned.
LEMMA IterStep ==
  ASSUME DictInv, NEW i \in Iterators, IteratorNext(i)
  PROVE  DictInv' /\ OwnKeyStep
<1>1. /\ calls' = calls + 1 /\ program' = program /\ dict' = dict /\ frames' = frames /\ absent' = absent
  BY DEF IteratorNext
<1>2. /\ DictOK(dict) /\ DictTyped(dict) /\ calls \in Nat /\ dict.valid \in Nat /\ Len(dict.entries) \in Nat
  BY GeneralIfWaiting, TypedIs
<1>3. /\ iters \in [Iterators -> IteratorRecords] /\ raised \subseteq Iterators
      /\ \A j \in raised : iters[j].expected = -1
      /\ iters[i].index \in Nat /\ iters[i].expected \in Int \cup {NoValue}
  BY DEF DictInv, IteratorRecords
<1>4. /\ iters' \in [Iterators -> IteratorRecords] /\ raised' \subseteq Iterators
      /\ \A j \in raised' : iters'[j].expected = -1
      /\ MissesJustified'
  <2>1. CASE dict.valid # iters[i].expected
    <3>1. /\ iters' = [iters EXCEPT ![i].expected = -1] /\ raised' = raised \cup {i} /\ last' = NoValue
      BY <2>1 DEF IteratorNext, ChangedSize
    <3>. DEFINE r == [iters[i] EXCEPT !.expected = -1]
    <3>2. r \in IteratorRecords /\ r.expected = -1 /\ iters' = [iters EXCEPT ![i] = r]
      BY <1>3, <3>1 DEF IteratorRecords
    <3>. HIDE DEF r
    <3>3. \A j \in Iterators : iters'[j] = IF j = i THEN r ELSE iters[j]
      BY <1>3, <3>2
    <3>4. MissesJustified'
      BY <3>1 DEF MissesJustified
    <3>5. iters' \in [Iterators -> IteratorRecords]
      BY <1>3, <3>2
    <3>. QED BY <1>3, <3>1, <3>2, <3>3, <3>4, <3>5
  <2>2. CASE dict.valid = iters[i].expected
    <3>. DEFINE later == {p \in iters[i].index + 1 .. Len(dict.entries) : IsLive(dict.entries[p])}
                p == CHOOSE q \in later : \A r \in later : q <= r
                old == iters[i].index
                x == IF later # {} THEN p ELSE IF old > Len(dict.entries) THEN old ELSE Len(dict.entries)
                r == [iters[i] EXCEPT !.index = x]
    <3>1. /\ iters' = [iters EXCEPT ![i].index = IF later # {} THEN p
                                                 ELSE IF @ > Len(dict.entries) THEN @ ELSE Len(dict.entries)]
          /\ last' = [op |-> "next", iterator |-> i] /\ raised' = raised
      BY <2>2 DEF IteratorNext
    <3>2. later # {} => p \in Nat
      <4>1. later \in SUBSET Nat
        BY <1>2, <1>3
      <4>. HIDE DEF later
      <4>2. ASSUME later # {} PROVE p \in later
        <5>1. \E q \in later : \A r_1 \in later : q <= r_1
          BY <4>1, <4>2, LeastElement
        <5>. QED BY <5>1, Zenon
      <4>. QED BY <4>1, <4>2
    <3>. HIDE DEF later, p
    <3>3. x \in Nat
      BY <1>2, <1>3, <3>2
    <3>4. iters' = [iters EXCEPT ![i] = r]
      BY <1>3, <3>1
    <3>. HIDE DEF x
    <3>5. r \in IteratorRecords /\ r.expected = iters[i].expected
      BY <1>3, <3>3 DEF IteratorRecords
    <3>. HIDE DEF r
    <3>6. \A j \in Iterators : iters'[j] = IF j = i THEN r ELSE iters[j]
      BY <1>3, <3>4
    <3>7. "hit" \notin DOMAIN last'
      BY <3>1
    <3>8. MissesJustified'
      BY <3>7, Zenon DEF MissesJustified
    <3>9. iters' \in [Iterators -> IteratorRecords]
      BY <1>3, <3>4, <3>5
    <3>. QED BY <1>3, <3>1, <3>5, <3>6, <3>8, <3>9
  <2>. QED BY <2>1, <2>2
<1>5. DictInv'
  BY <1>1, <1>2, <1>4 DEF DictInv
<1>. QED BY <1>1, <1>5 DEF OwnKeyStep

\* Steps of the other components.
LEMMA UnchangedStep ==
  ASSUME DictInv, UNCHANGED vars
  PROVE  DictInv' /\ OwnKeyStep
<1>1. DictInv'
  BY DEF vars, DictInv, MissesJustified
<1>. QED BY <1>1 DEF vars, OwnKeyStep

\* Every step keeps the invariant and changes the mapping at its own key only.
LEMMA NextOK ==
  ASSUME DictInv, [Next]_vars
  PROVE  DictInv' /\ OwnKeyStep
<1>1. program.keys \subseteq Keys /\ program.paths \subseteq BOOLEAN /\ program.iterators \subseteq Iterators
  BY ProgramIs
<1>2. ASSUME NEW op \in program.ops \cap Ops, NEW key \in program.keys, NEW v \in Values,
             CallStringKeyed(op, key, v)
      PROVE  DictInv' /\ OwnKeyStep
  <2>1. op \in Ops /\ key \in Keys
    BY <1>1
  <2>. QED BY <1>2, <2>1, StringKeyedStep
<1>3. ASSUME NEW op \in program.ops \cap Ops, NEW key \in program.keys, NEW v \in Values,
             NEW native \in program.paths, BeginCall(op, key, v, native)
      PROVE  DictInv' /\ OwnKeyStep
  <2>1. op \in Ops /\ key \in Keys /\ native \in BOOLEAN
    BY <1>1
  <2>. QED BY <1>3, <2>1, BeginStep
<1>4. CASE HashReturns
  BY <1>4, HashStep
<1>5. CASE EqReturns
  BY <1>5, EqStep
<1>6. CASE Raises
  BY <1>6, RaisesStep
<1>7. CASE CallClear
  BY <1>7, ClearStep
<1>8. CASE CallPopItem
  BY <1>8, PopItemStep
<1>9. CASE CallCopy
  BY <1>9, CopyStep
<1>10. ASSUME NEW i \in program.iterators, MakeIterator(i) \/ IteratorNext(i)
       PROVE  DictInv' /\ OwnKeyStep
  <2>1. i \in Iterators
    BY <1>1
  <2>. QED BY <1>10, <2>1, MakeStep, IterStep
<1>11. CASE UNCHANGED vars
  BY <1>11, UnchangedStep
<1>. QED BY <1>2, <1>3, <1>4, <1>5, <1>6, <1>7, <1>8, <1>9, <1>10, <1>11, Zenon DEF Next
-----------------------------------------------------------------------------
(* What every reachable dictionary and every call in progress satisfy: the *)
(* table and the entries index each other and a call that goes on after a  *)
(* nested one has not lost its place.                                      *)
THEOREM DictInvariant == Spec => []DictInv
<1>1. Init => DictInv
  BY InitOK
<1>2. DictInv /\ [Next]_vars => DictInv'
  BY NextOK
<1>. QED BY <1>1, <1>2, PTL DEF Spec

(* The two conditions the table keeps, whatever runs between two probes of *)
(* insert_new, erase and grow: positions and live entries agree, each once,*)
(* and no empty slot cuts an entry off from the slot its hash selects.     *)
THEOREM TableAlwaysIndexesEntries == Spec => []TableIndexesEntries
<1>1. ASSUME DictInv PROVE TableIndexesEntries
  <2>1. DictOK(dict) /\ DictTyped(dict)
    BY <1>1 DEF DictInv, DictOK
  <2>2. /\ Indexed(dict) /\ EntriesHashed(dict) /\ EntriesReached(dict)
        /\ dict.valid = Cardinality(Entries(dict)) /\ DOMAIN dict.table = Slots(dict)
        /\ Entries(dict) \subseteq 1 .. Len(dict.entries)
    BY <2>1, TypedIs DEF DictOK
  <2>3. {dict.table[s] : s \in DOMAIN dict.table} \ {NotPresent, Tombstone} = Entries(dict)
    BY <2>2 DEF Indexed, NotPresent, Tombstone
  <2>4. ASSUME NEW p \in Entries(dict) PROVE Cardinality(SlotsWith(dict, p)) = 1
    <3>1. PICK s \in Slots(dict) : dict.table[s] = p
      BY <2>2 DEF Indexed
    <3>2. p > 0
      BY <2>2
    <3>3. SlotsWith(dict, p) = {s}
      BY <2>2, <3>1, <3>2 DEF Indexed, SlotsWith
    <3>. QED BY <3>3, FS_Singleton
  <2>5. ASSUME NEW s \in DOMAIN dict.table, dict.table[s] > 0
        PROVE  LET start == dict.entries[dict.table[s]].hash % dict.n
               IN  \A t \in SlotsWith(dict, NotPresent) :
                     Distance(dict.n, start, s) < Distance(dict.n, start, t)
    <3>1. dict.table[s] \in Entries(dict) /\ s \in Slots(dict)
      BY <2>2, <2>5 DEF Indexed, NotPresent, Tombstone
    <3>2. Reaches(dict, Start(dict, KeyAt(dict, s)), s)
      BY <2>2, <2>5, <3>1 DEF EntriesReached
    <3>3. dict.entries[dict.table[s]].hash % dict.n = Start(dict, KeyAt(dict, s))
      BY <2>2, <3>1 DEF EntriesHashed, Start, KeyAt
    <3>4. \A t \in SlotsWith(dict, NotPresent) : t \in Slots(dict) /\ dict.table[t] = NotPresent /\ t # s
      BY <2>2, <2>5 DEF SlotsWith, NotPresent
    <3>. QED BY <3>2, <3>3, <3>4 DEF Reaches
  <2>. QED BY <2>2, <2>3, <2>4, <2>5 DEF TableIndexesEntries
<1>. QED BY <1>1, DictInvariant, PTL

(* Restarted and resumed probes of the lookup and insertion functions never*)
(* report as missing, or insert a second time, a key that was there all the*)
(* time of the call.                                                       *)
THEOREM MissesAlwaysJustified == Spec => []MissesJustified
<1>1. DictInv => MissesJustified
  BY DEF DictInv
<1>. QED BY <1>1, DictInvariant, PTL

(* check_expected_size stores a size no dictionary has: an iterator that   *)
(* has raised raises again.                                                *)
THEOREM PoisonedIteratorsAlwaysStop == Spec => []PoisonedIteratorsStop
<1>1. ASSUME DictInv PROVE PoisonedIteratorsStop
  <2>1. dict.valid \in Nat /\ \A i \in raised : iters[i].expected = -1
    BY <1>1, TypedIs DEF DictInv, DictOK
  <2>. QED BY <2>1 DEF PoisonedIteratorsStop
<1>. QED BY <1>1, DictInvariant, PTL

(* resize_if_needed makes room before a probe only, so the calls that wait *)
(* in __eq__ add to a table that may be at its limit: one entry each.  The *)
(* quarter of the table above the limit takes them, and every probe meets  *)
(* an empty slot, as long as fewer calls can be nested than a quarter of   *)
(* the smallest table has slots: three for the 16 of the code.  The bound  *)
(* is exact: four nested insertions fill that table.                       *)
THEOREM ProbesAlwaysEnd ==
  ASSUME \A p \in Programs : 4 * p.depth < MinTableSize
  PROVE  Spec => []ProbesEnd
<1>1. ASSUME DictInv PROVE ProbesEnd
  <2>1. program \in Programs /\ DictOK(dict) /\ RoomOK(program, dict, frames) /\ frames \in Seq(FrameRecords)
    BY <1>1 DEF DictInv, FramesOK
  <2>. DEFINE limit == (dict.n * 3) \div 4
              most == MaxCalls(program)
              W == Cardinality(Waiting(frames))
  <2>2. /\ dict.n \in Nat /\ Len(dict.entries) \in Nat /\ limit \in Nat /\ most \in Nat /\ W \in Nat
        /\ MinTableSize \in Nat
    BY <2>1, RoomIs
  <2>3. 4 * most < MinTableSize
    <3>1. program.depth \in Nat /\ 4 * program.depth < MinTableSize
      BY <2>1, MaxCallsIs
    <3>. QED BY <3>1, DictConstants DEF MaxCalls
  <2>4. MinTableSize <= dict.n /\ Len(dict.entries) <= limit + (most - W)
    BY <2>1 DEF RoomOK, Fits
  <2>5. 4 * limit <= 3 * dict.n
    BY <2>2
  <2>6. Len(dict.entries) < dict.n
    <3>. HIDE DEF limit, most, W
    <3>. QED BY <2>2, <2>3, <2>4, <2>5
  <2>7. PICK s \in Slots(dict) : dict.table[s] = NotPresent
    BY <2>1, <2>6, FreeSlot
  <2>8. DOMAIN dict.table = Slots(dict)
    BY <2>1, TypedIs DEF DictOK
  <2>. QED BY <2>7, <2>8 DEF ProbesEnd, SlotsWith
<1>. QED BY <1>1, DictInvariant, PTL

(* Growing, copying, deleting and inserting at a remembered tombstone, also*)
(* between two halves of another call, change the value of no other key.   *)
THEOREM OnlyOwnKeyEverChanges == Spec => OnlyOwnKeyChanges
<1>1. DictInv /\ [Next]_vars => OwnKeyStep
  BY NextOK
<1>. QED BY <1>1, DictInvariant, PTL DEF Spec, OnlyOwnKeyChanges, OwnKeyStep
=============================================================================
