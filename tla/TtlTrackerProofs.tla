-------------------------- MODULE TtlTrackerProofs ---------------------------
(* Proofs about TtlTracker, for any table size, packets, TTLs and timeouts. *)
EXTENDS TtlTracker, WellFoundedInduction, TLAPS

(* What storing a difference of two bytes in a byte does.                  *)
LEMMA ByteDifference ==
    ASSUME NEW x \in Byte, NEW y \in Byte
    PROVE  (x - y) % 256 = IF y <= x THEN x - y ELSE 256 + x - y
<1>1. \A d \in 0..255 : d % 256 = d
    BY Z3
<1>2. \A d \in 1..255 : (0 - d) % 256 = 256 - d
    BY Z3
<1>3. CASE y <= x
    BY <1>1, <1>3 DEF Byte
<1>4. CASE x < y
    <2>1. y - x \in 1..255 /\ 0 - (y - x) = x - y
        BY <1>4 DEF Byte
    <2>2. QED
        BY <1>2, <1>4, <2>1 DEF Byte
<1>5. QED
    BY <1>3, <1>4 DEF Byte

AutoTtlSettings == [ttl_1 : Byte, ttl_2 : Byte, ttl_min : Byte, ttl_max : Byte]

(* Raising to the minimum and then lowering to the maximum clamps.         *)
LEMMA ClampArithmetic ==
    ASSUME NEW t \in Byte, NEW a \in AutoTtlSettings
    PROVE  /\ LET raised == IF t < a.ttl_min THEN a.ttl_min ELSE t
              IN  (IF raised > a.ttl_max THEN a.ttl_max ELSE raised) = Clamped(t, a)
           /\ Clamped(t, a) <= a.ttl_max
           /\ a.ttl_min <= a.ttl_max => Clamped(t, a) >= a.ttl_min
<1>1. /\ a.ttl_min \in Int /\ a.ttl_max \in Int /\ t \in Int
    BY DEF AutoTtlSettings, Byte
<1>2. QED
    BY <1>1 DEF Clamped

(* The TTL before it is clamped, as a matter of three bytes.               *)
LEMMA WindowArithmetic ==
    ASSUME NEW c \in Byte, NEW t1 \in Byte, NEW t2 \in Byte
    PROVE  /\ Unlimited(c, t1, t2) \in Byte
           /\ t1 - t2 <= c /\ c <= t1 => Unlimited(c, t1, t2) = c
           /\ 0 <= t1 - t2 /\ (c < t1 - t2 \/ (t1 < c /\ c < 256 + (t1 - t2))) =>
                  Unlimited(c, t1, t2) = t1 - t2
<1> DEFINE hops == (t1 - c) % 256
           distance == IF hops > t2 THEN t2 ELSE hops
           fake == (t1 - distance) % 256
<1>1. hops = IF c <= t1 THEN t1 - c ELSE 256 + t1 - c
    BY ByteDifference
<1> HIDE DEF hops
<1>2. hops \in Byte
    BY <1>1 DEF Byte
<1>3. distance \in Byte /\ distance = IF hops > t2 THEN t2 ELSE hops
    BY <1>2
<1> HIDE DEF distance
<1>4. fake = IF distance <= t1 THEN t1 - distance ELSE 256 + t1 - distance
    BY <1>3, ByteDifference
<1> HIDE DEF fake
<1>5. /\ c \in 0..255 /\ t1 \in 0..255 /\ t2 \in 0..255
      /\ hops \in 0..255 /\ distance \in 0..255
    BY <1>2, <1>3 DEF Byte
<1>6. fake \in Byte
    BY <1>4, <1>5 DEF Byte
<1>7. t1 - t2 <= c /\ c <= t1 => fake = c
    BY <1>1, <1>3, <1>4, <1>5
<1>8. 0 <= t1 - t2 /\ (c < t1 - t2 \/ (t1 < c /\ c < 256 + (t1 - t2))) => fake = t1 - t2
    BY <1>1, <1>3, <1>4, <1>5
<1>9. Unlimited(c, t1, t2) = fake
    BY Zenon DEF Unlimited, fake, distance, hops
<1>10. QED
    BY <1>6, <1>7, <1>8, <1>9, Zenon

(* What ttl_get_auto_ttl() returns, for every TTL and every setting.       *)
LEMMA AutoTtlWindow ==
    ASSUME NEW c \in Byte, NEW a \in AutoTtlSettings
    PROVE  LET f == ttl_get_auto_ttl(c, a)
               low == a.ttl_1 - a.ttl_2
           IN  /\ f <= a.ttl_max /\ (a.ttl_min <= a.ttl_max => f >= a.ttl_min)
               /\ low <= c /\ c <= a.ttl_1 => f = Clamped(c, a)
               /\ 0 <= low /\ (c < low \/ (a.ttl_1 < c /\ c < 256 + low)) =>
                      f = Clamped(low, a)
<1> DEFINE fake == Unlimited(c, a.ttl_1, a.ttl_2)
           low == a.ttl_1 - a.ttl_2
<1>1. a.ttl_1 \in Byte /\ a.ttl_2 \in Byte
    BY DEF AutoTtlSettings
<1>2. /\ fake \in Byte
      /\ low <= c /\ c <= a.ttl_1 => fake = c
      /\ 0 <= low /\ (c < low \/ (a.ttl_1 < c /\ c < 256 + low)) => fake = low
    BY <1>1, WindowArithmetic
<1>3. ttl_get_auto_ttl(c, a) = LET raised == IF fake < a.ttl_min THEN a.ttl_min ELSE fake
                               IN  IF raised > a.ttl_max THEN a.ttl_max ELSE raised
    BY DEF ttl_get_auto_ttl
<1> HIDE DEF fake
<1>4. /\ ttl_get_auto_ttl(c, a) = Clamped(fake, a)
      /\ Clamped(fake, a) <= a.ttl_max
      /\ a.ttl_min <= a.ttl_max => Clamped(fake, a) >= a.ttl_min
    BY <1>2, <1>3, ClampArithmetic
<1>5. QED
    BY <1>2, <1>4

-----------------------------------------------------------------------------
(* What holds of every entry.                                              *)
Sound(e) ==
    /\ e.min_ttl <= e.max_ttl /\ e.original_ttl <= e.max_ttl
    /\ \E t \in e.min_ttl..e.max_ttl : e.ttl_delta = (e.original_ttl - t) % 256
    /\ e.is_established <=> e.packet_count >= TTL_LEARNING_PACKETS

Inv ==
    /\ TypeOK
    /\ OneEntryPerConnection
    /\ \A i \in DOMAIN ttl_table : Sound(ttl_table[i])

(* A new entry is sound, for IPv4 it keeps the first words.                *)
LEMMA NewEntrySound ==
    ASSUME NEW p \in Packets, NEW ttl \in TTLs, now \in Nat
    PROVE  /\ NewEntry(p, ttl) \in Entries /\ Sound(NewEntry(p, ttl))
           /\ NewEntry(p, ttl).src = Stored(p.src, p)
           /\ NewEntry(p, ttl).dst = Stored(p.dst, p)
<1>1. ttl \in Byte /\ p.src \in Endpoints /\ p.dst \in Endpoints
    BY TtlTrackerAssumption
<1>2. Stored(p.src, p) \in Endpoints /\ Stored(p.dst, p) \in Endpoints
    BY <1>1 DEF Stored, Endpoints
<1>3. NewEntry(p, ttl) \in Entries
    BY <1>1, <1>2 DEF NewEntry, Entries, Byte
<1>4. (ttl - ttl) % 256 = 0
    BY <1>1, ByteDifference DEF Byte
<1>5. ttl \in ttl..ttl /\ ttl <= ttl
    BY <1>1 DEF Byte
<1>6. Sound(NewEntry(p, ttl))
    <2> DEFINE e == NewEntry(p, ttl)
    <2>1. /\ e.min_ttl = ttl /\ e.max_ttl = ttl /\ e.original_ttl = ttl
          /\ e.ttl_delta = 0 /\ e.packet_count = 1
        BY DEF NewEntry
    <2>2. ~e.is_established
        BY DEF NewEntry
    <2> HIDE DEF e
    <2>3. ~(e.packet_count >= TTL_LEARNING_PACKETS)
        BY <2>1, TtlTrackerAssumption
    <2>4. \E t \in e.min_ttl..e.max_ttl : e.ttl_delta = (e.original_ttl - t) % 256
        BY <1>4, <1>5, <2>1
    <2>5. Sound(e)
        BY <1>5, <2>1, <2>2, <2>3, <2>4 DEF Sound
    <2>6. QED
        BY <2>5 DEF e
<1>7. QED
    BY <1>3, <1>6 DEF NewEntry

(* A range of bytes that takes in one more; 0 stands for "not known".      *)
LEMMA RangeArithmetic ==
    ASSUME NEW mn \in Byte, NEW mx \in Byte, NEW og \in Byte, NEW ttl \in Byte,
           mn <= mx, og <= mx
    PROVE  LET lo == IF ttl < mn \/ mn = 0 THEN ttl ELSE mn
               hi == IF ttl > mx \/ mx = 0 THEN ttl ELSE mx
               orig == IF og = 0 THEN ttl ELSE og
           IN  /\ lo \in Byte /\ hi \in Byte /\ orig \in Byte
               /\ lo <= hi /\ ttl \in lo..hi /\ orig <= hi
BY DEF Byte

(* Learning from a packet keeps the range of an entry in order.            *)
LEMMA LearnSound ==
    ASSUME NEW e \in Entries, NEW ttl \in Byte,
           e.min_ttl <= e.max_ttl, e.original_ttl <= e.max_ttl
    PROVE  /\ Learn(e, ttl) \in Entries /\ Sound(Learn(e, ttl))
           /\ Learn(e, ttl).src = e.src /\ Learn(e, ttl).dst = e.dst
<1> DEFINE lo == IF ttl < e.min_ttl \/ e.min_ttl = 0 THEN ttl ELSE e.min_ttl
           hi == IF ttl > e.max_ttl \/ e.max_ttl = 0 THEN ttl ELSE e.max_ttl
           orig == IF e.original_ttl = 0 THEN ttl ELSE e.original_ttl
           delta == (orig - ttl) % 256
           est == e.packet_count >= TTL_LEARNING_PACKETS
           n == Learn(e, ttl)
<1>1. e.min_ttl \in Byte /\ e.max_ttl \in Byte /\ e.original_ttl \in Byte
    BY DEF Entries
<1>2. /\ lo \in Byte /\ hi \in Byte /\ orig \in Byte
      /\ lo <= hi /\ ttl \in lo..hi /\ orig <= hi
    BY <1>1, RangeArithmetic, Zenon
<1>3. n = [e EXCEPT !.min_ttl = lo, !.max_ttl = hi, !.original_ttl = orig,
                    !.ttl_delta = delta, !.is_established = est]
    BY DEF Learn, Entries
<1> HIDE DEF lo, hi, orig
<1>4. delta \in Byte
    BY <1>2, ByteDifference DEF Byte
<1>5. est \in BOOLEAN
    OBVIOUS
<1> HIDE DEF delta, est, n
<1>6. n \in Entries
    BY <1>2, <1>3, <1>4, <1>5, Zenon DEF Entries
<1>7. /\ n.min_ttl = lo /\ n.max_ttl = hi /\ n.original_ttl = orig
      /\ n.ttl_delta = delta /\ n.packet_count = e.packet_count
      /\ n.src = e.src /\ n.dst = e.dst
    BY <1>3 DEF Entries
<1>8. n.is_established = est
    BY <1>3 DEF Entries
<1>9. n.is_established <=> n.packet_count >= TTL_LEARNING_PACKETS
    BY <1>7, <1>8, Zenon DEF est
<1>10. \E t \in n.min_ttl..n.max_ttl : n.ttl_delta = (n.original_ttl - t) % 256
    BY <1>2, <1>7 DEF delta
<1>11. Sound(n)
    BY <1>2, <1>7, <1>9, <1>10 DEF Sound
<1>12. QED
    BY <1>6, <1>7, <1>11 DEF n

(* Records of the shape of an entry, whatever the fields hold.             *)
Shape(E, Y, T, B) ==
    [src : E, dst : E, original_ttl : Y, min_ttl : Y, max_ttl : Y, ttl_delta : Y,
     last_seen : T, packet_count : T, is_established : B]

(* Entries that agree on all fields are equal.                             *)
LEMMA ShapeEqual ==
    ASSUME NEW E, NEW Y, NEW T, NEW B,
           NEW e \in Shape(E, Y, T, B), NEW f \in Shape(E, Y, T, B),
           f.src = e.src, f.dst = e.dst, f.original_ttl = e.original_ttl,
           f.min_ttl = e.min_ttl, f.max_ttl = e.max_ttl, f.ttl_delta = e.ttl_delta,
           f.last_seen = e.last_seen, f.packet_count = e.packet_count,
           f.is_established = e.is_established
    PROVE  f = e
BY DEF Shape

(* An entry with another age and another count.                            *)
Aged(e, age, count) == [e EXCEPT !.last_seen = age, !.packet_count = count]

(* f is an entry that differs from e in the age and the count only.        *)
Ages(f, e, age, count) ==
    /\ f \in Entries
    /\ f.src = e.src /\ f.dst = e.dst /\ f.original_ttl = e.original_ttl
    /\ f.min_ttl = e.min_ttl /\ f.max_ttl = e.max_ttl /\ f.ttl_delta = e.ttl_delta
    /\ f.is_established = e.is_established
    /\ f.last_seen = age /\ f.packet_count = count

(* Only the age and the count of an aged entry are others.                 *)
LEMMA EntryUpdated ==
    ASSUME NEW e \in Entries, NEW x \in Nat, NEW y \in Nat
    PROVE  Ages(Aged(e, x, y), e, x, y)
BY Zenon DEF Entries, Aged, Ages

(* A packet that is counted changes the age and the count of its entry.    *)
LEMMA SeenFacts ==
    ASSUME NEW e \in Entries, now \in Nat
    PROVE  /\ Seen(e) \in Entries
           /\ Seen(e).min_ttl = e.min_ttl /\ Seen(e).max_ttl = e.max_ttl
           /\ Seen(e).ttl_delta = e.ttl_delta /\ Seen(e).original_ttl = e.original_ttl
           /\ Seen(e).src = e.src /\ Seen(e).dst = e.dst
           /\ Seen(e).packet_count = e.packet_count + 1
           /\ Seen(e).is_established = e.is_established
<1> DEFINE c == e.packet_count + 1
<1>1. c \in Nat
    BY DEF Entries
<1>2. Seen(e) = Aged(e, now, c)
    BY Zenon DEF Seen, Aged, Entries
<1> HIDE DEF c
<1>3. Ages(Seen(e), e, now, c)
    BY <1>1, <1>2, EntryUpdated, Zenon
<1>4. QED
    BY <1>3, Zenon DEF c, Ages

(* One more packet keeps an entry sound and its connection the same.       *)
LEMMA UpdatedSound ==
    ASSUME NEW e \in Entries, Sound(e), NEW ttl \in Byte, now \in Nat
    PROVE  /\ Updated(e, ttl) \in Entries /\ Sound(Updated(e, ttl))
           /\ Updated(e, ttl).src = e.src /\ Updated(e, ttl).dst = e.dst
<1> DEFINE s == Seen(e)
<1>1. s \in Entries
    BY SeenFacts
<1>2. /\ s.min_ttl = e.min_ttl /\ s.max_ttl = e.max_ttl /\ s.ttl_delta = e.ttl_delta
      /\ s.original_ttl = e.original_ttl /\ s.packet_count = e.packet_count + 1
      /\ s.src = e.src /\ s.dst = e.dst
    BY SeenFacts
<1>3. s.is_established = e.is_established
    BY SeenFacts
<1> HIDE DEF s
<1>4. CASE e.is_established
    <2>1. s.packet_count >= TTL_LEARNING_PACKETS
        BY <1>2, <1>4, TtlTrackerAssumption DEF Sound, Entries
    <2>2. Sound(s)
        BY <1>2, <1>3, <1>4, <2>1 DEF Sound
    <2>3. Updated(e, ttl) = s
        BY <1>4 DEF Updated, s
    <2>4. QED
        BY <1>1, <1>2, <2>2, <2>3
<1>5. CASE ~e.is_established
    <2>1. s.min_ttl <= s.max_ttl /\ s.original_ttl <= s.max_ttl
        BY <1>2 DEF Sound
    <2>2. Updated(e, ttl) = Learn(s, ttl)
        BY <1>5 DEF Updated, s
    <2>3. QED
        BY <1>1, <1>2, <2>1, <2>2, LearnSound
<1>6. QED
    BY <1>4, <1>5

(* A set of numbers that is not empty has a least element.                 *)
LEMMA LeastElement ==
    ASSUME NEW S \in SUBSET Nat, S # {}
    PROVE  \E i \in S : \A j \in S : i <= j
<1>1. IsWellFoundedOn(OpToRel(<, Nat), Nat)
    BY NatLessThanWellFounded, Zenon
<1>2. PICK m \in S : \A j \in S : <<j, m>> \notin OpToRel(<, Nat)
    BY <1>1, WFMin, Zenon
<1>3. \A j \in S : ~(j < m)
    BY <1>2, Zenon DEF OpToRel
<1>4. QED
    BY <1>3

(* An entry that no packet of p matches belongs to another connection than *)
(* the entry p would get.                                                  *)
LEMMA UnmatchedIsOther ==
    ASSUME NEW e \in Entries, NEW p \in Packets, NEW f \in Entries,
           f.src = Stored(p.src, p), f.dst = Stored(p.dst, p), ~Matches(e, p)
    PROVE  ~SameConnection(e, f) /\ ~SameConnection(f, e)
<1>1. /\ p.src \in Endpoints /\ p.dst \in Endpoints
      /\ e.src \in Endpoints /\ e.dst \in Endpoints
    BY TtlTrackerAssumption DEF Entries
<1>2. \A a, b \in Endpoints : a = Stored(b, p) => SameEndpoint(a, b, p)
    BY DEF Stored, SameEndpoint, Endpoints
<1>3. ~(e.src = f.src /\ e.dst = f.dst) /\ ~(e.src = f.dst /\ e.dst = f.src)
    BY <1>1, <1>2 DEF Matches
<1>4. QED
    BY <1>3 DEF SameConnection

-----------------------------------------------------------------------------
(* What the operations do to the table, index by index.                    *)

(* What the invariant says of the table, without the names.                *)
LEMMA InvFacts ==
    ASSUME Inv
    PROVE  /\ ttl_table \in Seq(Entries) /\ Len(ttl_table) <= MAX_TTL_ENTRIES
           /\ now \in Nat /\ Len(ttl_table) \in Nat
           /\ DOMAIN ttl_table = 1..Len(ttl_table)
           /\ \A i \in DOMAIN ttl_table : ttl_table[i] \in Entries /\ Sound(ttl_table[i])
           /\ \A i, j \in DOMAIN ttl_table :
                  SameConnection(ttl_table[i], ttl_table[j]) => i = j
BY DEF Inv, TypeOK, OneEntryPerConnection

(* A packet of a known connection updates the first entry that matches.    *)
LEMMA UpdateEffect ==
    ASSUME Inv, NEW p \in Packets, NEW ttl \in TTLs, UpdateEntry(p, ttl)
    PROVE  \E k \in DOMAIN ttl_table : LET u == Updated(ttl_table[k], ttl) IN
           /\ ttl_table' \in Seq(Entries) /\ Len(ttl_table') = Len(ttl_table)
           /\ DOMAIN ttl_table' = DOMAIN ttl_table
           /\ \A i \in DOMAIN ttl_table : ttl_table'[i] = IF i = k THEN u ELSE ttl_table[i]
           /\ Sound(u) /\ u.src = ttl_table[k].src /\ u.dst = ttl_table[k].dst
<1> DEFINE k == find_ttl_entry(p)
           u == Updated(ttl_table[k], ttl)
<1>1. k \in DOMAIN ttl_table
    <2>1. Matching(p) # {} /\ \A i \in Matching(p) : i \in Nat
        BY InvFacts DEF UpdateEntry, Matching
    <2>2. \E i \in Matching(p) : \A j \in Matching(p) : i <= j
        BY <2>1, LeastElement
    <2>3. QED
        BY <2>2 DEF find_ttl_entry, Matching
<1>2. /\ u \in Entries /\ Sound(u)
      /\ u.src = ttl_table[k].src /\ u.dst = ttl_table[k].dst
    BY <1>1, InvFacts, UpdatedSound, TtlTrackerAssumption
<1>3. ttl_table' = [ttl_table EXCEPT ![k] = u]
    BY DEF UpdateEntry
<1> HIDE DEF k, u
<1>4. /\ ttl_table' \in Seq(Entries) /\ Len(ttl_table') = Len(ttl_table)
      /\ DOMAIN ttl_table' = DOMAIN ttl_table
      /\ \A i \in DOMAIN ttl_table : ttl_table'[i] = IF i = k THEN u ELSE ttl_table[i]
    BY <1>1, <1>2, <1>3, InvFacts
<1>5. QED
    BY <1>1, <1>2, <1>4 DEF u

(* The entry a packet of an unknown connection gets belongs to no          *)
(* connection of the table.                                                *)
LEMMA NewEntryIsOther ==
    ASSUME Inv, NEW p \in Packets, NEW ttl \in TTLs, Matching(p) = {}
    PROVE  /\ NewEntry(p, ttl) \in Entries /\ Sound(NewEntry(p, ttl))
           /\ \A i \in DOMAIN ttl_table :
                  /\ ~SameConnection(ttl_table[i], NewEntry(p, ttl))
                  /\ ~SameConnection(NewEntry(p, ttl), ttl_table[i])
<1>1. /\ NewEntry(p, ttl) \in Entries /\ Sound(NewEntry(p, ttl))
      /\ NewEntry(p, ttl).src = Stored(p.src, p)
      /\ NewEntry(p, ttl).dst = Stored(p.dst, p)
    BY InvFacts, NewEntrySound
<1>2. \A i \in DOMAIN ttl_table : ~Matches(ttl_table[i], p)
    BY DEF Matching
<1>3. QED
    BY <1>1, <1>2, InvFacts, UnmatchedIsOther

(* With room left it goes to the end of the table.                         *)
LEMMA AppendEffect ==
    ASSUME Inv, NEW p \in Packets, NEW ttl \in TTLs, AppendEntry(p, ttl)
    PROVE  LET l == Len(ttl_table) IN
           /\ ttl_table' \in Seq(Entries) /\ Len(ttl_table') = l + 1
           /\ l + 1 <= MAX_TTL_ENTRIES
           /\ DOMAIN ttl_table' = 1..(l + 1)
           /\ \A i \in 1..(l + 1) : i = l + 1 \/ i \in 1..l
           /\ \A i \in 1..l : i \in 1..(l + 1) /\ ttl_table'[i] = ttl_table[i]
           /\ ttl_table'[l + 1] = NewEntry(p, ttl)
<1> DEFINE n == NewEntry(p, ttl)
           l == Len(ttl_table)
<1>1. n \in Entries
    BY NewEntryIsOther DEF AppendEntry
<1>2. ttl_table' = Append(ttl_table, n) /\ l < MAX_TTL_ENTRIES
    BY DEF AppendEntry
<1> HIDE DEF n
<1>3. /\ ttl_table' \in Seq(Entries) /\ l \in Nat /\ Len(ttl_table') = l + 1
      /\ DOMAIN ttl_table' = 1..(l + 1) /\ DOMAIN ttl_table = 1..l
      /\ \A i \in 1..l : ttl_table'[i] = ttl_table[i]
      /\ ttl_table'[l + 1] = n
    BY <1>1, <1>2, InvFacts
<1> HIDE DEF l
<1>4. /\ l + 1 <= MAX_TTL_ENTRIES
      /\ \A i \in 1..(l + 1) : i = l + 1 \/ i \in 1..l
      /\ \A i \in 1..l : i \in 1..(l + 1)
    BY <1>2, <1>3, TtlTrackerAssumption
<1>5. QED
    BY <1>3, <1>4 DEF l, n

(* A function that is changed at one point.                                *)
LEMMA UpdatedFunction ==
    ASSUME NEW S, NEW T, NEW f \in [S -> T], NEW g, NEW k \in S, NEW v \in T,
           g = [f EXCEPT ![k] = v]
    PROVE  g \in [S -> T] /\ \A i \in S : g[i] = IF i = k THEN v ELSE f[i]
OBVIOUS

(* In a full table it replaces one entry that is still being learnt, and   *)
(* none of those has been silent longer.                                   *)
LEMMA ReplaceEffect ==
    ASSUME Inv, NEW p \in Packets, NEW ttl \in TTLs, ReplaceEntry(p, ttl)
    PROVE  \E k \in DOMAIN ttl_table :
           /\ ttl_table' \in Seq(Entries) /\ Len(ttl_table') = Len(ttl_table)
           /\ DOMAIN ttl_table' = DOMAIN ttl_table
           /\ \A i \in DOMAIN ttl_table :
                  ttl_table'[i] = IF i = k THEN NewEntry(p, ttl) ELSE ttl_table[i]
           /\ ~ttl_table[k].is_established
           /\ \A j \in DOMAIN ttl_table :
                  ttl_table[j].is_established \/ ttl_table[j].last_seen >= ttl_table[k].last_seen
<1> DEFINE n == NewEntry(p, ttl)
           l == Len(ttl_table)
           seen == {ttl_table[i].last_seen : i \in Replaceable}
<1>1. n \in Entries
    BY NewEntryIsOther DEF ReplaceEntry
<1>2. /\ ttl_table' = [ttl_table EXCEPT ![Oldest] = n]
      /\ Replaceable # {} /\ Replaceable \subseteq DOMAIN ttl_table
    BY DEF ReplaceEntry, Replaceable
<1>3. \A i \in DOMAIN ttl_table : ttl_table[i].last_seen \in Nat
    BY InvFacts DEF Entries
<1>4. Oldest \in Replaceable /\ \A j \in Replaceable :
              ttl_table[Oldest].last_seen <= ttl_table[j].last_seen
    <2>0. seen \in SUBSET Nat /\ seen # {}
        BY <1>2, <1>3
    <2>1. PICK t \in seen : \A x \in seen : t <= x
        BY <2>0, LeastElement, Zenon
    <2> DEFINE first == {i \in Replaceable : ttl_table[i].last_seen = t}
    <2>2. first \in SUBSET Nat /\ first # {}
        BY <1>2, <2>1, InvFacts
    <2>3. PICK m \in first : \A j \in first : m <= j
        BY <2>2, LeastElement, Zenon
    <2>4. m \in Replaceable /\ ttl_table[m].last_seen = t /\ t \in Nat
        BY <1>2, <1>3, <2>3
    <2>5. ASSUME NEW j \in Replaceable
          PROVE  \/ ttl_table[m].last_seen < ttl_table[j].last_seen
                 \/ ttl_table[m].last_seen = ttl_table[j].last_seen /\ m <= j
        <3>1. t <= ttl_table[j].last_seen /\ ttl_table[j].last_seen \in Nat
            BY <1>2, <1>3, <2>1
        <3>2. ttl_table[j].last_seen = t => m <= j
            BY <2>3
        <3>3. QED
            BY <2>4, <3>1, <3>2
    <2>6. /\ Oldest \in Replaceable
          /\ \A j \in Replaceable :
                 \/ ttl_table[Oldest].last_seen < ttl_table[j].last_seen
                 \/ ttl_table[Oldest].last_seen = ttl_table[j].last_seen /\ Oldest <= j
        BY <2>4, <2>5, Zenon DEF Oldest
    <2>7. QED
        BY <1>2, <1>3, <2>6
<1> HIDE DEF n, l
<1>5. l \in Nat /\ DOMAIN ttl_table = 1..l /\ ttl_table \in [1..l -> Entries]
    BY InvFacts DEF l
<1>6. /\ ttl_table' \in [1..l -> Entries]
      /\ \A i \in 1..l : ttl_table'[i] = IF i = Oldest THEN n ELSE ttl_table[i]
    BY <1>1, <1>2, <1>4, <1>5, UpdatedFunction
<1>7. ttl_table' \in Seq(Entries) /\ Len(ttl_table') = l
    BY <1>5, <1>6
<1>8. ASSUME NEW j \in DOMAIN ttl_table, ~ttl_table[j].is_established
      PROVE  ttl_table[j].last_seen >= ttl_table[Oldest].last_seen
    <2>1. CASE j \in Replaceable
        BY <1>2, <1>3, <1>4, <2>1
    <2>2. CASE j \notin Replaceable
        <3>1. ttl_table[j].last_seen >= now /\ ttl_table[Oldest].last_seen < now
            BY <1>3, <1>4, <1>8, <2>2, InvFacts DEF Replaceable
        <3>2. QED
            BY <1>2, <1>3, <1>4, <3>1, InvFacts
    <2>3. QED
        BY <2>1, <2>2
<1>9. Oldest \in DOMAIN ttl_table /\ ~ttl_table[Oldest].is_established
    BY <1>4 DEF Replaceable
<1>10. QED
    BY <1>5, <1>6, <1>7, <1>8, <1>9 DEF l, n

(* A sweep keeps the entries that have not expired, each once.             *)
LEMMA SweepEffect ==
    ASSUME Inv, ttl_tracker_cleanup_expired
    PROVE  \E n \in Nat : \E from \in [1..n -> DOMAIN ttl_table] :
           /\ ttl_table' \in Seq(Entries) /\ Len(ttl_table') = n
           /\ n <= MAX_TTL_ENTRIES /\ DOMAIN ttl_table' = 1..n
           /\ \A k \in 1..n : ttl_table'[k] = ttl_table[from[k]]
           /\ \A j, k \in 1..n : from[j] = from[k] => j = k
           /\ \A i \in DOMAIN ttl_table : IsExpired(ttl_table[i]) \/ \E k \in 1..n : from[k] = i
<1> DEFINE Kept == {i \in DOMAIN ttl_table : ~IsExpired(ttl_table[i])}
<1>0. PICK n \in 0..Len(ttl_table) : \E from \in [1..n -> Kept] :
          /\ \A j, k \in 1..n : j < k => from[j] < from[k]
          /\ \A i \in Kept : \E k \in 1..n : from[k] = i
          /\ ttl_table' = [k \in 1..n |-> ttl_table[from[k]]]
    BY Zenon DEF ttl_tracker_cleanup_expired
<1>1. PICK from \in [1..n -> Kept] :
          /\ \A j, k \in 1..n : j < k => from[j] < from[k]
          /\ \A i \in Kept : \E k \in 1..n : from[k] = i
          /\ ttl_table' = [k \in 1..n |-> ttl_table[from[k]]]
    BY <1>0, Zenon
<1>2. /\ from \in [1..n -> DOMAIN ttl_table]
      /\ \A k \in 1..n : from[k] \in DOMAIN ttl_table /\ ttl_table'[k] = ttl_table[from[k]]
    BY <1>1
<1>3. /\ n \in Nat /\ n <= MAX_TTL_ENTRIES /\ DOMAIN ttl_table' = 1..n
      /\ ttl_table' \in Seq(Entries) /\ Len(ttl_table') = n
    <2>1. n \in Nat /\ n <= Len(ttl_table) /\ Len(ttl_table) \in Nat
        BY InvFacts
    <2>2. ttl_table' \in [1..n -> Entries]
        BY <1>1, <1>2, InvFacts
    <2>3. QED
        BY <2>1, <2>2, InvFacts, TtlTrackerAssumption
<1>4. \A j, k \in 1..n : from[j] = from[k] => j = k
    <2>1. SUFFICES ASSUME NEW j \in 1..n, NEW k \in 1..n, from[j] = from[k], j # k
                   PROVE FALSE
        OBVIOUS
    <2>2. from[j] \in Int /\ from[k] \in Int /\ j \in Int /\ k \in Int
        BY <1>2, <1>3, InvFacts
    <2>3. j < k \/ k < j
        BY <2>1, <2>2
    <2>4. QED
        BY <1>1, <2>1, <2>2, <2>3
<1>5. \A i \in DOMAIN ttl_table : IsExpired(ttl_table[i]) \/ \E k \in 1..n : from[k] = i
    BY <1>1
<1>6. QED
    BY <1>2, <1>3, <1>4, <1>5

(* The steps of the tracker, one by one.                                   *)
LEMMA StepIsAnAction ==
    ASSUME [Next]_vars
    PROVE  \/ \E p \in Packets, ttl \in TTLs : UpdateEntry(p, ttl) /\ now' = now
           \/ \E p \in Packets, ttl \in TTLs : AppendEntry(p, ttl) /\ now' = now
           \/ \E p \in Packets, ttl \in TTLs : ReplaceEntry(p, ttl) /\ now' = now
           \/ ttl_tracker_cleanup_expired
           \/ ttl_table' = <<>> /\ now' = now
           \/ ttl_table' = ttl_table /\ (now' = now \/ now' = now + 1)
BY DEF Next, vars, ttl_track_update, ttl_tracker_init, ttl_tracker_cleanup, Tick

(* Every step of the tracker keeps the invariant.                          *)
LEMMA InvInductive == Inv /\ [Next]_vars => Inv'
<1> SUFFICES ASSUME Inv, [Next]_vars PROVE Inv'
    OBVIOUS
<1>0. ASSUME now' \in Nat, ttl_table' \in Seq(Entries), Len(ttl_table') <= MAX_TTL_ENTRIES,
             \A i \in DOMAIN ttl_table' : Sound(ttl_table'[i]),
             \A i, j \in DOMAIN ttl_table' :
                 SameConnection(ttl_table'[i], ttl_table'[j]) => i = j
      PROVE  Inv'
    <2>1. TypeOK'
        BY <1>0 DEF TypeOK
    <2>2. OneEntryPerConnection'
        BY <1>0 DEF OneEntryPerConnection, SameConnection
    <2>3. (\A i \in DOMAIN ttl_table : Sound(ttl_table[i]))'
        BY <1>0 DEF Sound
    <2>4. QED
        BY <2>1, <2>2, <2>3 DEF Inv
<1>1. CASE ttl_table' = ttl_table /\ (now' = now \/ now' = now + 1)
    BY <1>0, <1>1, InvFacts
<1>2. ASSUME NEW p \in Packets, NEW ttl \in TTLs, UpdateEntry(p, ttl), now' = now
      PROVE  Inv'
    <2>1. PICK k \in DOMAIN ttl_table : LET u == Updated(ttl_table[k], ttl) IN
           /\ ttl_table' \in Seq(Entries) /\ Len(ttl_table') = Len(ttl_table)
           /\ DOMAIN ttl_table' = DOMAIN ttl_table
           /\ \A i \in DOMAIN ttl_table : ttl_table'[i] = IF i = k THEN u ELSE ttl_table[i]
           /\ Sound(u) /\ u.src = ttl_table[k].src /\ u.dst = ttl_table[k].dst
        BY <1>2, UpdateEffect
    <2>2. \A i \in DOMAIN ttl_table : /\ ttl_table'[i].src = ttl_table[i].src
                                     /\ ttl_table'[i].dst = ttl_table[i].dst
        BY <2>1
    <2>3. \A i, j \in DOMAIN ttl_table' : SameConnection(ttl_table'[i], ttl_table'[j]) => i = j
        <3>1. \A i, j \in DOMAIN ttl_table :
                  SameConnection(ttl_table'[i], ttl_table'[j])
                      => SameConnection(ttl_table[i], ttl_table[j])
            BY <2>2 DEF SameConnection
        <3>2. QED
            BY <2>1, <3>1, InvFacts
    <2>4. \A i \in DOMAIN ttl_table' : Sound(ttl_table'[i])
        BY <2>1, InvFacts
    <2>5. QED
        BY <1>0, <1>2, <2>1, <2>3, <2>4, InvFacts
<1>3. ASSUME NEW p \in Packets, NEW ttl \in TTLs, AppendEntry(p, ttl), now' = now
      PROVE  Inv'
    <2> DEFINE n == NewEntry(p, ttl)
               l == Len(ttl_table)
    <2>1. /\ Sound(n)
          /\ \A i \in DOMAIN ttl_table : ~SameConnection(ttl_table[i], n)
                                         /\ ~SameConnection(n, ttl_table[i])
        BY <1>3, NewEntryIsOther DEF AppendEntry
    <2>2. /\ ttl_table' \in Seq(Entries) /\ Len(ttl_table') <= MAX_TTL_ENTRIES
          /\ DOMAIN ttl_table' = 1..(l + 1) /\ DOMAIN ttl_table = 1..l
          /\ \A i \in 1..(l + 1) : i = l + 1 \/ i \in 1..l
          /\ \A i \in 1..l : ttl_table'[i] = ttl_table[i]
          /\ ttl_table'[l + 1] = n
        BY <1>3, AppendEffect, InvFacts
    <2> HIDE DEF n, l
    <2>3. \A i, j \in DOMAIN ttl_table' : SameConnection(ttl_table'[i], ttl_table'[j]) => i = j
        BY <2>1, <2>2, InvFacts
    <2>4. \A i \in DOMAIN ttl_table' : Sound(ttl_table'[i])
        BY <2>1, <2>2, InvFacts
    <2>5. QED
        BY <1>0, <1>3, <2>2, <2>3, <2>4, InvFacts
<1>4. ASSUME NEW p \in Packets, NEW ttl \in TTLs, ReplaceEntry(p, ttl), now' = now
      PROVE  Inv'
    <2> DEFINE n == NewEntry(p, ttl)
    <2>1. /\ Sound(n)
          /\ \A i \in DOMAIN ttl_table : ~SameConnection(ttl_table[i], n)
                                         /\ ~SameConnection(n, ttl_table[i])
        BY <1>4, NewEntryIsOther DEF ReplaceEntry
    <2>2. PICK k \in DOMAIN ttl_table :
          /\ ttl_table' \in Seq(Entries) /\ Len(ttl_table') = Len(ttl_table)
          /\ DOMAIN ttl_table' = DOMAIN ttl_table
          /\ \A i \in DOMAIN ttl_table : ttl_table'[i] = IF i = k THEN n ELSE ttl_table[i]
        BY <1>4, ReplaceEffect
    <2> HIDE DEF n
    <2>3. \A i, j \in DOMAIN ttl_table' : SameConnection(ttl_table'[i], ttl_table'[j]) => i = j
        BY <2>1, <2>2, InvFacts
    <2>4. \A i \in DOMAIN ttl_table' : Sound(ttl_table'[i])
        BY <2>1, <2>2, InvFacts
    <2>5. QED
        BY <1>0, <1>4, <2>2, <2>3, <2>4, InvFacts
<1>5. CASE ttl_tracker_cleanup_expired
    <2>0. PICK n \in Nat : \E from \in [1..n -> DOMAIN ttl_table] :
          /\ ttl_table' \in Seq(Entries) /\ Len(ttl_table') = n
          /\ n <= MAX_TTL_ENTRIES /\ DOMAIN ttl_table' = 1..n
          /\ \A k \in 1..n : ttl_table'[k] = ttl_table[from[k]]
          /\ \A j, k \in 1..n : from[j] = from[k] => j = k
        BY <1>5, SweepEffect
    <2>1. PICK from \in [1..n -> DOMAIN ttl_table] :
          /\ ttl_table' \in Seq(Entries) /\ Len(ttl_table') = n
          /\ n <= MAX_TTL_ENTRIES /\ DOMAIN ttl_table' = 1..n
          /\ \A k \in 1..n : ttl_table'[k] = ttl_table[from[k]]
          /\ \A j, k \in 1..n : from[j] = from[k] => j = k
        BY <2>0
    <2>2. now' = now
        BY <1>5 DEF ttl_tracker_cleanup_expired
    <2>3. \A j, k \in DOMAIN ttl_table' : SameConnection(ttl_table'[j], ttl_table'[k]) => j = k
        BY <2>1, InvFacts
    <2>4. \A k \in DOMAIN ttl_table' : Sound(ttl_table'[k])
        BY <2>1, InvFacts
    <2>5. QED
        BY <1>0, <2>1, <2>2, <2>3, <2>4, InvFacts
<1>6. CASE ttl_table' = <<>> /\ now' = now
    BY <1>0, <1>6, InvFacts, TtlTrackerAssumption
<1>7. QED
    BY <1>1, <1>2, <1>3, <1>4, <1>5, <1>6, StepIsAnAction, Zenon

(* The invariant holds in every reachable state.                           *)
LEMMA Invariance == Spec => []Inv
<1>1. Init => Inv
    BY TtlTrackerAssumption DEF Init, Inv, TypeOK, OneEntryPerConnection, Sound
<1>2. QED
    BY <1>1, InvInductive, PTL DEF Spec

-----------------------------------------------------------------------------
(* The table never holds more than its entries, and each is a record of    *)
(* bytes and counts: the array of ttl_tracker.c is never overrun.          *)
THEOREM TypeCorrect == Spec => []TypeOK
<1>1. Inv => TypeOK
    BY DEF Inv
<1>2. QED
    BY <1>1, Invariance, PTL

(* Packets of both directions and both IP versions, evictions and sweeps   *)
(* in any order leave one entry for a connection in ttl_table.             *)
THEOREM OneEntry == Spec => []OneEntryPerConnection
<1>1. Inv => OneEntryPerConnection
    BY DEF Inv
<1>2. QED
    BY <1>1, Invariance, PTL

(* What ttl_track_update() learns is consistent: the range, the first TTL  *)
(* and the 8-bit delta.                                                    *)
THEOREM LearntIsConsistent == Spec => []LearnedRange
<1>1. Inv => LearnedRange
    BY DEF Inv, Sound, LearnedRange
<1>2. QED
    BY <1>1, Invariance, PTL

(* Learning ends with the packet that completes the count, for any number  *)
(* of packets to learn from.                                               *)
THEOREM LearningEnds == Spec => []EstablishedWhenLearned
<1>1. Inv => EstablishedWhenLearned
    BY DEF Inv, Sound, EstablishedWhenLearned
<1>2. QED
    BY <1>1, Invariance, PTL

(* ttl_get_auto_ttl() stays in its window for every setting and whatever a *)
(* connection has taught, byte wrap-around included.                       *)
THEOREM FakeTtl == Spec => []FakeTtlInWindow
<1>1. Inv => FakeTtlInWindow
    <2> SUFFICES ASSUME Inv, NEW i \in DOMAIN ttl_table, NEW a \in AutoTtl,
                        NEW c \in {ttl_table[i].min_ttl, ttl_table[i].max_ttl}
                 PROVE  LET f == ttl_get_auto_ttl(c, a)
                            low == a.ttl_1 - a.ttl_2
                        IN  /\ f <= a.ttl_max /\ (a.ttl_min <= a.ttl_max => f >= a.ttl_min)
                            /\ low <= c /\ c <= a.ttl_1 => f = Clamped(c, a)
                            /\ 0 <= low /\ (c < low \/ (a.ttl_1 < c /\ c < 256 + low)) =>
                                   f = Clamped(low, a)
        BY DEF FakeTtlInWindow
    <2>1. ttl_table[i] \in Entries
        BY DEF Inv, TypeOK
    <2>2. c \in Byte
        BY <2>1 DEF Entries
    <2>3. a \in AutoTtlSettings
        BY TtlTrackerAssumption DEF AutoTtlSettings
    <2>4. QED
        BY <2>2, <2>3, AutoTtlWindow
<1>2. QED
    BY <1>1, Invariance, PTL
-----------------------------------------------------------------------------
(* What a step may do to a connection.                                     *)

(* The entry of a connection that is in the table before and after a step  *)
(* is the same, or it has seen one more packet.                            *)
LEMMA Successor ==
    ASSUME Inv, [Next]_vars, NEW i \in DOMAIN ttl_table,
           NEW j \in EntryOf(ttl_table[i], ttl_table')
    PROVE  \/ ttl_table'[j] = ttl_table[i]
           \/ \E ttl \in TTLs : ttl_table'[j] = Updated(ttl_table[i], ttl)
<1>0. /\ j \in DOMAIN ttl_table' /\ SameConnection(ttl_table'[j], ttl_table[i])
      /\ \A k \in DOMAIN ttl_table : SameConnection(ttl_table[k], ttl_table[i]) => k = i
    BY InvFacts DEF EntryOf
<1>1. CASE ttl_table' = ttl_table
    BY <1>0, <1>1
<1>2. ASSUME NEW p \in Packets, NEW ttl \in TTLs, UpdateEntry(p, ttl)
      PROVE  \/ ttl_table'[j] = ttl_table[i]
             \/ ttl_table'[j] = Updated(ttl_table[i], ttl)
    <2>1. PICK k \in DOMAIN ttl_table : LET u == Updated(ttl_table[k], ttl) IN
           /\ DOMAIN ttl_table' = DOMAIN ttl_table
           /\ \A m \in DOMAIN ttl_table : ttl_table'[m] = IF m = k THEN u ELSE ttl_table[m]
           /\ u.src = ttl_table[k].src /\ u.dst = ttl_table[k].dst
        BY <1>2, UpdateEffect
    <2>2. SameConnection(ttl_table[j], ttl_table[i])
        BY <1>0, <2>1 DEF SameConnection
    <2>3. QED
        BY <1>0, <2>1, <2>2
<1>3. ASSUME NEW p \in Packets, NEW ttl \in TTLs,
             AppendEntry(p, ttl) \/ ReplaceEntry(p, ttl)
      PROVE  ttl_table'[j] = ttl_table[i]
    <2>1. ~SameConnection(NewEntry(p, ttl), ttl_table[i])
        BY <1>3, NewEntryIsOther DEF AppendEntry, ReplaceEntry
    <2>2. \/ ttl_table'[j] = NewEntry(p, ttl)
          \/ j \in DOMAIN ttl_table /\ ttl_table'[j] = ttl_table[j]
        BY <1>0, <1>3, AppendEffect, ReplaceEffect, InvFacts
    <2>3. QED
        BY <1>0, <2>1, <2>2
<1>4. CASE ttl_tracker_cleanup_expired
    <2>1. PICK n \in Nat : \E from \in [1..n -> DOMAIN ttl_table] :
          /\ DOMAIN ttl_table' = 1..n
          /\ \A k \in 1..n : ttl_table'[k] = ttl_table[from[k]]
        BY <1>4, SweepEffect
    <2>2. PICK m \in DOMAIN ttl_table : ttl_table'[j] = ttl_table[m]
        BY <1>0, <2>1
    <2>3. QED
        BY <1>0, <2>2
<1>5. CASE ttl_table' = <<>>
    BY <1>0, <1>5
<1>6. QED
    BY <1>1, <1>2, <1>3, <1>4, <1>5, StepIsAnAction, Zenon

(* A packet widens the range of its connection, or the connection is       *)
(* established and its range stands.                                       *)
LEMMA UpdatedWidens ==
    ASSUME NEW e \in Entries, NEW ttl \in Byte, now \in Nat
    PROVE  LET u == Updated(e, ttl) IN
           /\ u.min_ttl <= e.min_ttl \/ e.min_ttl = 0
           /\ u.max_ttl >= e.max_ttl
           /\ u.original_ttl = e.original_ttl \/ e.original_ttl = 0
<1> DEFINE s == Seen(e)
<1>1. /\ e.min_ttl \in Byte /\ e.max_ttl \in Byte /\ e.original_ttl \in Byte
      /\ \A b \in Byte : b \in Nat
    BY DEF Entries, Byte
<1>2. s \in Entries
    BY SeenFacts
<1>3. /\ s.min_ttl = e.min_ttl /\ s.max_ttl = e.max_ttl
      /\ s.original_ttl = e.original_ttl
    BY SeenFacts
<1> HIDE DEF s
<1>4. CASE e.is_established
    <2>1. Updated(e, ttl) = s
        BY <1>4 DEF Updated, s
    <2>2. QED
        BY <1>1, <1>3, <2>1
<1>5. CASE ~e.is_established
    <2>1. Updated(e, ttl) = Learn(s, ttl)
        BY <1>5 DEF Updated, s
    <2>2. LET l == Learn(s, ttl) IN
          /\ l.min_ttl = IF ttl < s.min_ttl \/ s.min_ttl = 0 THEN ttl ELSE s.min_ttl
          /\ l.max_ttl = IF ttl > s.max_ttl \/ s.max_ttl = 0 THEN ttl ELSE s.max_ttl
          /\ l.original_ttl = IF s.original_ttl = 0 THEN ttl ELSE s.original_ttl
        BY <1>2 DEF Learn, Entries
    <2>3. QED
        BY <1>1, <1>3, <2>1, <2>2
<1>6. QED
    BY <1>4, <1>5

(* Two entries that differ in the age and the count only.                  *)
SameLesson(e, f) == Aged(f, 0, 0) = Aged(e, 0, 0)

(* Of an established connection a packet changes the age and the count.    *)
LEMMA UpdatedFreezes ==
    ASSUME NEW e \in Entries, NEW ttl, e.is_established, now \in Nat
    PROVE  SameLesson(e, Updated(e, ttl))
<1> DEFINE f == Seen(e)
           e0 == Aged(e, 0, 0)
           f0 == Aged(f, 0, 0)
<1>1. /\ f \in Entries
      /\ f.min_ttl = e.min_ttl /\ f.max_ttl = e.max_ttl /\ f.ttl_delta = e.ttl_delta
      /\ f.original_ttl = e.original_ttl /\ f.src = e.src /\ f.dst = e.dst
      /\ f.is_established = e.is_established
    BY SeenFacts, Zenon
<1>2. Updated(e, ttl) = f
    BY DEF Updated
<1> HIDE DEF f
<1>3. 0 \in Nat
    OBVIOUS
<1>4. Ages(e0, e, 0, 0)
    BY <1>3, EntryUpdated, Zenon
<1>5. Ages(f0, f, 0, 0)
    BY <1>1, <1>3, EntryUpdated, Zenon
<1> HIDE DEF e0, f0
<1>6. Entries = Shape(Endpoints, Byte, Nat, BOOLEAN)
    BY Zenon DEF Entries, Shape
<1>7. f0 = e0
    <2>1. /\ f0.src = e0.src /\ f0.dst = e0.dst /\ f0.original_ttl = e0.original_ttl
          /\ f0.min_ttl = e0.min_ttl /\ f0.max_ttl = e0.max_ttl
          /\ f0.ttl_delta = e0.ttl_delta /\ f0.is_established = e0.is_established
          /\ f0.last_seen = e0.last_seen /\ f0.packet_count = e0.packet_count
        BY <1>1, <1>4, <1>5, Zenon DEF Ages
    <2>2. /\ e0 \in Shape(Endpoints, Byte, Nat, BOOLEAN)
          /\ f0 \in Shape(Endpoints, Byte, Nat, BOOLEAN)
        BY <1>4, <1>5, <1>6, Zenon DEF Ages
    <2>3. QED
        BY <2>1, <2>2, ShapeEqual, Zenon
<1>8. QED
    BY <1>2, <1>7, Zenon DEF SameLesson, e0, f0

(* What ttl_track_update() has learnt of a connection by its tenth packet  *)
(* stays, for any table size and whatever packets follow.                  *)
THEOREM Frozen == Spec => EstablishedIsFrozen
<1> DEFINE Kept == \A i \in DOMAIN ttl_table : ttl_table[i].is_established =>
               \A j \in EntryOf(ttl_table[i], ttl_table') :
                   [ttl_table'[j] EXCEPT !.last_seen = 0, !.packet_count = 0]
                     = [ttl_table[i] EXCEPT !.last_seen = 0, !.packet_count = 0]
<1>1. Inv /\ [Next]_vars => [Kept]_vars
    <2>1. ASSUME Inv, [Next]_vars, NEW i \in DOMAIN ttl_table,
                 ttl_table[i].is_established,
                 NEW j \in EntryOf(ttl_table[i], ttl_table')
          PROVE  SameLesson(ttl_table[i], ttl_table'[j])
        <3>1. ttl_table[i] \in Entries /\ now \in Nat
            BY <2>1, InvFacts
        <3>2. \A ttl : SameLesson(ttl_table[i], Updated(ttl_table[i], ttl))
            BY <2>1, <3>1, UpdatedFreezes
        <3>3. SameLesson(ttl_table[i], ttl_table[i])
            BY DEF SameLesson
        <3>4. QED
            BY <2>1, <3>2, <3>3, Successor
    <2>2. QED
        BY <2>1, Zenon DEF SameLesson, Aged
<1>2. QED
    BY <1>1, Invariance, PTL DEF Spec, EstablishedIsFrozen

(* The range ttl_track_update() learns only widens, and the first TTL it   *)
(* saw stays, but for the value 0 that the code reads as "not known".      *)
THEOREM Widening == Spec => RangeOnlyWidens
<1> DEFINE Widens(e, f) ==
               /\ f.min_ttl <= e.min_ttl \/ e.min_ttl = 0
               /\ f.max_ttl >= e.max_ttl
               /\ f.original_ttl = e.original_ttl \/ e.original_ttl = 0
           Widen == \A i \in DOMAIN ttl_table :
               \A j \in EntryOf(ttl_table[i], ttl_table') :
                   LET e == ttl_table[i] f == ttl_table'[j] IN
                   /\ f.min_ttl <= e.min_ttl \/ e.min_ttl = 0
                   /\ f.max_ttl >= e.max_ttl
                   /\ f.original_ttl = e.original_ttl \/ e.original_ttl = 0
<1>1. Inv /\ [Next]_vars => [Widen]_vars
    <2> SUFFICES ASSUME Inv, [Next]_vars, NEW i \in DOMAIN ttl_table,
                        NEW j \in EntryOf(ttl_table[i], ttl_table')
                 PROVE  Widens(ttl_table[i], ttl_table'[j])
        OBVIOUS
    <2>1. ttl_table[i] \in Entries /\ now \in Nat
        BY InvFacts
    <2>2. Widens(ttl_table[i], ttl_table[i])
        BY <2>1 DEF Entries, Byte
    <2>3. \A ttl \in TTLs : Widens(ttl_table[i], Updated(ttl_table[i], ttl))
        BY <2>1, UpdatedWidens, TtlTrackerAssumption
    <2>4. QED
        BY <2>2, <2>3, Successor
<1>2. QED
    BY <1>1, Invariance, PTL DEF Spec, RangeOnlyWidens

(* A connection leaves the table of any size only by expiring, by a reset, *)
(* or, still being learnt, as one that has been silent longest in a full   *)
(* table.                                                                  *)
THEOREM Forgetting == Spec => ForgottenForAReason
<1> DEFINE Reason(e) ==
               \/ IsExpired(e)
               \/ ttl_table' = <<>>
               \/ /\ Len(ttl_table) = MAX_TTL_ENTRIES
                  /\ ~e.is_established
                  /\ \A j \in DOMAIN ttl_table :
                         ttl_table[j].is_established \/ ttl_table[j].last_seen >= e.last_seen
           Forgotten == \A i \in DOMAIN ttl_table : LET e == ttl_table[i] IN
               EntryOf(e, ttl_table') = {} =>
                   \/ IsExpired(e)
                   \/ ttl_table' = <<>>
                   \/ /\ Len(ttl_table) = MAX_TTL_ENTRIES
                      /\ ~e.is_established
                      /\ \A j \in DOMAIN ttl_table :
                             ttl_table[j].is_established \/ ttl_table[j].last_seen >= e.last_seen
<1>1. Inv /\ [Next]_vars => [Forgotten]_vars
    <2> SUFFICES ASSUME Inv, [Next]_vars, NEW i \in DOMAIN ttl_table,
                        EntryOf(ttl_table[i], ttl_table') = {}
                 PROVE  Reason(ttl_table[i])
        OBVIOUS
    <2>0. \A j \in DOMAIN ttl_table' : ~SameConnection(ttl_table'[j], ttl_table[i])
        BY DEF EntryOf
    <2>1. i \in DOMAIN ttl_table' => ttl_table'[i] # ttl_table[i]
        BY <2>0 DEF SameConnection
    <2>2. CASE ttl_table' = ttl_table
        BY <2>1, <2>2
    <2>3. ASSUME NEW p \in Packets, NEW ttl \in TTLs, UpdateEntry(p, ttl)
          PROVE  FALSE
        <3>1. PICK k \in DOMAIN ttl_table : LET u == Updated(ttl_table[k], ttl) IN
               /\ DOMAIN ttl_table' = DOMAIN ttl_table
               /\ \A m \in DOMAIN ttl_table : ttl_table'[m] = IF m = k THEN u ELSE ttl_table[m]
               /\ u.src = ttl_table[k].src /\ u.dst = ttl_table[k].dst
            BY <2>3, UpdateEffect
        <3>2. SameConnection(ttl_table'[i], ttl_table[i])
            BY <3>1 DEF SameConnection
        <3>3. QED
            BY <2>0, <3>1, <3>2
    <2>4. ASSUME NEW p \in Packets, NEW ttl \in TTLs, AppendEntry(p, ttl)
          PROVE  FALSE
        BY <2>1, <2>4, AppendEffect, InvFacts
    <2>5. ASSUME NEW p \in Packets, NEW ttl \in TTLs, ReplaceEntry(p, ttl)
          PROVE  Reason(ttl_table[i])
        <3>1. PICK k \in DOMAIN ttl_table :
              /\ DOMAIN ttl_table' = DOMAIN ttl_table
              /\ \A m \in DOMAIN ttl_table :
                     ttl_table'[m] = IF m = k THEN NewEntry(p, ttl) ELSE ttl_table[m]
              /\ ~ttl_table[k].is_established
              /\ \A j \in DOMAIN ttl_table :
                     ttl_table[j].is_established \/ ttl_table[j].last_seen >= ttl_table[k].last_seen
            BY <2>5, ReplaceEffect
        <3>2. i = k
            BY <2>1, <3>1
        <3>3. Len(ttl_table) = MAX_TTL_ENTRIES
            BY <2>5 DEF ReplaceEntry
        <3>4. QED
            BY <3>1, <3>2, <3>3
    <2>6. CASE ttl_tracker_cleanup_expired
        <3>1. PICK n \in Nat : \E from \in [1..n -> DOMAIN ttl_table] :
              /\ DOMAIN ttl_table' = 1..n
              /\ \A k \in 1..n : ttl_table'[k] = ttl_table[from[k]]
              /\ \A m \in DOMAIN ttl_table :
                     IsExpired(ttl_table[m]) \/ \E k \in 1..n : from[k] = m
            BY <2>6, SweepEffect
        <3>2. IsExpired(ttl_table[i]) \/ \E k \in DOMAIN ttl_table' : ttl_table'[k] = ttl_table[i]
            BY <3>1
        <3>3. QED
            BY <2>0, <3>2 DEF SameConnection
    <2>7. QED
        BY <2>2, <2>3, <2>4, <2>5, <2>6, StepIsAnAction, Zenon
<1>2. QED
    BY <1>1, Invariance, PTL DEF Spec, ForgottenForAReason
=============================================================================
