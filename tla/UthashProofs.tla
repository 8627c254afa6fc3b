---------------------------- MODULE UthashProofs ----------------------------
(* Proofs about Uthash, for any elements, keys, hash function and number of *)
(* buckets: what the operations of the table do to a consistent one.        *)
EXTENDS Uthash, NaturalsInduction, WellFoundedInduction, TLAPS

(* A remainder is the only number below the divisor that leaves a multiple. *)
LEMMA ModUnique ==
    ASSUME NEW n \in Nat \ {0}, NEW q \in Int, NEW r \in 0..(n - 1)
    PROVE  (n * q + r) % n = r
OBVIOUS

(* Quotient and remainder.                                                 *)
LEMMA DivMod ==
    ASSUME NEW n \in Nat \ {0}, NEW h \in Nat
    PROVE  /\ h % n \in 0..(n - 1) /\ h \div n \in Nat
           /\ h = n * (h \div n) + (h % n)
OBVIOUS

(* An element's bucket out of 2n is its bucket out of n or the image of    *)
(* that in the upper half.                                                 *)
LEMMA Halving ==
    ASSUME NEW n \in Nat \ {0}, NEW h \in Nat
    PROVE  (h % (2 * n)) % n = h % n
<1> DEFINE m == 2 * n
           q == h \div m
           r == h % m
<1>1. m \in Nat \ {0}
    OBVIOUS
<1>2. r \in 0..(m - 1) /\ q \in Nat /\ h = m * q + r
    BY <1>1, DivMod, Zenon
<1> HIDE DEF q, r
<1>3. CASE r < n
    <2>1. r = n * 0 + r /\ h = n * (2 * q) + r
        BY <1>2
    <2>2. r % n = r
        BY <1>2, <1>3
    <2>3. h % n = r
        BY <1>2, <1>3, <2>1, ModUnique
    <2>4. QED
        BY <2>2, <2>3 DEF r
<1>4. CASE r >= n
    <2>1. r = n * 1 + (r - n) /\ h = n * (2 * q + 1) + (r - n) /\ r - n \in 0..(n - 1)
        BY <1>2, <1>4
    <2>2. r % n = r - n
        BY <1>2, <2>1, ModUnique
    <2>3. h % n = r - n
        BY <1>2, <2>1, ModUnique
    <2>4. QED
        BY <2>2, <2>3 DEF r
<1>5. QED
    BY <1>2, <1>3, <1>4

-----------------------------------------------------------------------------
(* s lists the elements of T, each of them once.                           *)
Lists(s, T) == s \in Seq(T) /\ IsInjective(s) /\ Range(s) = T

(* A new element at the head of a list.                                    *)
LEMMA ConsLists ==
    ASSUME NEW T, NEW s, Lists(s, T), NEW e, e \notin T
    PROVE  /\ Lists(<<e>> \o s, T \cup {e}) /\ Len(<<e>> \o s) = Len(s) + 1
<1> DEFINE c == <<e>> \o s
<1>1. s \in Seq(T \cup {e}) /\ Len(s) \in Nat
    BY DEF Lists
<1>2. c \in Seq(T \cup {e}) /\ Len(c) = Len(s) + 1 /\ c[1] = e
      /\ \A i \in 1..Len(s) : c[i + 1] = s[i]
    BY <1>1
<1> HIDE DEF c
<1>3. DOMAIN c = 1..(Len(s) + 1) /\ DOMAIN s = 1..Len(s)
    BY <1>1, <1>2
<1>4. \A j \in DOMAIN c : j = 1 \/ (j - 1 \in DOMAIN s /\ c[j] = s[j - 1])
    BY <1>1, <1>2, <1>3
<1>5. \A i \in DOMAIN s : s[i] \in T /\ s[i] # e
    BY DEF Lists
<1>6. IsInjective(c)
    <2>1. ASSUME NEW i \in DOMAIN c, NEW j \in DOMAIN c, c[i] = c[j] PROVE i = j
        <3>1. CASE i = 1 \/ j = 1
            BY <1>2, <1>4, <1>5, <2>1, <3>1
        <3>2. CASE i # 1 /\ j # 1
            <4>1. i - 1 = j - 1
                BY <1>4, <2>1, <3>2 DEF Lists, IsInjective
            <4>2. QED
                BY <1>1, <1>3, <2>1, <4>1
        <3>3. QED
            BY <3>1, <3>2
    <2>2. QED
        BY <2>1 DEF IsInjective
<1>7. Range(c) = T \cup {e}
    <2>1. ASSUME NEW x \in T PROVE \E j \in DOMAIN c : c[j] = x
        <3>1. PICK i \in DOMAIN s : s[i] = x
            BY <2>1 DEF Lists, Range
        <3>2. i + 1 \in DOMAIN c /\ c[i + 1] = x
            BY <1>1, <1>2, <1>3, <3>1
        <3>3. QED
            BY <3>2
    <2>2. 1 \in DOMAIN c
        BY <1>1, <1>3
    <2>3. \A j \in DOMAIN c : c[j] \in T \cup {e}
        BY <1>2
    <2>4. QED
        BY <1>2, <2>1, <2>2, <2>3 DEF Range
<1>8. QED
    BY <1>2, <1>6, <1>7 DEF Lists, c

(* A new element at the end of a list.                                     *)
LEMMA AppendLists ==
    ASSUME NEW T, NEW s, Lists(s, T), NEW e, e \notin T
    PROVE  /\ Lists(Append(s, e), T \cup {e}) /\ Len(Append(s, e)) = Len(s) + 1
<1> DEFINE c == Append(s, e)
<1>1. s \in Seq(T \cup {e}) /\ Len(s) \in Nat /\ DOMAIN s = 1..Len(s)
    BY DEF Lists
<1>2. /\ c \in Seq(T \cup {e}) /\ Len(c) = Len(s) + 1 /\ c[Len(s) + 1] = e
      /\ DOMAIN c = 1..(Len(s) + 1) /\ \A i \in DOMAIN s : i \in DOMAIN c /\ c[i] = s[i]
    BY <1>1
<1> HIDE DEF c
<1>3. \A j \in DOMAIN c : j = Len(s) + 1 \/ j \in DOMAIN s
    BY <1>1, <1>2
<1>4. \A i \in DOMAIN s : s[i] \in T /\ s[i] # e
    BY DEF Lists
<1>5. IsInjective(c)
    <2>1. ASSUME NEW i \in DOMAIN c, NEW j \in DOMAIN c, c[i] = c[j] PROVE i = j
        BY <1>2, <1>3, <1>4, <2>1 DEF Lists, IsInjective
    <2>2. QED
        BY <2>1 DEF IsInjective
<1>6. Range(c) = T \cup {e}
    <2>1. \A x \in T : \E j \in DOMAIN c : c[j] = x
        BY <1>2 DEF Lists, Range
    <2>2. Len(s) + 1 \in DOMAIN c
        BY <1>1, <1>2
    <2>3. \A j \in DOMAIN c : c[j] \in T \cup {e}
        BY <1>2
    <2>4. QED
        BY <1>2, <2>1, <2>2, <2>3 DEF Range
<1>7. QED
    BY <1>2, <1>5, <1>6 DEF Lists, c

(* A sequence with its k-th element cut out.                               *)
LEMMA CutFacts ==
    ASSUME NEW T, NEW s \in Seq(T), NEW k \in 1..Len(s)
    PROVE  /\ SubSeq(s, 1, k - 1) \o SubSeq(s, k + 1, Len(s)) \in Seq(T)
           /\ Len(SubSeq(s, 1, k - 1) \o SubSeq(s, k + 1, Len(s))) = Len(s) - 1
           /\ \A i \in 1..(Len(s) - 1) : (SubSeq(s, 1, k - 1) \o SubSeq(s, k + 1, Len(s)))[i]
                    = IF i < k THEN s[i] ELSE s[i + 1]
<1> DEFINE a == SubSeq(s, 1, k - 1)
           b == SubSeq(s, k + 1, Len(s))
<1>1. a \in Seq(T) /\ b \in Seq(T)
    OBVIOUS
<1>2. Len(a) = k - 1
    OBVIOUS
<1>3. Len(b) = Len(s) - k
    OBVIOUS
<1>4. ASSUME NEW i \in 1..(k - 1) PROVE a[i] = s[i]
    OBVIOUS
<1>5. ASSUME NEW i \in 1..(Len(s) - k) PROVE b[i] = s[i + k]
    OBVIOUS
<1> HIDE DEF a, b
<1>6. a \o b \in Seq(T) /\ Len(a \o b) = Len(s) - 1
    BY <1>1, <1>2, <1>3
<1>7. ASSUME NEW i \in 1..(Len(s) - 1)
      PROVE (a \o b)[i] = IF i < k THEN s[i] ELSE s[i + 1]
    <2>1. CASE i < k
        <3>1. (a \o b)[i] = a[i]
            BY <1>1, <1>2, <1>3, <2>1
        <3>2. i \in 1..(k - 1)
            BY <2>1
        <3>3. QED
            BY <1>4, <2>1, <3>1, <3>2, Zenon
    <2>2. CASE ~(i < k)
        <3>1. (a \o b)[i] = b[i - (k - 1)]
            BY <1>1, <1>2, <1>3, <2>2
        <3>2. i - (k - 1) \in 1..(Len(s) - k) /\ i - (k - 1) + k = i + 1
            BY <2>2
        <3>3. b[i - (k - 1)] = s[i - (k - 1) + k]
            BY <1>5, <3>2, Zenon
        <3>4. QED
            BY <2>2, <3>1, <3>2, <3>3, Zenon
    <2>3. QED
        BY <2>1, <2>2, Zenon
<1>8. QED
    BY <1>6, <1>7, Zenon DEF a, b

(* A list without one of its elements.                                     *)
LEMMA UnlinkLists ==
    ASSUME NEW T, NEW s, Lists(s, T), NEW e \in T
    PROVE  /\ Lists(Unlink(s, e), T \ {e}) /\ Len(Unlink(s, e)) = Len(s) - 1
           /\ Len(s) > 0
<1> DEFINE k == CHOOSE j \in DOMAIN s : s[j] = e
           L == Len(s)
           c == SubSeq(s, 1, k - 1) \o SubSeq(s, k + 1, L)
<1>1. k \in DOMAIN s /\ s[k] = e
    BY Zenon DEF Lists, Range
<1> HIDE DEF k
<1>2. s \in Seq(T) /\ L \in Nat /\ DOMAIN s = 1..L /\ k \in 1..L /\ k \in Int
    BY <1>1 DEF Lists
<1>3. /\ c \in Seq(T) /\ Len(c) = L - 1
      /\ \A i \in 1..(L - 1) : c[i] = IF i < k THEN s[i] ELSE s[i + 1]
    BY <1>2, CutFacts, Zenon
<1> HIDE DEF c, L
<1>4. DOMAIN c = 1..(L - 1)
    BY <1>3
<1> DEFINE from(i) == IF i < k THEN i ELSE i + 1
<1>5. ASSUME NEW i \in DOMAIN c
      PROVE  from(i) \in DOMAIN s /\ from(i) # k /\ c[i] = s[from(i)]
    BY <1>2, <1>3, <1>4, <1>5
<1>6. ASSUME NEW i \in DOMAIN c, NEW j \in DOMAIN c, from(i) = from(j) PROVE i = j
    BY <1>2, <1>4, <1>6
<1>7. ASSUME NEW h \in DOMAIN s, h # k PROVE \E i \in DOMAIN c : from(i) = h
    <2>1. CASE h < k
        <3>1. h \in DOMAIN c /\ from(h) = h
            BY <1>2, <1>4, <1>7, <2>1
        <3>2. QED
            BY <3>1
    <2>2. CASE h > k
        <3>1. h - 1 \in DOMAIN c /\ from(h - 1) = h
            BY <1>2, <1>4, <1>7, <2>2
        <3>2. QED
            BY <3>1
    <2>3. QED
        BY <1>2, <1>7, <2>1, <2>2
<1> HIDE DEF from
<1>8. \A h \in DOMAIN s : s[h] = e => h = k
    BY <1>1, Zenon DEF Lists, IsInjective
<1>9. \A i \in DOMAIN c : c[i] \in T \ {e}
    BY <1>2, <1>5, <1>8
<1>10. IsInjective(c)
    BY <1>5, <1>6, Zenon DEF Lists, IsInjective
<1>11. Range(c) = T \ {e}
    <2>1. ASSUME NEW x \in T \ {e} PROVE \E i \in DOMAIN c : c[i] = x
        <3>1. PICK h \in DOMAIN s : s[h] = x
            BY Zenon DEF Lists, Range
        <3>2. QED
            BY <1>1, <1>5, <1>7, <3>1
    <2>2. QED
        BY <1>9, <2>1 DEF Range
<1>12. c \in Seq(T \ {e})
    BY <1>3, <1>9
<1>13. c = Unlink(s, e)
    BY Zenon DEF Unlink, c, k, L
<1>14. Lists(c, T \ {e})
    BY <1>10, <1>11, <1>12, Zenon DEF Lists
<1>15. L > 0
    BY <1>2
<1>16. QED
    BY <1>3, <1>13, <1>14, <1>15, Zenon DEF L

-----------------------------------------------------------------------------
(* The buckets.                                                            *)
(* The elements of E that belong to bucket b out of nb.                    *)
Members(E, key, nb, b) == {e \in E : HASH_TO_BKT(HASH_VALUE(key[e]), nb) = b}

(* The bucket's chain lists the elements of T, and its count is their      *)
(* number.                                                                 *)
Holds(bkt, T) ==
    /\ bkt = [chain |-> bkt.chain, count |-> bkt.count, expand_mult |-> bkt.expand_mult]
    /\ Lists(bkt.chain, T) /\ bkt.count = Len(bkt.chain)
    /\ bkt.count \in Nat /\ bkt.expand_mult \in Nat

(* The bucket is no longer than its share of ideal chains.                 *)
Bounded(bkt, ideal) == bkt.count <= (bkt.expand_mult + 1) * ideal

(* A set of numbers that is not empty has a least one.                     *)
LEMMA Least ==
    ASSUME NEW S, S \subseteq Nat, S # {}
    PROVE  \E m \in S : \A k \in S : ~(k < m)
<1>1. PICK m \in S : \A k \in S : <<k, m>> \notin OpToRel(<, Nat)
    BY NatLessThanWellFounded, WFMin, Zenon
<1>2. \A k \in S : ~(k < m)
    BY <1>1, Zenon DEF OpToRel
<1>3. QED
    BY <1>2, Zenon

(* An empty bucket holds nothing.                                          *)
LEMMA EmptyHolds ==
    ASSUME NEW ideal \in Nat
    PROVE  Holds(EmptyBucket, {}) /\ Bounded(EmptyBucket, ideal)
<1> DEFINE q == << >>
<1>1. Lists(q, {}) /\ Len(q) = 0
    BY DEF Lists, IsInjective, Range
<1>2. EmptyBucket.chain = q /\ EmptyBucket.count = 0 /\ EmptyBucket.expand_mult = 0
      /\ EmptyBucket = [chain |-> q, count |-> 0, expand_mult |-> 0]
    BY DEF EmptyBucket
<1> HIDE DEF q
<1>3. QED
    BY <1>1, <1>2 DEF Holds, Bounded

(* The step of the multiplier keeps a bucket within its share.             *)
LEMMA ShareArithmetic ==
    ASSUME NEW c \in Nat, NEW m \in Nat, NEW ideal \in Nat \ {0}, c <= (m + 1) * ideal
    PROVE  c + 1 <= ((m + IF c + 1 > ideal /\ c + 1 > m * ideal THEN 1 ELSE 0) + 1) * ideal
<1> DEFINE x == m * ideal
<1>1. x \in Nat /\ (m + 1) * ideal = x + ideal /\ ((m + 1) + 1) * ideal = x + ideal + ideal
      /\ ((m + 0) + 1) * ideal = x + ideal
    OBVIOUS
<1>2. CASE c + 1 > ideal /\ c + 1 > x
    BY <1>1, <1>2
<1>3. CASE ~(c + 1 > ideal /\ c + 1 > x)
    BY <1>1, <1>3
<1>4. QED
    BY <1>2, <1>3

(* An expansion comes to an element that its bucket does not hold yet.     *)
LEMMA VisitHolds ==
    ASSUME NEW T, NEW bkt, Holds(bkt, T), NEW e, e \notin T, NEW key, NEW b, NEW nb,
           NEW ideal \in Nat \ {0}, Bounded(bkt, ideal)
    PROVE  LET new == Visit(bkt, e, key, b, nb, ideal) IN
           /\ IF HASH_TO_BKT(HASH_VALUE(key[e]), nb) = b THEN Holds(new, T \cup {e})
                                                         ELSE Holds(new, T)
           /\ Bounded(new, ideal)
<1> DEFINE new == Visit(bkt, e, key, b, nb, ideal)
           n == bkt.count + 1
           m == bkt.expand_mult + IF n > ideal /\ n > bkt.expand_mult * ideal THEN 1 ELSE 0
           q == <<e>> \o bkt.chain
<1>1. CASE HASH_TO_BKT(HASH_VALUE(key[e]), nb) # b
    BY <1>1, Zenon DEF Visit
<1>2. CASE HASH_TO_BKT(HASH_VALUE(key[e]), nb) = b
    <2>1. Lists(q, T \cup {e}) /\ Len(q) = Len(bkt.chain) + 1
        BY ConsLists, Zenon DEF Holds
    <2>2. bkt.count \in Nat /\ bkt.expand_mult \in Nat /\ bkt.count = Len(bkt.chain)
          /\ bkt.count <= (bkt.expand_mult + 1) * ideal
        BY Zenon DEF Holds, Bounded
    <2>3. n \in Nat /\ m \in Nat
        BY <2>2
    <2>4. n <= (m + 1) * ideal
        BY <2>2, ShareArithmetic, Zenon
    <2>5. new = [chain |-> q, count |-> n, expand_mult |-> m]
        BY <1>2, Zenon DEF Visit
    <2> HIDE DEF new, m, q
    <2>6. new.chain = q /\ new.count = n /\ new.expand_mult = m
        BY <2>5, Zenon
    <2>7. n = Len(q)
        BY <2>1, <2>2, Zenon
    <2> HIDE DEF n
    <2>8. Holds(new, T \cup {e}) /\ Bounded(new, ideal)
        BY <2>1, <2>3, <2>4, <2>5, <2>6, <2>7, Zenon DEF Holds, Bounded
    <2>9. QED
        BY <1>2, <2>8, Zenon DEF new
<1>3. QED
    BY <1>1, <1>2, Zenon

(* after is the recursive function of Rehashed, for the first n elements.  *)
Rehashing(after, n, chain, key, b, nb, ideal) ==
    after = [i \in 0..n |->
                IF i = 0 THEN EmptyBucket
                ELSE Visit(after[i - 1], chain[i], key, b, nb, ideal)]

(* There is such a function.                                               *)
LEMMA RehashingExists ==
    ASSUME NEW chain, NEW key, NEW b, NEW nb, NEW ideal, NEW n \in Nat
    PROVE  \E f : Rehashing(f, n, chain, key, b, nb, ideal)
<1> DEFINE R(f, k) == Rehashing(f, k, chain, key, b, nb, ideal)
           V(x, k) == Visit(x, chain[k], key, b, nb, ideal)
           Bad == {k \in Nat : ~\E f : R(f, k)}
<1>1. \A f : \A k \in Nat : R(f, k) <=> f = [i \in 0..k |-> IF i = 0 THEN EmptyBucket ELSE V(f[i - 1], i)]
    BY Zenon DEF Rehashing
<1> HIDE DEF R, V
<1>2. SUFFICES ASSUME Bad # {} PROVE FALSE
    BY <1>2, Zenon DEF R
<1>3. PICK m \in Bad : \A k \in Bad : ~(k < m)
    BY <1>2, Least, Zenon
<1>4. CASE m = 0
    <2> DEFINE f == [i \in 0..0 |-> EmptyBucket]
    <2>1. f = [i \in 0..0 |-> IF i = 0 THEN EmptyBucket ELSE V(f[i - 1], i)]
        OBVIOUS
    <2>2. QED
        BY <1>1, <1>3, <1>4, <2>1, Zenon
<1>5. CASE m # 0
    <2>1. m \in Nat /\ m - 1 \in Nat /\ m - 1 < m
        BY <1>3, <1>5
    <2>2. PICK f : R(f, m - 1)
        BY <1>3, <2>1, Zenon
    <2>3. f = [i \in 0..(m - 1) |-> IF i = 0 THEN EmptyBucket ELSE V(f[i - 1], i)]
        BY <2>2, Zenon DEF R, V, Rehashing
    <2> DEFINE g == [i \in 0..m |-> IF i = m THEN V(f[m - 1], m) ELSE f[i]]
    <2>4. \A i \in 0..m : i # 0 => i - 1 \in 0..m /\ i - 1 # m
        BY <2>1
    <2>5. \A i \in 0..m : g[i] = IF i = 0 THEN EmptyBucket ELSE V(g[i - 1], i)
        <3>1. ASSUME NEW i \in 0..m, i = m PROVE g[i] = V(f[i - 1], i) /\ i # 0
            BY <1>5, <3>1, Zenon
        <3>2. ASSUME NEW i \in 0..m, i # m
              PROVE  g[i] = IF i = 0 THEN EmptyBucket ELSE V(f[i - 1], i)
            <4>1. i \in 0..(m - 1)
                BY <2>1, <3>2
            <4>2. QED
                BY <2>3, <3>2, <4>1, Zenon
        <3>3. ASSUME NEW i \in 0..m, i # 0 PROVE g[i - 1] = f[i - 1]
            BY <2>4, <3>3, Zenon
        <3> HIDE DEF g
        <3>4. QED
            BY <3>1, <3>2, <3>3, Zenon
    <2>6. g = [i \in 0..m |-> g[i]]
        BY Zenon
    <2> HIDE DEF g
    <2>7. g = [i \in 0..m |-> IF i = 0 THEN EmptyBucket ELSE V(g[i - 1], i)]
        BY <2>5, <2>6, Zenon
    <2>8. QED
        BY <1>1, <1>3, <2>1, <2>7, Zenon
<1>6. QED
    BY <1>4, <1>5, Zenon

(* The new bucket b holds those elements of the old chain that belong to   *)
(* it, and is no longer than its share of ideal chains.                    *)
LEMMA RehashedHolds ==
    ASSUME NEW C, NEW chain, Lists(chain, C), NEW key, NEW b, NEW nb, NEW ideal \in Nat \ {0}
    PROVE  /\ Holds(Rehashed(chain, key, b, nb, ideal), Members(C, key, nb, b))
           /\ Bounded(Rehashed(chain, key, b, nb, ideal), ideal)
<1> DEFINE L == Len(chain)
           Seen(i) == Members({chain[j] : j \in 1..i}, key, nb, b)
           after == CHOOSE f : Rehashing(f, L, chain, key, b, nb, ideal)
           Good(i) == Holds(after[i], Seen(i)) /\ Bounded(after[i], ideal)
           Bad == {i \in 0..L : ~Good(i)}
<1>1. L \in Nat /\ DOMAIN chain = 1..L
    BY DEF Lists
<1>2. Rehashing(after, L, chain, key, b, nb, ideal)
    BY <1>1, RehashingExists, Zenon
<1>3. Rehashed(chain, key, b, nb, ideal) = after[L]
    BY Zenon DEF Rehashed, Rehashing
<1> HIDE DEF after, L
<1>4. 0 \in 0..L /\ L \in 0..L
    BY <1>1
<1>5. after[0] = EmptyBucket
    BY <1>2, <1>4, Zenon DEF Rehashing
<1>6. ASSUME NEW i \in 0..L, i # 0
      PROVE  after[i] = Visit(after[i - 1], chain[i], key, b, nb, ideal)
    BY <1>2, <1>6, Zenon DEF Rehashing
<1>7. Bad = {}
    <2>1. SUFFICES ASSUME Bad # {} PROVE FALSE
        BY <2>1, Zenon
    <2>2. Bad \subseteq Nat
        BY <1>1
    <2>3. PICK i \in Bad : \A k \in Bad : ~(k < i)
        BY <2>1, <2>2, Least, Zenon
    <2>4. CASE i = 0
        <3>1. {chain[j] : j \in 1..i} = {}
            BY <2>4
        <3>2. Seen(i) = {}
            BY <3>1, Zenon DEF Members
        <3>3. QED
            BY <1>5, <2>3, <2>4, <3>2, EmptyHolds, Zenon
    <2>5. CASE i # 0
        <3> DEFINE e == chain[i]
        <3>1. i \in 1..L /\ i - 1 \in 0..L /\ i - 1 < i /\ i \in 0..L
              /\ 1..i = (1..(i - 1)) \cup {i} /\ i \notin 1..(i - 1) /\ 1..(i - 1) \subseteq 1..L
            BY <1>1, <2>3, <2>5
        <3>2. Good(i - 1)
            BY <2>3, <3>1, Zenon
        <3>3. \A j \in 1..(i - 1) : chain[j] # e
            BY <1>1, <3>1, Zenon DEF Lists, IsInjective
        <3>4. e \notin Seen(i - 1)
            BY <3>3, Zenon DEF Members
        <3>5. Seen(i) = IF HASH_TO_BKT(HASH_VALUE(key[e]), nb) = b
                        THEN Seen(i - 1) \cup {e} ELSE Seen(i - 1)
            BY <3>1, Zenon DEF Members
        <3> HIDE DEF Seen
        <3>6. Good(i)
            <4> DEFINE new == Visit(after[i - 1], e, key, b, nb, ideal)
            <4>1. /\ IF HASH_TO_BKT(HASH_VALUE(key[e]), nb) = b
                     THEN Holds(new, Seen(i - 1) \cup {e}) ELSE Holds(new, Seen(i - 1))
                  /\ Bounded(new, ideal)
                BY <3>2, <3>4, VisitHolds, Zenon
            <4>2. new = after[i]
                BY <1>6, <2>5, <3>1, Zenon
            <4> HIDE DEF new
            <4>3. QED
                BY <3>5, <4>1, <4>2, Zenon
        <3>7. QED
            BY <2>3, <3>6, Zenon
    <2>6. QED
        BY <2>4, <2>5, Zenon
<1>8. {chain[j] : j \in 1..L} = C
    BY <1>1, Zenon DEF Lists, Range
<1>9. Good(L)
    BY <1>4, <1>7, Zenon
<1>10. QED
    BY <1>3, <1>8, <1>9, Zenon

-----------------------------------------------------------------------------
(* The table.                                                              *)
Table(items, buckets, nb, num, ideal, ineff, no) ==
    [items |-> items, buckets |-> buckets, num_buckets |-> nb, num_items |-> num,
     ideal_chain_maxlen |-> ideal, ineff_expands |-> ineff, noexpand |-> no]

Fields(t, items, buckets, nb, num, ideal, ineff, no) ==
    t = Table(items, buckets, nb, num, ideal, ineff, no)

(* t is a table with the numbers and the buckets that it needs.            *)
IsTable(t) ==
    /\ t = Table(t.items, t.buckets, t.num_buckets, t.num_items,
                 t.ideal_chain_maxlen, t.ineff_expands, t.noexpand)
    /\ t.buckets = [b \in 0..(t.num_buckets - 1) |-> t.buckets[b]]
    /\ t.num_buckets \in Nat \ {0} /\ t.ideal_chain_maxlen \in Nat
    /\ t.ineff_expands \in Nat /\ t.noexpand \in BOOLEAN

(* The table holds the elements of E: the list and the chains agree.       *)
Intact(t, E, key) ==
    /\ IsTable(t)
    /\ Lists(t.items, E) /\ t.num_items = Len(t.items)
    /\ \A b \in 0..(t.num_buckets - 1) : Holds(t.buckets[b], Members(E, key, t.num_buckets, b))

(* The elements have hash values.                                          *)
Hashed(E, key) == \A e \in E : HASH_VALUE(key[e]) \in Nat

(* The bucket is within the limit of a table like t.                       *)
BktShort(bkt, no, ideal) ==
    \/ no
    \/ bkt.count < (bkt.expand_mult + 1) * HASH_BKT_CAPACITY_THRESH
    \/ bkt.count <= (bkt.expand_mult + 1) * ideal

Short(t) ==
    \A b \in 0..(t.num_buckets - 1) : BktShort(t.buckets[b], t.noexpand, t.ideal_chain_maxlen)

(* A consistent table passes HASH_FSCK(), and holds the elements of E.     *)
LEMMA IntactIsChecked ==
    ASSUME NEW t, NEW E, NEW key, Intact(t, E, key)
    PROVE  HASH_FSCK(t, key) /\ Range(t.items) = E
<1>1. t.num_items = Len(t.items) /\ IsInjective(t.items) /\ Range(t.items) = E
    BY Zenon DEF Intact, Lists
<1>2. ASSUME NEW b \in 0..(t.num_buckets - 1)
      PROVE  /\ t.buckets[b].count = Len(t.buckets[b].chain) /\ IsInjective(t.buckets[b].chain)
             /\ Range(t.buckets[b].chain) = Members(E, key, t.num_buckets, b)
    BY <1>2, Zenon DEF Intact, Holds, Lists
<1>3. QED
    BY <1>1, <1>2, Zenon DEF HASH_FSCK, Members

(* A new table holds nothing.                                              *)
LEMMA NewTable ==
    ASSUME NEW key PROVE Intact(HASH_MAKE_TABLE, {}, key) /\ Short(HASH_MAKE_TABLE)
<1> DEFINE t == HASH_MAKE_TABLE
           N == HASH_INITIAL_NUM_BUCKETS
           bs == [b \in 0 .. N - 1 |-> EmptyBucket]
           q == << >>
<1>1. N \in Nat \ {0} /\ HASH_BKT_CAPACITY_THRESH \in Nat \ {0}
    BY UthashAssumption, Zenon
<1>2. t = Table(q, bs, N, 0, 0, 0, FALSE)
    BY Zenon DEF HASH_MAKE_TABLE, Table
<1>3. Lists(q, {}) /\ Len(q) = 0
    BY DEF Lists, IsInjective, Range
<1> HIDE DEF t, q
<1>4. /\ t.items = q /\ t.buckets = bs /\ t.num_buckets = N /\ t.num_items = 0
      /\ t.ideal_chain_maxlen = 0 /\ t.ineff_expands = 0 /\ t.noexpand = FALSE
    BY <1>2, Zenon DEF Table
<1>5. 0 \in Nat
    OBVIOUS
<1>6. \A b \in 0..(N - 1) : bs[b] = EmptyBucket
    BY Zenon
<1>7. bs = [b \in 0..(N - 1) |-> bs[b]]
    BY <1>6, Zenon
<1> HIDE DEF bs
<1>8. IsTable(t)
    BY <1>1, <1>2, <1>4, <1>5, <1>7, Zenon DEF IsTable
<1>9. Holds(EmptyBucket, {})
    BY <1>5, EmptyHolds, Zenon
<1>10. \A b : Members({}, key, N, b) = {}
    BY Zenon DEF Members
<1>11. Intact(t, {}, key)
    BY <1>3, <1>4, <1>6, <1>8, <1>9, <1>10, Zenon DEF Intact
<1>12. EmptyBucket.count < (EmptyBucket.expand_mult + 1) * HASH_BKT_CAPACITY_THRESH
    BY <1>1 DEF EmptyBucket
<1>13. Short(t)
    BY <1>4, <1>6, <1>12, Zenon DEF Short, BktShort
<1>14. QED
    BY <1>11, <1>13, Zenon DEF t

(* A table depends on the keys of its elements only.                       *)
LEMMA KeysOfElements ==
    ASSUME NEW t, NEW E, NEW key, NEW new, Intact(t, E, key),
           \A e \in E : new[e] = key[e]
    PROVE  Intact(t, E, new)
<1>1. \A b : Members(E, new, t.num_buckets, b) = Members(E, key, t.num_buckets, b)
    BY Zenon DEF Members
<1>2. QED
    BY <1>1, Zenon DEF Intact

-----------------------------------------------------------------------------
(* The length of an ideal chain, n elements being spread over nb buckets.  *)
Ideal(n, nb) == n \div nb + IF n % nb # 0 THEN 1 ELSE 0

(* It is not zero.                                                         *)
LEMMA IdealNotZero ==
    ASSUME NEW n \in Nat \ {0}, NEW nb \in Nat \ {0}
    PROVE  Ideal(n, nb) \in Nat \ {0}
<1>1. n % nb \in 0..(nb - 1) /\ n \div nb \in Nat /\ n = nb * (n \div nb) + (n % nb)
    BY DivMod, Zenon
<1> DEFINE q == n \div nb
           r == n % nb
<1> HIDE DEF q, r
<1>2. r \in 0..(nb - 1) /\ q \in Nat /\ n = nb * q + r
    BY <1>1, Zenon DEF q, r
<1>3. q = 0 => r # 0
    BY <1>2
<1>4. q + (IF r # 0 THEN 1 ELSE 0) \in Nat \ {0}
    BY <1>2, <1>3
<1>5. QED
    BY <1>4, Zenon DEF Ideal, q, r

(* A table with other buckets.                                             *)
Rebuilt(t, buckets, nb, ideal, ineff, no) ==
    [t EXCEPT !.buckets = buckets, !.num_buckets = nb, !.ideal_chain_maxlen = ideal,
              !.ineff_expands = ineff, !.noexpand = no]

(* Its fields.                                                             *)
LEMMA TableRebuilt ==
    ASSUME NEW items, NEW buckets, NEW nb, NEW num, NEW ideal, NEW ineff, NEW no,
           NEW t, Fields(t, items, buckets, nb, num, ideal, ineff, no),
           NEW buckets2, NEW nb2, NEW ideal2, NEW ineff2, NEW no2
    PROVE  Fields(Rebuilt(t, buckets2, nb2, ideal2, ineff2, no2),
                  items, buckets2, nb2, num, ideal2, ineff2, no2)
<1> DEFINE t1 == [t EXCEPT !.buckets = buckets2]
           t2 == [t1 EXCEPT !.num_buckets = nb2]
           t3 == [t2 EXCEPT !.ideal_chain_maxlen = ideal2]
           t4 == [t3 EXCEPT !.ineff_expands = ineff2]
           t5 == [t4 EXCEPT !.noexpand = no2]
<1>1. t1 = Table(items, buckets2, nb, num, ideal, ineff, no)
    BY SMT DEF Table, Fields
<1> HIDE DEF t1
<1>2. t2 = Table(items, buckets2, nb2, num, ideal, ineff, no)
    BY <1>1, SMT DEF Table
<1> HIDE DEF t2
<1>3. t3 = Table(items, buckets2, nb2, num, ideal2, ineff, no)
    BY <1>2, SMT DEF Table
<1> HIDE DEF t3
<1>4. t4 = Table(items, buckets2, nb2, num, ideal2, ineff2, no)
    BY <1>3, SMT DEF Table
<1> HIDE DEF t4
<1>5. t5 = Table(items, buckets2, nb2, num, ideal2, ineff2, no2)
    BY <1>4, SMT DEF Table
<1>6. QED
    BY <1>5, Zenon DEF Fields, Rebuilt, t1, t2, t3, t4

(* What an expansion makes of a table.                                     *)
LEMMA ExpandEffect ==
    ASSUME NEW t, NEW key, IsTable(t)
    PROVE  \E x \in Nat, no \in BOOLEAN :
               LET ideal == Ideal(t.num_items, 2 * t.num_buckets) IN
               HASH_EXPAND_BUCKETS(t, key)
                 = Table(t.items, Expanded(t, key, ideal), 2 * t.num_buckets, t.num_items,
                         ideal, x, no)
<1> DEFINE nb == 2 * t.num_buckets
           ideal == Ideal(t.num_items, nb)
           new == Expanded(t, key, ideal)
           nonideal == FoldFunction(LAMBDA bkt, n : n + Excess(bkt.count, ideal), 0, new)
           ineff == IF nonideal > t.num_items \div 2 THEN t.ineff_expands + 1 ELSE 0
           no == t.noexpand \/ ineff > 1
<1>1. HASH_EXPAND_BUCKETS(t, key)
        = Rebuilt(t, new, nb, ideal, ineff, no)
    BY Zenon DEF HASH_EXPAND_BUCKETS, Ideal, Rebuilt
<1> HIDE DEF new, nonideal, ideal, nb
<1>2. ineff \in Nat
    BY DEF IsTable
<1> HIDE DEF ineff
<1>3. no \in BOOLEAN
    BY Zenon
<1> HIDE DEF no
<1>4. Rebuilt(t, new, nb, ideal, ineff, no)
        = Table(t.items, new, nb, t.num_items, ideal, ineff, no)
    <2>1. Fields(t, t.items, t.buckets, t.num_buckets, t.num_items, t.ideal_chain_maxlen,
                 t.ineff_expands, t.noexpand)
        BY Zenon DEF IsTable, Fields
    <2>2. Fields(Rebuilt(t, new, nb, ideal, ineff, no),
                 t.items, new, nb, t.num_items, ideal, ineff, no)
        BY <2>1, TableRebuilt, Zenon
    <2>3. QED
        BY <2>2, Zenon DEF Fields
<1>5. QED
    BY <1>1, <1>2, <1>3, <1>4, Zenon DEF new, ideal, nb

(* An expansion keeps a table consistent, and leaves every chain within    *)
(* its share of ideal ones.                                                *)
LEMMA ExpandIntact ==
    ASSUME NEW E, NEW key, Hashed(E, key), NEW t, Intact(t, E, key), E # {}
    PROVE  Intact(HASH_EXPAND_BUCKETS(t, key), E, key) /\ Short(HASH_EXPAND_BUCKETS(t, key))
<1> DEFINE u == HASH_EXPAND_BUCKETS(t, key)
           n == t.num_buckets
           nb == 2 * n
           ideal == Ideal(t.num_items, nb)
           new == Expanded(t, key, ideal)
<1>1. IsTable(t) /\ n \in Nat \ {0} /\ Lists(t.items, E) /\ t.num_items = Len(t.items)
    BY Zenon DEF Intact, IsTable
<1>2. PICK x \in Nat, no \in BOOLEAN : u = Table(t.items, new, nb, t.num_items, ideal, x, no)
    BY <1>1, ExpandEffect, Zenon
<1> HIDE DEF u
<1>3. t.num_items \in Nat \ {0}
    BY <1>1 DEF Lists, Range
<1>4. nb \in Nat \ {0}
    BY <1>1
<1>5. ideal \in Nat \ {0}
    BY <1>3, <1>4, IdealNotZero, Zenon
<1>6. /\ u.items = t.items /\ u.buckets = new /\ u.num_buckets = nb
      /\ u.num_items = t.num_items /\ u.ideal_chain_maxlen = ideal
      /\ u.ineff_expands = x /\ u.noexpand = no
    BY <1>2, Zenon DEF Table
<1> HIDE DEF ideal
<1>7. new = [b \in 0..(nb - 1) |-> new[b]]
    BY Zenon DEF Expanded
<1>8. ASSUME NEW b \in 0..(nb - 1)
      PROVE  Holds(new[b], Members(E, key, nb, b)) /\ Bounded(new[b], ideal)
    <2> DEFINE chain == t.buckets[b % n].chain
               C == Members(E, key, n, b % n)
    <2>1. b \in Nat
        BY <1>4
    <2>2. b % n \in 0..(n - 1)
        BY <1>1, <2>1, DivMod, Zenon
    <2>3. Lists(chain, C)
        BY <2>2, Zenon DEF Intact, Holds
    <2>4. new[b] = Rehashed(chain, key, b, nb, ideal)
        BY Zenon DEF Expanded
    <2>5. Members(C, key, nb, b) = Members(E, key, nb, b)
        <3>1. ASSUME NEW e \in E, HASH_VALUE(key[e]) % nb = b
              PROVE  HASH_VALUE(key[e]) % n = b % n
            <4>1. HASH_VALUE(key[e]) \in Nat
                BY Zenon DEF Hashed
            <4>2. QED
                BY <1>1, <3>1, <4>1, Halving, Zenon
        <3>2. QED
            BY <3>1, Zenon DEF Members, HASH_TO_BKT
    <2> HIDE DEF chain, C, nb, new
    <2>6. QED
        BY <1>5, <2>3, <2>4, <2>5, RehashedHolds, Zenon
<1> HIDE DEF new
<1>9. IsTable(u)
    BY <1>2, <1>4, <1>5, <1>6, <1>7, Zenon DEF IsTable
<1>10. Intact(u, E, key)
    BY <1>1, <1>6, <1>8, <1>9, Zenon DEF Intact
<1>11. Short(u)
    BY <1>6, <1>8, Zenon DEF Short, BktShort, Bounded
<1>12. QED
    BY <1>10, <1>11, Zenon DEF u

-----------------------------------------------------------------------------
(* A table with another list and another bucket b.                         *)
Changed(t, items, num, b, bkt) ==
    [t EXCEPT !.items = items, !.num_items = num, !.buckets[b] = bkt]

(* u is like t, but for its list and its bucket b.                         *)
Replaced(u, t, b, bkt) ==
    /\ u.buckets[b] = bkt /\ u.num_buckets = t.num_buckets /\ u.noexpand = t.noexpand
    /\ u.ideal_chain_maxlen = t.ideal_chain_maxlen
    /\ \A c \in 0..(t.num_buckets - 1) : c # b => u.buckets[c] = t.buckets[c]

(* Its fields.                                                             *)
LEMMA TableChanged ==
    ASSUME NEW items, NEW buckets, NEW nb, NEW num, NEW ideal, NEW ineff, NEW no,
           NEW t, Fields(t, items, buckets, nb, num, ideal, ineff, no),
           NEW items2, NEW num2, NEW b, NEW bkt
    PROVE  Fields(Changed(t, items2, num2, b, bkt),
                  items2, [buckets EXCEPT ![b] = bkt], nb, num2, ideal, ineff, no)
<1> DEFINE t1 == [t EXCEPT !.items = items2]
           t2 == [t1 EXCEPT !.num_items = num2]
           bs == [buckets EXCEPT ![b] = bkt]
           t3 == [t2 EXCEPT !.buckets = bs]
<1>1. t1 = Table(items2, buckets, nb, num, ideal, ineff, no)
    BY SMT DEF Table, Fields
<1> HIDE DEF t1
<1>2. t2 = Table(items2, buckets, nb, num2, ideal, ineff, no) /\ t2.buckets = buckets
    BY <1>1, SMT DEF Table
<1>3. [t2 EXCEPT !.buckets[b] = bkt] = t3
    BY <1>2, Zenon
<1> HIDE DEF t2, bs
<1>4. t3 = Table(items2, bs, nb, num2, ideal, ineff, no)
    BY <1>2, SMT DEF Table
<1>5. QED
    BY <1>3, <1>4, Zenon DEF Fields, Changed, t1, t2, bs

(* The changed table is consistent when its list and the bucket b hold the *)
(* new elements F, which differ from the old ones E only in that bucket.   *)
LEMMA ChangedIntact ==
    ASSUME NEW E, NEW key, NEW t, Intact(t, E, key), NEW F, NEW new,
           NEW items, Lists(items, F), NEW num, num = Len(items),
           NEW b \in 0..(t.num_buckets - 1), NEW bkt,
           Holds(bkt, Members(F, new, t.num_buckets, b)),
           \A c : c # b => Members(F, new, t.num_buckets, c) = Members(E, key, t.num_buckets, c)
    PROVE  /\ Intact(Changed(t, items, num, b, bkt), F, new)
           /\ Replaced(Changed(t, items, num, b, bkt), t, b, bkt)
<1> DEFINE u == Changed(t, items, num, b, bkt)
           nb == t.num_buckets
           bs == [t.buckets EXCEPT ![b] = bkt]
<1>1. IsTable(t)
    BY Zenon DEF Intact
<1>2. Fields(u, items, bs, nb, num, t.ideal_chain_maxlen, t.ineff_expands, t.noexpand)
    <2>1. Fields(t, t.items, t.buckets, t.num_buckets, t.num_items, t.ideal_chain_maxlen,
                 t.ineff_expands, t.noexpand)
        BY <1>1, Zenon DEF IsTable, Fields
    <2>2. QED
        BY <2>1, TableChanged, Zenon
<1> HIDE DEF u
<1>3. /\ u.items = items /\ u.buckets = bs /\ u.num_buckets = nb
      /\ u.num_items = num /\ u.ideal_chain_maxlen = t.ideal_chain_maxlen
      /\ u.ineff_expands = t.ineff_expands /\ u.noexpand = t.noexpand
    BY <1>2, Zenon DEF Fields, Table
<1>4. t.buckets = [c \in 0..(nb - 1) |-> t.buckets[c]]
    BY <1>1, Zenon DEF IsTable
<1>5. /\ bs = [c \in 0..(nb - 1) |-> bs[c]] /\ bs[b] = bkt
      /\ \A c \in 0..(nb - 1) : c # b => bs[c] = t.buckets[c]
    BY <1>4, Zenon
<1> HIDE DEF bs
<1>6. IsTable(u)
    BY <1>1, <1>2, <1>3, <1>5, Zenon DEF IsTable, Fields
<1>7. ASSUME NEW c \in 0..(nb - 1) PROVE Holds(bs[c], Members(F, new, nb, c))
    <2>1. Holds(t.buckets[c], Members(E, key, nb, c))
        BY Zenon DEF Intact
    <2>2. QED
        BY <1>5, <2>1, Zenon
<1>8. Intact(u, F, new)
    BY <1>3, <1>6, <1>7, Zenon DEF Intact
<1>9. QED
    BY <1>3, <1>5, <1>8, Zenon DEF u, Replaced

(* A bucket with another chain.                                            *)
LEMMA BucketExcept ==
    ASSUME NEW chain, NEW count, NEW mult, NEW q, NEW n
    PROVE  [[chain |-> chain, count |-> count, expand_mult |-> mult] EXCEPT !.count = n, !.chain = q]
             = [chain |-> q, count |-> n, expand_mult |-> mult]
<1> DEFINE x == [[chain |-> chain, count |-> count, expand_mult |-> mult] EXCEPT !.count = n]
<1>1. x = [chain |-> chain, count |-> n, expand_mult |-> mult]
    BY SMT
<1> HIDE DEF x
<1>2. [x EXCEPT !.chain = q] = [chain |-> q, count |-> n, expand_mult |-> mult]
    BY <1>1, SMT
<1>3. QED
    BY <1>2, Zenon DEF x

(* A bucket with one more element.                                         *)
LEMMA AddedHolds ==
    ASSUME NEW T, NEW bkt, Holds(bkt, T), NEW e, e \notin T
    PROVE  Holds(HASH_ADD_TO_BKT(bkt, e), T \cup {e})
<1> DEFINE new == HASH_ADD_TO_BKT(bkt, e)
           q == <<e>> \o bkt.chain
           n == bkt.count + 1
           m == bkt.expand_mult
<1>1. bkt = [chain |-> bkt.chain, count |-> bkt.count, expand_mult |-> m]
    BY Zenon DEF Holds
<1>2. new = [bkt EXCEPT !.count = n, !.chain = q]
    BY Zenon DEF HASH_ADD_TO_BKT
<1>3. Lists(q, T \cup {e}) /\ Len(q) = Len(bkt.chain) + 1
    BY ConsLists, Zenon DEF Holds
<1>4. n \in Nat /\ m \in Nat /\ n = Len(q)
    BY <1>3 DEF Holds
<1> DEFINE chain == bkt.chain
           count == bkt.count
<1> HIDE DEF new, q, n, m, chain, count
<1>5. new = [chain |-> q, count |-> n, expand_mult |-> m]
    <2>1. bkt = [chain |-> chain, count |-> count, expand_mult |-> m]
        BY <1>1, Zenon DEF chain, count
    <2>2. QED
        BY <1>2, <2>1, BucketExcept, Zenon
<1>6. new.chain = q /\ new.count = n /\ new.expand_mult = m
    BY <1>5, Zenon
<1>7. Holds(new, T \cup {e})
    BY <1>3, <1>4, <1>5, <1>6, Zenon DEF Holds
<1>8. QED
    BY <1>7, Zenon DEF new

(* HASH_ADD() adds the element and keeps the table consistent; it expands  *)
(* the buckets before a chain reaches its limit.                           *)
THEOREM AddIntact ==
    ASSUME NEW E, NEW key, NEW t, Intact(t, E, key), NEW e, e \notin E,
           NEW new, \A x \in E : new[x] = key[x], Hashed(E \cup {e}, new)
    PROVE  /\ Intact(HASH_ADD(t, e, new), E \cup {e}, new)
           /\ Short(t) => Short(HASH_ADD(t, e, new))
<1> DEFINE F == E \cup {e}
           nb == t.num_buckets
           b == HASH_TO_BKT(HASH_VALUE(new[e]), nb)
           old == t.buckets[b]
           bkt == HASH_ADD_TO_BKT(old, e)
           items == Append(t.items, e)
           num == t.num_items + 1
           u == Changed(t, items, num, b, bkt)
<1>1. nb \in Nat \ {0} /\ Lists(t.items, E) /\ t.num_items = Len(t.items)
    BY Zenon DEF Intact, IsTable
<1>2. b \in 0..(nb - 1)
    <2>1. HASH_VALUE(new[e]) \in Nat
        BY Zenon DEF Hashed
    <2>2. QED
        BY <1>1, <2>1, DivMod, Zenon DEF HASH_TO_BKT
<1>3. Lists(items, F) /\ num = Len(items)
    <2>1. Lists(items, F) /\ Len(items) = Len(t.items) + 1
        BY <1>1, AppendLists, Zenon
    <2>2. QED
        BY <1>1, <2>1, Zenon
<1>4. Holds(old, Members(E, key, nb, b))
    BY <1>2, Zenon DEF Intact
<1>5. Members(F, new, nb, b) = Members(E, key, nb, b) \cup {e}
    BY Zenon DEF Members
<1>6. \A c : c # b => Members(F, new, nb, c) = Members(E, key, nb, c)
    BY Zenon DEF Members
<1>7. e \notin Members(E, key, nb, b)
    BY Zenon DEF Members
<1>8. HASH_ADD(t, e, new)
        = IF u.buckets[b].count >= (u.buckets[b].expand_mult + 1) * HASH_BKT_CAPACITY_THRESH
             /\ ~u.noexpand
          THEN HASH_EXPAND_BUCKETS(u, new) ELSE u
    BY Zenon DEF HASH_ADD, Changed
<1> DEFINE M == Members(E, key, nb, b)
<1> HIDE DEF b, F, items, num, u, old, M
<1>9. Holds(bkt, Members(F, new, nb, b))
    <2>1. Holds(bkt, M \cup {e})
        BY <1>4, <1>7, AddedHolds, Zenon DEF M
    <2>2. QED
        BY <1>5, <2>1, Zenon DEF M
<1> HIDE DEF bkt
<1>10. Intact(u, F, new) /\ Replaced(u, t, b, bkt)
    BY <1>2, <1>3, <1>6, <1>9, ChangedIntact, Zenon DEF u
<1> DEFINE limit == (bkt.expand_mult + 1) * HASH_BKT_CAPACITY_THRESH
<1>11. CASE bkt.count >= limit /\ ~u.noexpand
    <2>1. HASH_ADD(t, e, new) = HASH_EXPAND_BUCKETS(u, new)
        BY <1>8, <1>10, <1>11, Zenon DEF Replaced
    <2>2. Hashed(F, new) /\ F # {}
        BY Zenon DEF F
    <2>3. QED
        BY <1>10, <2>1, <2>2, ExpandIntact, Zenon DEF F
<1>12. CASE ~(bkt.count >= limit /\ ~u.noexpand)
    <2>1. HASH_ADD(t, e, new) = u
        BY <1>8, <1>10, <1>12, Zenon DEF Replaced
    <2>2. bkt.count \in Nat /\ limit \in Nat
        BY <1>9, UthashAssumption DEF Holds
    <2>3. u.noexpand \/ bkt.count < limit
        BY <1>12, <2>2
    <2>4. Short(t) => Short(u)
        BY <1>10, <2>3, Zenon DEF Short, BktShort, Replaced
    <2>5. QED
        BY <1>10, <2>1, <2>4, Zenon DEF F
<1>13. QED
    BY <1>11, <1>12, Zenon

(* A bucket with one element less, which is no longer than before.         *)
LEMMA DeletedHolds ==
    ASSUME NEW T, NEW bkt, Holds(bkt, T), NEW e \in T
    PROVE  /\ Holds(HASH_DEL_IN_BKT(bkt, e), T \ {e})
           /\ \A no : \A ideal \in Nat : BktShort(bkt, no, ideal)
                                       => BktShort(HASH_DEL_IN_BKT(bkt, e), no, ideal)
<1> DEFINE new == HASH_DEL_IN_BKT(bkt, e)
           q == Unlink(bkt.chain, e)
           n == bkt.count - 1
           m == bkt.expand_mult
           count == bkt.count
           chain == bkt.chain
<1>1. bkt = [chain |-> chain, count |-> count, expand_mult |-> m]
    BY Zenon DEF Holds
<1>2. new = [bkt EXCEPT !.count = n, !.chain = q]
    BY Zenon DEF HASH_DEL_IN_BKT
<1>3. Lists(q, T \ {e}) /\ Len(q) = Len(bkt.chain) - 1 /\ Len(bkt.chain) > 0
    BY UnlinkLists, Zenon DEF Holds
<1>4. n \in Nat /\ m \in Nat /\ n = Len(q) /\ n < count /\ count \in Nat
    BY <1>3 DEF Holds
<1> HIDE DEF new, q, n, m, chain, count
<1>5. new = [chain |-> q, count |-> n, expand_mult |-> m]
    BY <1>1, <1>2, BucketExcept, Zenon
<1>6. new.chain = q /\ new.count = n /\ new.expand_mult = m
    BY <1>5, Zenon
<1>7. Holds(new, T \ {e})
    BY <1>3, <1>4, <1>5, <1>6, Zenon DEF Holds
<1>8. ASSUME NEW no, NEW ideal \in Nat, BktShort(bkt, no, ideal) PROVE BktShort(new, no, ideal)
    <2> DEFINE limit == (m + 1) * HASH_BKT_CAPACITY_THRESH
               share == (m + 1) * ideal
    <2>1. limit \in Nat /\ share \in Nat
        BY <1>4, UthashAssumption
    <2>2. no \/ count < limit \/ count <= share
        BY <1>8, Zenon DEF BktShort, m, count
    <2> HIDE DEF limit, share
    <2>3. no \/ n < limit \/ n <= share
        BY <1>4, <2>1, <2>2
    <2>4. QED
        BY <1>6, <2>3, Zenon DEF BktShort, limit, share
<1>9. QED
    BY <1>7, <1>8, Zenon DEF new

(* HASH_DELETE() takes the element out and keeps the table consistent.     *)
LEMMA DeleteIntact ==
    ASSUME NEW E, NEW key, Hashed(E, key), NEW t, Intact(t, E, key), NEW e \in E
    PROVE  /\ Intact(HASH_DELETE(t, e, key), E \ {e}, key)
           /\ Short(t) => Short(HASH_DELETE(t, e, key))
<1>1. CASE t.items = <<e>>
    <2>1. E = {e}
        <3>1. Range(t.items) = E
            BY Zenon DEF Intact, Lists
        <3>2. Range(<<e>>) = {e}
            BY DEF Range
        <3>3. QED
            BY <1>1, <3>1, <3>2, Zenon
    <2>2. HASH_DELETE(t, e, key) = HASH_MAKE_TABLE /\ E \ {e} = {}
        BY <1>1, <2>1, Zenon DEF HASH_DELETE
    <2>3. QED
        BY <2>2, NewTable, Zenon
<1>2. CASE t.items # <<e>>
    <2> DEFINE F == E \ {e}
               nb == t.num_buckets
               b == HASH_TO_BKT(HASH_VALUE(key[e]), nb)
               old == t.buckets[b]
               bkt == HASH_DEL_IN_BKT(old, e)
               items == Unlink(t.items, e)
               num == t.num_items - 1
               M == Members(E, key, nb, b)
               u == Changed(t, items, num, b, bkt)
    <2>1. nb \in Nat \ {0} /\ Lists(t.items, E) /\ t.num_items = Len(t.items)
          /\ t.ideal_chain_maxlen \in Nat
        BY Zenon DEF Intact, IsTable
    <2>2. b \in 0..(nb - 1)
        <3>1. HASH_VALUE(key[e]) \in Nat
            BY Zenon DEF Hashed
        <3>2. QED
            BY <2>1, <3>1, DivMod, Zenon DEF HASH_TO_BKT
    <2>3. Lists(items, F) /\ num = Len(items)
        <3>1. Lists(items, F) /\ Len(items) = Len(t.items) - 1
            BY <2>1, UnlinkLists, Zenon
        <3>2. QED
            BY <2>1, <3>1, Zenon
    <2>4. Holds(old, M) /\ e \in M
        BY <2>2, Zenon DEF Intact, Members
    <2>5. Members(F, key, nb, b) = M \ {e}
        BY Zenon DEF Members
    <2>6. \A c : c # b => Members(F, key, nb, c) = Members(E, key, nb, c)
        BY Zenon DEF Members
    <2>7. HASH_DELETE(t, e, key) = u
        BY <1>2, Zenon DEF HASH_DELETE, Changed
    <2> HIDE DEF b, F, items, num, u, old, M
    <2>8. Holds(bkt, M \ {e}) /\ \A no : \A ideal \in Nat : BktShort(old, no, ideal)
                                                        => BktShort(bkt, no, ideal)
        BY <2>4, DeletedHolds, Zenon
    <2> HIDE DEF bkt
    <2>9. Intact(u, F, key) /\ Replaced(u, t, b, bkt)
        <3>1. Holds(bkt, Members(F, key, nb, b))
            BY <2>5, <2>8, Zenon
        <3>2. QED
            BY <2>2, <2>3, <2>6, <3>1, ChangedIntact, Zenon DEF u
    <2>10. Short(t) => Short(u)
        BY <2>1, <2>2, <2>8, <2>9, Zenon DEF Short, Replaced, old
    <2>11. QED
        BY <2>7, <2>9, <2>10, Zenon DEF F
<1>3. QED
    BY <1>1, <1>2, Zenon

-----------------------------------------------------------------------------
(* after is the recursive function of HASH_ITER_DEL, for the first n       *)
(* elements.                                                               *)
Iterating(after, n, t, S, key) ==
    after = [i \in 0..n |->
                IF i = 0 THEN t ELSE DeleteIf(after[i - 1], t.items[i], S, key)]

(* There is such a function, too.                                          *)
LEMMA IteratingExists ==
    ASSUME NEW t, NEW S, NEW key, NEW n \in Nat
    PROVE  \E f : Iterating(f, n, t, S, key)
<1> DEFINE R(f, k) == Iterating(f, k, t, S, key)
           V(x, k) == DeleteIf(x, t.items[k], S, key)
           Bad == {k \in Nat : ~\E f : R(f, k)}
<1>1. \A f : \A k \in Nat : R(f, k) <=> f = [i \in 0..k |-> IF i = 0 THEN t ELSE V(f[i - 1], i)]
    BY Zenon DEF Iterating
<1> HIDE DEF R, V
<1>2. SUFFICES ASSUME Bad # {} PROVE FALSE
    BY <1>2, Zenon DEF R
<1>3. PICK m \in Bad : \A k \in Bad : ~(k < m)
    BY <1>2, Least, Zenon
<1>4. CASE m = 0
    <2> DEFINE f == [i \in 0..0 |-> t]
    <2>1. f = [i \in 0..0 |-> IF i = 0 THEN t ELSE V(f[i - 1], i)]
        OBVIOUS
    <2>2. QED
        BY <1>1, <1>3, <1>4, <2>1, Zenon
<1>5. CASE m # 0
    <2>1. m \in Nat /\ m - 1 \in Nat /\ m - 1 < m
        BY <1>3, <1>5
    <2>2. PICK f : R(f, m - 1)
        BY <1>3, <2>1, Zenon
    <2>3. f = [i \in 0..(m - 1) |-> IF i = 0 THEN t ELSE V(f[i - 1], i)]
        BY <2>2, Zenon DEF R, V, Iterating
    <2> DEFINE g == [i \in 0..m |-> IF i = m THEN V(f[m - 1], m) ELSE f[i]]
    <2>4. \A i \in 0..m : i # 0 => i - 1 \in 0..m /\ i - 1 # m
        BY <2>1
    <2>5. \A i \in 0..m : g[i] = IF i = 0 THEN t ELSE V(g[i - 1], i)
        <3>1. ASSUME NEW i \in 0..m, i = m PROVE g[i] = V(f[i - 1], i) /\ i # 0
            BY <1>5, <3>1, Zenon
        <3>2. ASSUME NEW i \in 0..m, i # m
              PROVE  g[i] = IF i = 0 THEN t ELSE V(f[i - 1], i)
            <4>1. i \in 0..(m - 1)
                BY <2>1, <3>2
            <4>2. QED
                BY <2>3, <3>2, <4>1, Zenon
        <3>3. ASSUME NEW i \in 0..m, i # 0 PROVE g[i - 1] = f[i - 1]
            BY <2>4, <3>3, Zenon
        <3> HIDE DEF g
        <3>4. QED
            BY <3>1, <3>2, <3>3, Zenon
    <2>6. g = [i \in 0..m |-> g[i]]
        BY Zenon
    <2> HIDE DEF g
    <2>7. g = [i \in 0..m |-> IF i = 0 THEN t ELSE V(g[i - 1], i)]
        BY <2>5, <2>6, Zenon
    <2>8. QED
        BY <1>1, <1>3, <2>1, <2>7, Zenon
<1>6. QED
    BY <1>4, <1>5, Zenon

(* HASH_ITER with HASH_DEL of the elements of S takes those out, and keeps *)
(* the table consistent.                                                   *)
THEOREM IterIntact ==
    ASSUME NEW E, NEW key, Hashed(E, key), NEW t, Intact(t, E, key), NEW S
    PROVE  /\ Intact(HASH_ITER_DEL(t, S, key), E \ S, key)
           /\ Short(t) => Short(HASH_ITER_DEL(t, S, key))
<1> DEFINE items == t.items
           L == Len(items)
           Left(i) == E \ (S \cap {items[j] : j \in 1..i})
           after == CHOOSE f : Iterating(f, L, t, S, key)
           Good(i) == Intact(after[i], Left(i), key) /\ (Short(t) => Short(after[i]))
           Bad == {i \in 0..L : ~Good(i)}
<1>0. Lists(items, E)
    BY Zenon DEF Intact
<1>1. L \in Nat /\ DOMAIN items = 1..L
    BY <1>0 DEF Lists
<1>2. Iterating(after, L, t, S, key)
    BY <1>1, IteratingExists, Zenon
<1>3. HASH_ITER_DEL(t, S, key) = after[L]
    BY Zenon DEF HASH_ITER_DEL, Iterating
<1> HIDE DEF after, L
<1>4. 0 \in 0..L /\ L \in 0..L
    BY <1>1
<1>5. after[0] = t
    BY <1>2, <1>4, Zenon DEF Iterating
<1>6. ASSUME NEW i \in 0..L, i # 0
      PROVE  after[i] = DeleteIf(after[i - 1], items[i], S, key)
    BY <1>2, <1>6, Zenon DEF Iterating
<1> HIDE DEF items
<1>7. Bad = {}
    <2>1. SUFFICES ASSUME Bad # {} PROVE FALSE
        BY <2>1, Zenon
    <2>2. Bad \subseteq Nat
        BY <1>1
    <2>3. PICK i \in Bad : \A k \in Bad : ~(k < i)
        BY <2>1, <2>2, Least, Zenon
    <2>4. CASE i = 0
        <3>1. {items[j] : j \in 1..i} = {}
            BY <2>4
        <3>2. Left(i) = E
            BY <3>1, Zenon
        <3>3. QED
            BY <1>5, <2>3, <2>4, <3>2, Zenon
    <2>5. CASE i # 0
        <3> DEFINE e == items[i]
                   old == after[i - 1]
        <3>1. i \in 1..L /\ i - 1 \in 0..L /\ i - 1 < i /\ i \in 0..L
              /\ 1..i = (1..(i - 1)) \cup {i} /\ i \notin 1..(i - 1) /\ 1..(i - 1) \subseteq 1..L
            BY <1>1, <2>3, <2>5
        <3>2. Good(i - 1)
            BY <2>3, <3>1, Zenon
        <3>3. \A j \in 1..(i - 1) : items[j] # e
            BY <1>0, <1>1, <3>1, Zenon DEF Lists, IsInjective
        <3>4. e \in Left(i - 1)
            <4>1. e \in E
                BY <1>0, <1>1, <3>1, Zenon DEF Lists, Range
            <4>2. QED
                BY <3>3, <4>1, Zenon
        <3>5. Left(i) = IF e \in S THEN Left(i - 1) \ {e} ELSE Left(i - 1)
            BY <3>1, Zenon
        <3>6. Hashed(Left(i - 1), key)
            BY Zenon DEF Hashed
        <3> HIDE DEF Left, e, old
        <3>7. after[i] = DeleteIf(old, e, S, key)
            BY <1>6, <2>5, <3>1, Zenon DEF e, old
        <3>8. Intact(old, Left(i - 1), key) /\ (Short(t) => Short(old))
            BY <3>2, Zenon DEF old
        <3>9. Good(i)
            <4>1. CASE e \in S
                <5>1. after[i] = HASH_DELETE(old, e, key)
                    BY <3>7, <4>1, Zenon DEF DeleteIf
                <5>2. /\ Intact(HASH_DELETE(old, e, key), Left(i - 1) \ {e}, key)
                      /\ Short(old) => Short(HASH_DELETE(old, e, key))
                    BY <3>4, <3>6, <3>8, DeleteIntact, Zenon
                <5>3. QED
                    BY <3>5, <3>8, <4>1, <5>1, <5>2, Zenon
            <4>2. CASE e \notin S
                BY <3>5, <3>7, <3>8, <4>2, Zenon DEF DeleteIf
            <4>3. QED
                BY <4>1, <4>2, Zenon
        <3>10. QED
            BY <2>3, <3>9, Zenon
    <2>6. QED
        BY <2>4, <2>5, Zenon
<1>8. {items[j] : j \in 1..L} = E
    BY <1>0, <1>1, Zenon DEF Lists, Range
<1>9. Left(L) = E \ S
    BY <1>8, Zenon
<1>10. Good(L)
    BY <1>4, <1>7, Zenon
<1>11. QED
    BY <1>3, <1>9, <1>10, Zenon

(* hit holds elements with the key k, and is empty when there is none.     *)
Finds(hit, E, key, k) ==
    /\ hit \subseteq E
    /\ \A e \in hit : key[e] = k
    /\ hit = {} => \A e \in E : key[e] # k

(* HASH_FIND() finds an element with the key, if there is one.             *)
LEMMA FindFacts ==
    ASSUME NEW E, NEW key, NEW t, Intact(t, E, key), NEW k, HASH_VALUE(k) \in Nat
    PROVE  Finds(HASH_FIND(t, k, key), E, key, k)
<1> DEFINE nb == t.num_buckets
           b == HASH_TO_BKT(HASH_VALUE(k), nb)
           chain == t.buckets[b].chain
           At == {i \in DOMAIN chain : key[chain[i]] = k}
           hit == {chain[i] : i \in {j \in At : \A h \in At : j <= h}}
<1>1. nb \in Nat \ {0}
    BY Zenon DEF Intact, IsTable
<1>2. b \in 0..(nb - 1)
    BY <1>1, DivMod, Zenon DEF HASH_TO_BKT
<1>3. Lists(chain, Members(E, key, nb, b))
    BY <1>2, Zenon DEF Intact, Holds
<1>4. HASH_FIND(t, k, key) = hit
    BY Zenon DEF HASH_FIND
<1> HIDE DEF chain
<1>5. \A i \in DOMAIN chain : chain[i] \in E
    BY <1>3, Zenon DEF Lists, Range, Members
<1>6. ASSUME NEW e \in E, key[e] = k PROVE At # {}
    <2>1. e \in Members(E, key, nb, b)
        BY <1>6, Zenon DEF Members
    <2>2. PICK i \in DOMAIN chain : chain[i] = e
        BY <1>3, <2>1, Zenon DEF Lists, Range
    <2>3. QED
        BY <1>6, <2>2, Zenon
<1>7. At \subseteq Nat
    BY <1>3 DEF Lists
<1>8. ASSUME At # {} PROVE hit # {}
    <2> HIDE DEF At
    <2>1. PICK m \in At : \A j \in At : ~(j < m)
        BY <1>7, <1>8, Least, Zenon
    <2>2. \A j \in At : m <= j
        BY <1>7, <2>1
    <2>3. QED
        BY <2>1, <2>2, Zenon
<1>9. \A e \in hit : e \in E /\ key[e] = k
    BY <1>5, Zenon
<1> HIDE DEF hit, At
<1>10. QED
    BY <1>4, <1>6, <1>8, <1>9, Zenon DEF Finds
=============================================================================
