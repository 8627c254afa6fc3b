------------------------------- MODULE Uthash -------------------------------
(***************************************************************************)
(* The hash table of utils/uthash.h, as far as the program uses it: add,   *)
(* find, delete, iterate, count.  A table is two structures over the same  *)
(* elements: the list in the order of insertion that HASH_ITER walks and   *)
(* HASH_DELETE patches, and the buckets, each a chain with its length and  *)
(* the multiplier that delays its next expansion.  Doubly linked lists are *)
(* sequences.                                                              *)
(*                                                                         *)
(* An element is an address; key is the function from addresses to the     *)
(* keys of the structs there.  Out of memory is exit(-1), not an outcome.  *)
(* HASH_MAKE_TABLE() runs at the first addition and HASH_DELETE() of the   *)
(* only element frees the table, so that NULL and a new table are one.     *)
(***************************************************************************)
EXTENDS Naturals, Sequences, FiniteSets, Functions

CONSTANTS
    HASH_INITIAL_NUM_BUCKETS,  \* a power of two; 32 in the code
    HASH_BKT_CAPACITY_THRESH,  \* 10 in the code
    HASH_VALUE(_)              \* the hash function, from keys to naturals

ASSUME UthashAssumption ==
    /\ HASH_INITIAL_NUM_BUCKETS \in Nat \ {0}
    /\ \E k \in 0..31 : HASH_INITIAL_NUM_BUCKETS = 2^k
    /\ HASH_BKT_CAPACITY_THRESH \in Nat \ {0}

EmptyBucket == [chain |-> <<>>, count |-> 0, expand_mult |-> 0]

HASH_MAKE_TABLE ==
    [items |-> <<>>,
     buckets |-> [b \in 0 .. HASH_INITIAL_NUM_BUCKETS - 1 |-> EmptyBucket],
     num_buckets |-> HASH_INITIAL_NUM_BUCKETS,
     num_items |-> 0, ideal_chain_maxlen |-> 0,
     ineff_expands |-> 0, noexpand |-> FALSE]

(* hashv & (num_bkts - 1), num_bkts being a power of two.                  *)
HASH_TO_BKT(hashv, num_bkts) == hashv % num_bkts

-----------------------------------------------------------------------------
(* An expansion comes to e and moves it, if b is its bucket out of nb.     *)
(* Chains are rebuilt at the head, so that their order is reversed.        *)
Visit(bkt, e, key, b, nb, ideal) ==
    IF HASH_TO_BKT(HASH_VALUE(key[e]), nb) # b THEN bkt ELSE
    LET n == bkt.count + 1 IN
    [chain |-> <<e>> \o bkt.chain,
     count |-> n,
     expand_mult |-> bkt.expand_mult
                     + IF n > ideal /\ n > bkt.expand_mult * ideal THEN 1 ELSE 0]

(* The new bucket b after every element of the old chain.                  *)
Rehashed(chain, key, b, nb, ideal) ==
    LET after[i \in 0 .. Len(chain)] ==
            IF i = 0 THEN EmptyBucket
            ELSE Visit(after[i - 1], chain[i], key, b, nb, ideal)
    IN  after[Len(chain)]

(* A slip: the buckets are doubled and the elements of the upper half are  *)
(* not moved.                                                              *)
Expanded_LowerHalf(t, key, ideal) ==
    [b \in 0 .. 2 * t.num_buckets - 1 |->
        IF b >= t.num_buckets THEN EmptyBucket
        ELSE Rehashed(t.buckets[b].chain, key, b, 2 * t.num_buckets, ideal)]

(* A slip: the multiplier of a crowded bucket is not raised.               *)
Expanded_NoMult(t, key, ideal) ==
    [b \in 0 .. 2 * t.num_buckets - 1 |->
        [Rehashed(t.buckets[b % t.num_buckets].chain, key, b, 2 * t.num_buckets, ideal)
         EXCEPT !.expand_mult = 0]]

(* The doubled buckets: the elements of old bucket b go to b or to its     *)
(* image in the upper half.                                                *)
Expanded(t, key, ideal) ==
    [b \in 0 .. 2 * t.num_buckets - 1 |->
        Rehashed(t.buckets[b % t.num_buckets].chain, key, b, 2 * t.num_buckets, ideal)]

Excess(n, ideal) == IF n > ideal THEN n - ideal ELSE 0

(* Two expansions in a row that leave more than half of the elements       *)
(* beyond the ideal length of their chains are the last ones.              *)
HASH_EXPAND_BUCKETS(t, key) ==
    LET nb == 2 * t.num_buckets
        ideal == t.num_items \div nb + IF t.num_items % nb # 0 THEN 1 ELSE 0
        new == Expanded(t, key, ideal)
        nonideal == FoldFunction(LAMBDA bkt, n : n + Excess(bkt.count, ideal), 0, new)
        ineff == IF nonideal > t.num_items \div 2 THEN t.ineff_expands + 1 ELSE 0
    IN  [t EXCEPT !.buckets = new, !.num_buckets = nb, !.ideal_chain_maxlen = ideal,
                  !.ineff_expands = ineff, !.noexpand = @ \/ ineff > 1]

HASH_ADD_TO_BKT(bkt, e) ==
    [bkt EXCEPT !.count = @ + 1, !.chain = <<e>> \o @]

(* Appends to the list, links at the head of the chain, then expands.      *)
HASH_ADD(t, e, key) ==
    LET b == HASH_TO_BKT(HASH_VALUE(key[e]), t.num_buckets)
        u == [t EXCEPT !.items = Append(@, e), !.num_items = @ + 1,
                       !.buckets[b] = HASH_ADD_TO_BKT(@, e)]
        bkt == u.buckets[b]
    IN  IF /\ bkt.count >= (bkt.expand_mult + 1) * HASH_BKT_CAPACITY_THRESH
           /\ ~u.noexpand
        THEN HASH_EXPAND_BUCKETS(u, key)
        ELSE u

(* The first element of the bucket's chain with the key, if there is one.  *)
HASH_FIND(t, k, key) ==
    LET chain == t.buckets[HASH_TO_BKT(HASH_VALUE(k), t.num_buckets)].chain
        At == {i \in DOMAIN chain : key[chain[i]] = k}
    IN  {chain[i] : i \in {j \in At : \A h \in At : j <= h}}

(* The list s without the node e.                                          *)
Unlink(s, e) ==
    LET i == CHOOSE j \in DOMAIN s : s[j] = e
    IN  SubSeq(s, 1, i - 1) \o SubSeq(s, i + 1, Len(s))

HASH_DEL_IN_BKT(bkt, e) ==
    [bkt EXCEPT !.count = @ - 1, !.chain = Unlink(@, e)]

(* A slip: the count of the bucket is left alone.                          *)
HASH_DELETE_KeepCount(t, e, key) ==
    IF t.items = <<e>> THEN HASH_MAKE_TABLE
    ELSE LET b == HASH_TO_BKT(HASH_VALUE(key[e]), t.num_buckets) IN
         [t EXCEPT !.items = Unlink(@, e), !.buckets[b].chain = Unlink(@, e),
                   !.num_items = @ - 1]

HASH_DELETE(t, e, key) ==
    IF t.items = <<e>> THEN HASH_MAKE_TABLE
    ELSE LET b == HASH_TO_BKT(HASH_VALUE(key[e]), t.num_buckets) IN
         [t EXCEPT !.items = Unlink(@, e), !.num_items = @ - 1,
                   !.buckets[b] = HASH_DEL_IN_BKT(@, e)]

(* The caller's loop comes to e and deletes it, if it is in S.             *)
DeleteIf(t, e, S, key) == IF e \in S THEN HASH_DELETE(t, e, key) ELSE t

(* HASH_ITER over the table, with HASH_DEL of the elements of S.           *)
HASH_ITER_DEL(t, S, key) ==
    LET after[i \in 0 .. Len(t.items)] ==
            IF i = 0 THEN t ELSE DeleteIf(after[i - 1], t.items[i], S, key)
    IN  after[Len(t.items)]

HASH_COUNT(t) == t.num_items

-----------------------------------------------------------------------------
(* What HASH_FSCK() verifies in a build with HASH_DEBUG, and more: the     *)
(* counts are those of the list and of the chains; every chain holds those *)
(* elements of the list that belong to its bucket, each of them once.      *)
HASH_FSCK(t, key) ==
    /\ t.num_items = Len(t.items) /\ IsInjective(t.items)
    /\ \A b \in 0 .. t.num_buckets - 1 :
           LET bkt == t.buckets[b] IN
           /\ bkt.count = Len(bkt.chain) /\ IsInjective(bkt.chain)
           /\ Range(bkt.chain)
                = {e \in Range(t.items) :
                       HASH_TO_BKT(HASH_VALUE(key[e]), t.num_buckets) = b}
=============================================================================
