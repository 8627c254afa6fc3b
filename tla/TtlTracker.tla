----------------------------- MODULE TtlTracker -----------------------------
(***************************************************************************)
(* The TTL table of tracking/ttl_tracker.c: an array searched from the     *)
(* front, one entry per TCP connection seen in either direction, which     *)
(* learns the range of TTLs from the first packets and is then frozen.     *)
(*                                                                         *)
(* An endpoint is an address and a port.  An address is a pair: its first  *)
(* 32-bit word, all an IPv4 address has, and the other three.  first_seen, *)
(* which nothing reads, is left out, and so are the slots past             *)
(* ttl_table_size, which are cleared before they are used again.           *)
(***************************************************************************)
EXTENDS Integers, Sequences

CONSTANTS
    MAX_TTL_ENTRIES,          \* 1024 in the code
    TTL_LEARNING_PACKETS,     \* 10
    TTL_LEARNING_TIMEOUT,     \* 30
    TTL_ESTABLISHED_TIMEOUT,  \* 300
    Packets,                  \* [is_ipv6, is_tcp, src, dst]
    TTLs,                     \* the TTLs of the packets, uint8_t
    AutoTtl,                  \* settings: [ttl_1, ttl_2, ttl_min, ttl_max]
    MaxTime,                  \* bound: the clock stops there
    MaxCount                  \* bound: packets counted for one entry

Endpoints == [ip : Nat \X Nat, port : Nat]
Byte == 0..255

ASSUME TtlTrackerAssumption ==
    /\ MAX_TTL_ENTRIES \in Nat \ {0}
    /\ TTL_LEARNING_PACKETS \in Nat \ {0, 1}
    /\ TTL_LEARNING_TIMEOUT \in Nat /\ TTL_ESTABLISHED_TIMEOUT \in Nat
    /\ Packets \subseteq [is_ipv6 : BOOLEAN, is_tcp : BOOLEAN,
                          src : Endpoints, dst : Endpoints]
    /\ TTLs \subseteq Byte
    /\ AutoTtl \subseteq [ttl_1 : Byte, ttl_2 : Byte, ttl_min : Byte, ttl_max : Byte]
    /\ MaxTime \in Nat /\ MaxCount \in Nat

Entries == [src : Endpoints, dst : Endpoints, original_ttl : Byte, min_ttl : Byte,
            max_ttl : Byte, ttl_delta : Byte, last_seen : Nat,
            packet_count : Nat, is_established : BOOLEAN]

VARIABLES
    ttl_table,  \* the first ttl_table_size entries of the array
    now         \* time(NULL)

vars == <<ttl_table, now>>

TypeOK ==
    /\ ttl_table \in Seq(Entries)
    /\ Len(ttl_table) <= MAX_TTL_ENTRIES
    /\ now \in Nat

Init == ttl_table = <<>> /\ now = 0

-----------------------------------------------------------------------------
(* An IPv4 packet compares the first word of the addresses only.           *)
SameEndpoint(a, b, p) ==
    /\ a.port = b.port
    /\ IF p.is_ipv6 THEN a.ip = b.ip ELSE a.ip[1] = b.ip[1]

(* A slip: the reverse direction is not tried.                             *)
Matches_ForwardOnly(e, p) ==
    SameEndpoint(e.src, p.src, p) /\ SameEndpoint(e.dst, p.dst, p)

Matches(e, p) ==
    \/ SameEndpoint(e.src, p.src, p) /\ SameEndpoint(e.dst, p.dst, p)
    \/ SameEndpoint(e.src, p.dst, p) /\ SameEndpoint(e.dst, p.src, p)

(* find_ttl_entry(): the first entry that matches, as an index.            *)
Matching(p) == {i \in DOMAIN ttl_table : Matches(ttl_table[i], p)}
find_ttl_entry(p) == CHOOSE i \in Matching(p) : \A j \in Matching(p) : i <= j

(* A slip: the maximum is looked at only when the minimum stands.          *)
Learn_ElseIf(e, ttl) ==
    LET lower == ttl < e.min_ttl \/ e.min_ttl = 0
        orig == IF e.original_ttl = 0 THEN ttl ELSE e.original_ttl
    IN  [e EXCEPT !.min_ttl = IF lower THEN ttl ELSE @,
                  !.max_ttl = IF ~lower /\ (ttl > @ \/ @ = 0) THEN ttl ELSE @,
                  !.original_ttl = orig,
                  !.ttl_delta = (orig - ttl) % 256,
                  !.is_established = (e.packet_count >= TTL_LEARNING_PACKETS)]

(* A slip: the minimum is compared the wrong way round.                    *)
Learn_MinReversed(e, ttl) ==
    LET orig == IF e.original_ttl = 0 THEN ttl ELSE e.original_ttl
    IN  [e EXCEPT !.min_ttl = IF ttl > @ \/ @ = 0 THEN ttl ELSE @,
                  !.max_ttl = IF ttl > @ \/ @ = 0 THEN ttl ELSE @,
                  !.original_ttl = orig,
                  !.ttl_delta = (orig - ttl) % 256,
                  !.is_established = (e.packet_count >= TTL_LEARNING_PACKETS)]

(* The learning phase; 0 stands for "not known yet".                       *)
Learn(e, ttl) ==
    LET orig == IF e.original_ttl = 0 THEN ttl ELSE e.original_ttl
    IN  [e EXCEPT !.min_ttl = IF ttl < @ \/ @ = 0 THEN ttl ELSE @,
                  !.max_ttl = IF ttl > @ \/ @ = 0 THEN ttl ELSE @,
                  !.original_ttl = orig,
                  !.ttl_delta = (orig - ttl) % 256,
                  !.is_established = (e.packet_count >= TTL_LEARNING_PACKETS)]

Seen(e) == [e EXCEPT !.last_seen = now, !.packet_count = @ + 1]

(* A slip: every packet is learnt from.                                    *)
Updated_Always(e, ttl) == Learn(Seen(e), ttl)

(* A slip: the packet is counted after it has been learnt from.            *)
Updated_CountLast(e, ttl) == IF e.is_established THEN Seen(e) ELSE Seen(Learn(e, ttl))

Updated(e, ttl) == IF e.is_established THEN Seen(e) ELSE Learn(Seen(e), ttl)

(* An IPv4 packet fills the first word of each address.                    *)
Stored(a, p) == IF p.is_ipv6 THEN a ELSE [a EXCEPT !.ip = <<@[1], 0>>]

NewEntry(p, ttl) ==
    [src |-> Stored(p.src, p), dst |-> Stored(p.dst, p), original_ttl |-> ttl,
     min_ttl |-> ttl, max_ttl |-> ttl, ttl_delta |-> 0, last_seen |-> now,
     packet_count |-> 1, is_established |-> FALSE]

(* A slip: established entries can be replaced.                            *)
Replaceable_Any == {i \in DOMAIN ttl_table : ttl_table[i].last_seen < now}

(* The entries that the search for the oldest considers.                   *)
Replaceable == {i \in DOMAIN ttl_table : /\ ~ttl_table[i].is_established
                                         /\ ttl_table[i].last_seen < now}

(* The first of the oldest ones.                                           *)
Oldest == CHOOSE i \in Replaceable : \A j \in Replaceable :
              \/ ttl_table[i].last_seen < ttl_table[j].last_seen
              \/ ttl_table[i].last_seen = ttl_table[j].last_seen /\ i <= j

(* A packet of a known connection.                                         *)
UpdateEntry(p, ttl) ==
    /\ Matching(p) # {}
    /\ ttl_table[find_ttl_entry(p)].packet_count < MaxCount
    /\ ttl_table' = [ttl_table EXCEPT ![find_ttl_entry(p)] = Updated(@, ttl)]

(* The first packet of a connection, with room left.                       *)
AppendEntry(p, ttl) ==
    /\ Matching(p) = {}
    /\ Len(ttl_table) < MAX_TTL_ENTRIES
    /\ ttl_table' = Append(ttl_table, NewEntry(p, ttl))

(* The table is full.  Without an entry to replace nothing changes.        *)
ReplaceEntry(p, ttl) ==
    /\ Matching(p) = {}
    /\ Len(ttl_table) = MAX_TTL_ENTRIES
    /\ Replaceable # {}
    /\ ttl_table' = [ttl_table EXCEPT ![Oldest] = NewEntry(p, ttl)]

ttl_track_update(p, ttl) ==
    /\ p.is_tcp
    /\ UpdateEntry(p, ttl) \/ AppendEntry(p, ttl) \/ ReplaceEntry(p, ttl)
    /\ UNCHANGED now

IsExpired(e) ==
    now - e.last_seen > IF e.is_established THEN TTL_ESTABLISHED_TIMEOUT
                                            ELSE TTL_LEARNING_TIMEOUT

(* The entries that are left move up, in their order: the k-th of them was *)
(* at from[k].                                                             *)
ttl_tracker_cleanup_expired ==
    LET Kept == {i \in DOMAIN ttl_table : ~IsExpired(ttl_table[i])} IN
    /\ \E n \in 0..Len(ttl_table) : \E from \in [1..n -> Kept] :
           /\ \A j, k \in 1..n : j < k => from[j] < from[k]
           /\ \A i \in Kept : \E k \in 1..n : from[k] = i
           /\ ttl_table' = [k \in 1..n |-> ttl_table[from[k]]]
    /\ UNCHANGED now

(* A slip: the differences are computed as int.                            *)
ttl_get_auto_ttl_Int(connection_ttl, a) ==
    LET distance == IF a.ttl_1 - connection_ttl > a.ttl_2
                    THEN a.ttl_2 ELSE a.ttl_1 - connection_ttl
        fake == a.ttl_1 - distance
        raised == IF fake < a.ttl_min THEN a.ttl_min ELSE fake
    IN  IF raised > a.ttl_max THEN a.ttl_max ELSE raised

(* The TTL of a fake packet, in uint8_t arithmetic, before the limits.     *)
Unlimited(connection_ttl, ttl_1, ttl_2) ==
    LET hops == (ttl_1 - connection_ttl) % 256
        distance == IF hops > ttl_2 THEN ttl_2 ELSE hops
    IN  (ttl_1 - distance) % 256

ttl_get_auto_ttl(connection_ttl, a) ==
    LET fake == Unlimited(connection_ttl, a.ttl_1, a.ttl_2)
        raised == IF fake < a.ttl_min THEN a.ttl_min ELSE fake
    IN  IF raised > a.ttl_max THEN a.ttl_max ELSE raised

ttl_tracker_init == ttl_table' = <<>> /\ UNCHANGED now
ttl_tracker_cleanup == ttl_table' = <<>> /\ UNCHANGED now

Tick ==
    /\ now < MaxTime
    /\ now' = now + 1
    /\ UNCHANGED ttl_table

Next ==
    \/ \E p \in Packets, ttl \in TTLs : ttl_track_update(p, ttl)
    \/ ttl_tracker_cleanup_expired \/ ttl_tracker_init \/ ttl_tracker_cleanup
    \/ Tick

Spec == Init /\ [][Next]_vars

-----------------------------------------------------------------------------
(* The two packets of one connection: the same ends, either way round.     *)
SameConnection(e, f) == {e.src, e.dst} = {f.src, f.dst}

(* However packets of both directions and of both IP versions interleave,  *)
(* and whatever is evicted or expires, a connection has one entry.         *)
OneEntryPerConnection ==
    \A i, j \in DOMAIN ttl_table :
        SameConnection(ttl_table[i], ttl_table[j]) => i = j

(* What ttl_get_delta() and the log report is consistent: the TTLs that    *)
(* were seen form a range, the first is not above it, and the 8-bit        *)
(* delta is the distance from the first to some TTL of the range.          *)
LearnedRange ==
    \A i \in DOMAIN ttl_table : LET e == ttl_table[i] IN
        /\ e.min_ttl <= e.max_ttl /\ e.original_ttl <= e.max_ttl
        /\ \E t \in e.min_ttl..e.max_ttl : e.ttl_delta = (e.original_ttl - t) % 256

(* A TTL brought within the limits; when these cross, the upper one wins.  *)
Clamped(t, a) ==
    IF t > a.ttl_max \/ (t < a.ttl_min /\ a.ttl_min > a.ttl_max) THEN a.ttl_max
    ELSE IF t < a.ttl_min THEN a.ttl_min ELSE t

(* The TTL a fake packet gets for a connection, whatever the connection    *)
(* has taught: above ttl_max it never is, below ttl_min only when the two  *)
(* limits cross; it is the connection's own TTL when that is at most ttl_2 *)
(* below ttl_1, and ttl_2 below ttl_1 when it is further below, or so      *)
(* little above ttl_1 that the byte does not wrap back into the window.    *)
FakeTtlInWindow ==
    \A i \in DOMAIN ttl_table, a \in AutoTtl :
        \A c \in {ttl_table[i].min_ttl, ttl_table[i].max_ttl} :
            LET f == ttl_get_auto_ttl(c, a)
                low == a.ttl_1 - a.ttl_2
            IN  /\ f <= a.ttl_max /\ (a.ttl_min <= a.ttl_max => f >= a.ttl_min)
                /\ low <= c /\ c <= a.ttl_1 => f = Clamped(c, a)
                /\ 0 <= low /\ (c < low \/ (a.ttl_1 < c /\ c < 256 + low)) =>
                       f = Clamped(low, a)

(* An entry is established exactly when it has counted enough packets.     *)
EstablishedWhenLearned ==
    \A i \in DOMAIN ttl_table :
        ttl_table[i].is_established <=> ttl_table[i].packet_count >= TTL_LEARNING_PACKETS

EntryOf(e, t) == {i \in DOMAIN t : SameConnection(t[i], e)}

(* What an established connection has learnt no later packet changes.      *)
EstablishedIsFrozen ==
    [][\A i \in DOMAIN ttl_table : ttl_table[i].is_established =>
           \A j \in EntryOf(ttl_table[i], ttl_table') :
               [ttl_table'[j] EXCEPT !.last_seen = 0, !.packet_count = 0]
                 = [ttl_table[i] EXCEPT !.last_seen = 0, !.packet_count = 0]
      ]_vars

(* The learnt range only widens and the first TTL stays: whatever order    *)
(* the packets come in, only a field that holds 0, which the code reads as *)
(* "not known", can be set anew, and then the minimum may rise.            *)
RangeOnlyWidens ==
    [][\A i \in DOMAIN ttl_table : \A j \in EntryOf(ttl_table[i], ttl_table') :
           LET e == ttl_table[i] f == ttl_table'[j] IN
           /\ f.min_ttl <= e.min_ttl \/ e.min_ttl = 0
           /\ f.max_ttl >= e.max_ttl
           /\ f.original_ttl = e.original_ttl \/ e.original_ttl = 0
      ]_vars

(* A connection is forgotten because it is silent for too long, because    *)
(* the tracker is reset, or, in a full table, while still being learnt     *)
(* and as one of those that have been silent longest.                      *)
ForgottenForAReason ==
    [][\A i \in DOMAIN ttl_table : LET e == ttl_table[i] IN
           EntryOf(e, ttl_table') = {} =>
               \/ IsExpired(e)
               \/ ttl_table' = <<>>
               \/ /\ Len(ttl_table) = MAX_TTL_ENTRIES
                  /\ ~e.is_established
                  /\ \A j \in DOMAIN ttl_table :
                         ttl_table[j].is_established \/ ttl_table[j].last_seen >= e.last_seen
      ]_vars
=============================================================================
