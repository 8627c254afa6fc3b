----------------------------- MODULE DnsTracker -----------------------------
(***************************************************************************)
(* The table of DNS exchanges of tracking/dns_tracker.c: a uthash table    *)
(* keyed by the addresses and ports of the packet that created the entry,  *)
(* looked up in both directions.  uthash does not reject a key that is     *)
(* already there; which of several equal keys HASH_FIND_STR() returns      *)
(* depends on the chains, and changes when the buckets are doubled.        *)
(*                                                                         *)
(* An endpoint is an (IPv4) address and a port.  A failing malloc() adds   *)
(* nothing and is not a step; info.timestamp, which nothing reads, is left *)
(* out.                                                                    *)
(***************************************************************************)
EXTENDS Uthash

CONSTANTS
    Packets,               \* [udp, src, dst]: an IPv4 packet and its endpoints
    DNS_TRACKING_TIMEOUT,  \* 60 in the code
    MaxEntries,            \* bound: the table of the code has none
    MaxBuckets,            \* bound: the buckets stop doubling there
    MaxTime                \* bound: the clock stops there

Endpoints == [ip : Nat, port : Nat]

ASSUME DnsTrackerAssumption ==
    /\ Packets \subseteq [udp : BOOLEAN, src : Endpoints, dst : Endpoints]
    /\ DNS_TRACKING_TIMEOUT \in Nat
    /\ MaxEntries \in Nat /\ MaxBuckets \in Nat /\ MaxTime \in Nat

Infos == [client : Endpoints, server : Endpoints]
Entries(t) == [key : Endpoints \X Endpoints, info : Infos, last_seen : 0..t]

VARIABLES
    mem,        \* mem[e]: the entry at address e, which malloc() returned
    dns_table,  \* the uthash table of the addresses
    now,        \* time(NULL)
    direct      \* the caller uses dns_tracker_add(), not only ..._update()

vars == <<mem, dns_table, now, direct>>

(* The variables have their types, and no entry was last seen in the       *)
(* future: time(NULL) is what the code stores, not a deadline.             *)
TypeOK ==
    /\ DOMAIN mem \subseteq 1..MaxEntries /\ mem \in [DOMAIN mem -> Entries(now)]
    /\ dns_table.items \in Seq(DOMAIN mem)
    /\ now \in Nat
    /\ direct \in BOOLEAN

Init ==
    /\ mem = [e \in {} |-> 0]
    /\ dns_table = HASH_MAKE_TABLE
    /\ now = 0
    /\ direct \in BOOLEAN

-----------------------------------------------------------------------------
IsDns(p) == p.udp /\ (p.src.port = 53 \/ p.dst.port = 53)

(* The key is the string "src:dst:sport:dport" in hexadecimal, a one-to-   *)
(* one image of the four numbers.                                          *)
Key(p) == <<p.src, p.dst>>
ReverseKey(p) == <<p.dst, p.src>>

ASSUME HashAssumption ==
    \A p \in Packets : HASH_VALUE(Key(p)) \in Nat /\ HASH_VALUE(ReverseKey(p)) \in Nat

Used == DOMAIN mem
Keys(m) == [e \in DOMAIN m |-> m[e].key]

HashFind(k) == HASH_FIND(dns_table, k, Keys(mem))

(* A slip: the reverse direction is not tried.                             *)
Hits_ForwardOnly(p) == HashFind(Key(p))

(* The entry a lookup finds, if any: the reverse key is tried last.        *)
Hits(p) == IF HashFind(Key(p)) # {} THEN HashFind(Key(p)) ELSE HashFind(ReverseKey(p))

(* A slip: the source is always taken for the client.                      *)
Roles_SourceIsClient(p) == [client |-> p.src, server |-> p.dst]

(* A packet from port 53 comes from the server, any other goes to it.      *)
Roles(p) == IF p.src.port = 53 THEN [client |-> p.dst, server |-> p.src]
                               ELSE [client |-> p.src, server |-> p.dst]

NewEntry(p) == [key |-> Key(p), info |-> Roles(p), last_seen |-> now]

(* Which free address malloc() returns makes no difference to the code.    *)
Add(p) ==
    /\ Used # 1..MaxEntries
    /\ LET e == CHOOSE x \in (1..MaxEntries) \ Used : TRUE IN
       /\ mem' = [x \in Used \cup {e} |-> IF x = e THEN NewEntry(p) ELSE mem[x]]
       /\ dns_table' = HASH_ADD(dns_table, e, Keys(mem'))
       /\ dns_table'.num_buckets <= MaxBuckets

(* A slip: the first moment at which the entry is expired is stored.       *)
Refresh_Deadline(i) ==
    /\ mem' = [mem EXCEPT ![i].last_seen = now + DNS_TRACKING_TIMEOUT + 1]
    /\ UNCHANGED dns_table

Refresh(i) == mem' = [mem EXCEPT ![i].last_seen = now] /\ UNCHANGED dns_table

dns_tracker_add(p) ==
    /\ direct
    /\ IsDns(p)
    /\ Add(p)
    /\ UNCHANGED <<now, direct>>

(* A lookup that finds nothing changes nothing; one that does hands out    *)
(* the info of the entry (LookupNamesTheServer).                           *)
dns_tracker_lookup(p) ==
    /\ IsDns(p)
    /\ \E i \in Hits(p) : Refresh(i)
    /\ UNCHANGED <<now, direct>>

dns_tracker_update(p) ==
    /\ IsDns(p)
    /\ \/ \E i \in Hits(p) : Refresh(i)
       \/ Hits(p) = {} /\ Add(p)
    /\ UNCHANGED <<now, direct>>

(* A slip: the age is compared the wrong way round, as dns_tracker_get_    *)
(* stats() compares it.                                                    *)
IsExpired_Active(e) == now - e.last_seen <= DNS_TRACKING_TIMEOUT

(* A slip: an entry expires at the timeout, not after it.                  *)
IsExpired_AtTimeout(e) == now - e.last_seen >= DNS_TRACKING_TIMEOUT

IsExpired(e) == now - e.last_seen > DNS_TRACKING_TIMEOUT

(* HASH_ITER over the table, with HASH_DEL and free() for the entries of S *)
(* as they are met.                                                        *)
Delete(S) ==
    /\ dns_table' = HASH_ITER_DEL(dns_table, S, Keys(mem))
    /\ mem' = Restrict(mem, Used \ (S \cap Range(dns_table.items)))

dns_tracker_cleanup_expired ==
    /\ Delete({e \in Used : IsExpired(mem[e])})
    /\ UNCHANGED <<now, direct>>

(* dns_tracker_cleanup() empties the table and frees the entries.          *)
dns_tracker_cleanup == Delete(Used) /\ UNCHANGED <<now, direct>>

(* dns_tracker_init() only forgets them; memory nothing points to any more *)
(* counts as free here, as the heap of the code has no such bound.         *)
dns_tracker_init ==
    /\ dns_table' = HASH_MAKE_TABLE
    /\ mem' = [e \in {} |-> 0]
    /\ UNCHANGED <<now, direct>>

(* dns_tracker_get_stats(): entries, and entries that have not expired.    *)
dns_tracker_get_stats ==
    [total |-> HASH_COUNT(dns_table),
     active |-> Cardinality({i \in DOMAIN dns_table.items :
                                 now - mem[dns_table.items[i]].last_seen
                                     <= DNS_TRACKING_TIMEOUT})]

Tick ==
    /\ now < MaxTime
    /\ now' = now + 1
    /\ UNCHANGED <<mem, dns_table, direct>>

Next ==
    \/ \E p \in Packets : \/ dns_tracker_add(p)
                          \/ dns_tracker_lookup(p)
                          \/ dns_tracker_update(p)
    \/ dns_tracker_cleanup_expired \/ dns_tracker_init \/ dns_tracker_cleanup
    \/ Tick

Spec == Init /\ [][Next]_vars

-----------------------------------------------------------------------------
Exchange(k) == {k[1], k[2]}
Exchanges(m) == [e \in DOMAIN Keys(m) |-> Exchange(Keys(m)[e])]

(* The two structures of the table agree with each other and with memory:  *)
(* HASH_FSCK() never complains, and what malloc() returned is in the table *)
(* until it is freed.  So no iteration meets freed memory.                 *)
TableIntact ==
    HASH_FSCK(dns_table, Keys(mem)) /\ Range(dns_table.items) = Used

(* Through all additions, deletions and doublings of the buckets, a key is *)
(* found when and only when an entry of the table has it.                  *)
FindsWhatIsThere ==
    \A p \in Packets :
        LET hit == HashFind(Key(p)) IN
        /\ \A e \in hit : mem[e].key = Key(p)
        /\ hit = {} => \A e \in Used : mem[e].key # Key(p)

(* uthash.h:1077-1088: a chain that reaches its limit makes the buckets    *)
(* double, and a crowded bucket is given a "longer yet-still-bounded"      *)
(* limit instead of a doubling at every addition.  So, until two doublings *)
(* in a row did not help, no chain reaches the limit of its bucket, except *)
(* where a doubling found so many elements that the ideal chain does: such *)
(* a chain is no longer than as many ideal ones.                           *)
ChainsStayShort ==
    \A b \in 0 .. dns_table.num_buckets - 1 :
        LET bkt == dns_table.buckets[b] IN
        \/ dns_table.noexpand
        \/ bkt.count < (bkt.expand_mult + 1) * HASH_BKT_CAPACITY_THRESH
        \/ bkt.count <= (bkt.expand_mult + 1) * dns_table.ideal_chain_maxlen

(* As long as packets enter the table through dns_tracker_update() only, a *)
(* query and its answers, in whatever order they come, share one entry.    *)
OneEntryPerExchange == direct \/ IsInjective(Exchanges(mem))

(* Whichever packet of the exchange created the entry, and whichever of    *)
(* several equal entries is found, the answer to a lookup names the two    *)
(* ends of the packet, with the server at the end that has port 53.  (When *)
(* both have it the roles are those of the packet that was seen first.)    *)
LookupNamesTheServer ==
    \A p \in Packets : IsDns(p) =>
        \A e \in Hits(p) :
            LET info == mem[e].info IN
            {info.client, info.server} = {p.src, p.dst} /\ info.server.port = 53

(* An exchange is forgotten only when none of its entries was used within  *)
(* the timeout, or when the whole table is reset: a second entry for the   *)
(* exchange that is never refreshed does not take the live one with it.    *)
LiveExchangeIsKept ==
    [][\A e \in Used :
           now - mem[e].last_seen <= DNS_TRACKING_TIMEOUT =>
               \/ Exchange(mem[e].key) \in Range(Exchanges(mem'))
               \/ dns_tracker_init \/ dns_tracker_cleanup]_vars

(* The sweep leaves what dns_tracker_get_stats() counted as active: the    *)
(* two comparisons with the timeout are exact complements.                 *)
SweepLeavesTheActive ==
    [][dns_tracker_cleanup_expired =>
           dns_tracker_get_stats'.total = dns_tracker_get_stats.active]_vars
=============================================================================
