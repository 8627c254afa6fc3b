------------------------------ MODULE Conntrack ------------------------------
(***************************************************************************)
(* The connection tracking table of tracking/conntrack.c: a fixed array of *)
(* slots indexed by a hash of the four numbers of a connection, one entry  *)
(* per slot, the newest addition wins.  Time is counted in steps of a      *)
(* clock that only moves forward.                                          *)
(***************************************************************************)
EXTENDS Naturals

CONSTANTS
    MAX_CONNECTIONS,  \* slots of the table (4096 in the code)
    Packets,          \* [src_ip, dst_ip, src_port, dst_port, ttl, tcp]
    Timeout,          \* seconds after which an entry is old (300)
    MaxTime           \* bound: the clock stops there

ASSUME ConntrackAssumption ==
    /\ MAX_CONNECTIONS \in Nat \ {0}
    /\ Packets \subseteq [src_ip : Nat, dst_ip : Nat, src_port : Nat,
                          dst_port : Nat, ttl : Nat, tcp : BOOLEAN]
    /\ Timeout \in Nat /\ MaxTime \in Nat

Slots == 0..(MAX_CONNECTIONS - 1)
Entries == [valid : {TRUE}, src_ip : Nat, dst_ip : Nat, src_port : Nat,
            dst_port : Nat, ttl : Nat, tcp : BOOLEAN, last_seen : Nat]
Empty == [valid |-> FALSE]

VARIABLES
    table,        \* conntrack_table
    initialized,  \* conntrack_initialized
    now,          \* time(NULL)
    found,        \* what the last conntrack_lookup() reported, or Empty
    asked         \* the packet it was asked about

vars == <<table, initialized, now, found, asked>>

TypeOK ==
    /\ table \in [Slots -> Entries \cup {Empty}]
    /\ initialized \in BOOLEAN
    /\ now \in Nat
    /\ found \in Entries \cup {Empty}
    /\ asked \in Packets

Init ==
    /\ table = [s \in Slots |-> Empty]
    /\ initialized = FALSE
    /\ now = 0
    /\ found = Empty
    /\ asked \in Packets

-----------------------------------------------------------------------------
(* The sum is a uint32_t; its wrap at 2^32 does not change it modulo a     *)
(* table size that divides 2^32.                                           *)
Hash(p) == (p.src_ip + p.dst_ip + p.src_port + p.dst_port) % MAX_CONNECTIONS

SameConnection(e, p) ==
    /\ e.src_ip = p.src_ip /\ e.dst_ip = p.dst_ip
    /\ e.src_port = p.src_port /\ e.dst_port = p.dst_port

NewEntry(p) ==
    [valid |-> TRUE, src_ip |-> p.src_ip, dst_ip |-> p.dst_ip,
     src_port |-> p.src_port, dst_port |-> p.dst_port, ttl |-> p.ttl,
     tcp |-> p.tcp, last_seen |-> now]

(* A slip: an occupied slot is probed past, as in an open-addressing table. *)
conntrack_add_NextSlot(p) ==
    /\ initialized
    /\ LET s == IF table[Hash(p)].valid THEN (Hash(p) + 1) % MAX_CONNECTIONS
                                        ELSE Hash(p)
       IN  table' = [table EXCEPT ![s] = NewEntry(p)]
    /\ UNCHANGED <<initialized, now, found, asked>>

conntrack_add(p) ==
    /\ initialized
    /\ table' = [table EXCEPT ![Hash(p)] = NewEntry(p)]
    /\ UNCHANGED <<initialized, now, found, asked>>

(* A slip: any entry of the slot is taken for the connection's.            *)
Tracked_AnyInSlot(p) == table[Hash(p)].valid

(* find_conntrack_entry(): the slot of the packet holds its connection.    *)
Tracked(p) == table[Hash(p)].valid /\ SameConnection(table[Hash(p)], p)

conntrack_lookup(p) ==
    /\ initialized
    /\ asked' = p
    /\ \/ /\ Tracked(p)
          /\ table' = [table EXCEPT ![Hash(p)].last_seen = now]
          /\ found' = [table[Hash(p)] EXCEPT !.last_seen = now]
       \/ /\ ~Tracked(p)
          /\ found' = Empty
          /\ UNCHANGED table
    /\ UNCHANGED <<initialized, now>>

IsOld(e) == e.valid /\ now - e.last_seen > Timeout

(* A slip: the test is the wrong way round.                                *)
conntrack_cleanup_old_Inverted ==
    /\ initialized
    /\ table' = [s \in Slots |-> IF table[s].valid /\ ~IsOld(table[s])
                                 THEN Empty ELSE table[s]]
    /\ UNCHANGED <<initialized, now, found, asked>>

conntrack_cleanup_old ==
    /\ initialized
    /\ table' = [s \in Slots |-> IF IsOld(table[s]) THEN Empty ELSE table[s]]
    /\ UNCHANGED <<initialized, now, found, asked>>

conntrack_init ==
    /\ table' = [s \in Slots |-> Empty]
    /\ initialized' = TRUE
    /\ UNCHANGED <<now, found, asked>>

conntrack_cleanup ==
    /\ table' = [s \in Slots |-> Empty]
    /\ initialized' = FALSE
    /\ UNCHANGED <<now, found, asked>>

Tick ==
    /\ now < MaxTime
    /\ now' = now + 1
    /\ UNCHANGED <<table, initialized, found, asked>>

Next ==
    \/ \E p \in Packets : conntrack_add(p) \/ conntrack_lookup(p)
    \/ conntrack_cleanup_old \/ conntrack_init \/ conntrack_cleanup \/ Tick

Spec == Init /\ [][Next]_vars

-----------------------------------------------------------------------------
(* Every entry is in the slot of its own connection and was seen no later  *)
(* than now, so that a lookup by its four numbers reaches it and the age   *)
(* computed by conntrack_cleanup_old() is never negative.  An entry can be *)
(* lost to another connection but never misplaced.                         *)
EntriesReachable ==
    \A s \in Slots : table[s].valid =>
        Hash(table[s]) = s /\ table[s].last_seen <= now

(* A lookup reports the four numbers it was asked about: two connections   *)
(* that share a slot are never mistaken for each other.                    *)
LookupIsExact == found.valid => SameConnection(found, asked)

(* An entry disappears from its slot for one of three reasons only: an     *)
(* addition to that slot, its age, or a reset of the whole table.          *)
LossIsExplained ==
    [][\A s \in Slots :
           table[s].valid /\ (table'[s].valid => ~SameConnection(table'[s], table[s]))
           => \/ \E p \in Packets : Hash(p) = s /\ conntrack_add(p)
              \/ now - table[s].last_seen > Timeout
              \/ conntrack_init \/ conntrack_cleanup]_vars
=============================================================================
