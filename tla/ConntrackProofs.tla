--------------------------- MODULE ConntrackProofs ---------------------------
(* Proofs about Conntrack, for any table size, any packets and any timeout. *)
EXTENDS Conntrack, TLAPS

(* The hash of a packet is a slot.                                         *)
LEMMA HashType ==
    ASSUME NEW p \in Packets
    PROVE  Hash(p) \in Slots
<1>1. p.src_ip + p.dst_ip + p.src_port + p.dst_port \in Nat
    BY ConntrackAssumption
<1> DEFINE sum == p.src_ip + p.dst_ip + p.src_port + p.dst_port
<1> HIDE DEF sum
<1>2. sum % MAX_CONNECTIONS \in 0..(MAX_CONNECTIONS - 1)
    BY <1>1, ConntrackAssumption DEF sum
<1>3. QED
    BY <1>2 DEF Hash, Slots, sum

(* A new entry is one, and it has the numbers of its packet.               *)
LEMMA NewEntryType ==
    ASSUME NEW p \in Packets, now \in Nat
    PROVE  /\ NewEntry(p) \in Entries
           /\ NewEntry(p).last_seen = now
           /\ Hash(NewEntry(p)) = Hash(p)
BY ConntrackAssumption DEF NewEntry, Entries, Hash

(* Refreshing an entry changes its age only.                               *)
LEMMA RefreshType ==
    ASSUME NEW e \in Entries, now \in Nat
    PROVE  LET f == [e EXCEPT !.last_seen = now]
           IN  /\ f \in Entries /\ f.last_seen = now /\ Hash(f) = Hash(e)
               /\ \A p \in Packets : SameConnection(f, p) <=> SameConnection(e, p)
BY Zenon DEF Entries, Hash, SameConnection

Inv == TypeOK /\ EntriesReachable /\ LookupIsExact

(* Every operation of the table keeps the invariant.                       *)
LEMMA InvInductive == Inv /\ [Next]_vars => Inv'
<1> USE ConntrackAssumption
<1> SUFFICES ASSUME Inv, [Next]_vars PROVE Inv'
    OBVIOUS
<1>0. ~Empty.valid /\ TypeOK /\ EntriesReachable /\ LookupIsExact
    BY DEF Inv, Empty
<1>1. CASE UNCHANGED vars
    BY <1>1 DEF vars, Inv, TypeOK, EntriesReachable, LookupIsExact, Hash, SameConnection
<1>2. ASSUME NEW p \in Packets, conntrack_add(p) PROVE Inv'
    <2>1. /\ Hash(p) \in Slots /\ NewEntry(p) \in Entries
          /\ NewEntry(p).last_seen = now /\ Hash(NewEntry(p)) = Hash(p)
        BY <1>0, HashType, NewEntryType DEF TypeOK
    <2>2. /\ table' = [table EXCEPT ![Hash(p)] = NewEntry(p)]
          /\ UNCHANGED <<initialized, now, found, asked>>
        BY <1>2 DEF conntrack_add
    <2>3. TypeOK'
        BY <1>0, <2>1, <2>2 DEF TypeOK
    <2>4. ASSUME NEW s \in Slots, table'[s].valid
          PROVE  Hash(table'[s]) = s /\ table'[s].last_seen <= now'
        <3>1. CASE s = Hash(p)
            <4>1. table'[s] = NewEntry(p)
                BY <1>0, <2>1, <2>2, <3>1 DEF TypeOK
            <4>2. QED
                BY <1>0, <2>1, <2>2, <3>1, <4>1 DEF TypeOK
        <3>2. CASE s # Hash(p)
            <4>1. table'[s] = table[s]
                BY <1>0, <2>2, <3>2 DEF TypeOK
            <4>2. QED
                BY <1>0, <2>2, <2>4, <4>1 DEF EntriesReachable
        <3>3. QED
            BY <3>1, <3>2
    <2>5. EntriesReachable'
        BY <2>4 DEF EntriesReachable, Hash, Slots
    <2>6. LookupIsExact'
        BY <1>0, <2>2 DEF LookupIsExact, SameConnection
    <2>7. QED
        BY <2>3, <2>5, <2>6 DEF Inv
<1>3. ASSUME NEW p \in Packets, conntrack_lookup(p), Tracked(p) PROVE Inv'
    <2> DEFINE e == table[Hash(p)]
               f == [e EXCEPT !.last_seen = now]
    <2>1. Hash(p) \in Slots /\ e \in Entries /\ now \in Nat
        BY <1>0, <1>3, HashType DEF Tracked, TypeOK
    <2>2. /\ f \in Entries /\ f.last_seen = now /\ Hash(f) = Hash(e)
          /\ SameConnection(f, p) /\ Hash(e) = Hash(p)
        BY <1>0, <1>3, <2>1, RefreshType DEF Tracked, EntriesReachable
    <2>3. /\ table' = [table EXCEPT ![Hash(p)] = f]
          /\ found' = f /\ asked' = p /\ UNCHANGED <<initialized, now>>
        BY <1>3 DEF conntrack_lookup
    <2> HIDE DEF e, f
    <2>4. TypeOK'
        BY <1>0, <2>1, <2>2, <2>3 DEF TypeOK
    <2>5. ASSUME NEW s \in Slots, table'[s].valid
          PROVE  Hash(table'[s]) = s /\ table'[s].last_seen <= now'
        <3>1. CASE s = Hash(p)
            <4>1. table'[s] = f
                BY <1>0, <2>3, <3>1 DEF TypeOK
            <4>2. QED
                BY <2>1, <2>2, <2>3, <3>1, <4>1
        <3>2. CASE s # Hash(p)
            <4>1. table'[s] = table[s]
                BY <1>0, <2>3, <3>2 DEF TypeOK
            <4>2. QED
                BY <1>0, <2>3, <2>5, <4>1 DEF EntriesReachable
        <3>3. QED
            BY <3>1, <3>2
    <2>6. EntriesReachable'
        BY <2>5 DEF EntriesReachable, Hash, Slots
    <2>7. LookupIsExact'
        BY <2>2, <2>3 DEF LookupIsExact, SameConnection
    <2>8. QED
        BY <2>4, <2>6, <2>7 DEF Inv
<1>4. ASSUME NEW p \in Packets, conntrack_lookup(p), ~Tracked(p) PROVE Inv'
    <2>1. found' = Empty /\ asked' = p /\ UNCHANGED <<table, initialized, now>>
        BY <1>4 DEF conntrack_lookup
    <2>2. QED
        BY <1>0, <2>1 DEF Inv, TypeOK, EntriesReachable, LookupIsExact, Hash, Slots
<1>5. CASE conntrack_cleanup_old \/ conntrack_init \/ conntrack_cleanup
    <2>1. /\ UNCHANGED <<now, found, asked>> /\ initialized' \in BOOLEAN
          /\ table' \in [Slots -> Entries \cup {Empty}]
          /\ \A s \in Slots : table'[s] \in {table[s], Empty}
        BY <1>0, <1>5, Zenon DEF conntrack_cleanup_old, conntrack_init,
           conntrack_cleanup, TypeOK
    <2>2. ASSUME NEW s \in Slots, table'[s].valid
          PROVE  Hash(table'[s]) = s /\ table'[s].last_seen <= now'
        <3>1. table'[s] = table[s]
            BY <1>0, <2>1, <2>2
        <3>2. QED
            BY <1>0, <2>1, <2>2, <3>1 DEF EntriesReachable
    <2>3. EntriesReachable'
        BY <2>2 DEF EntriesReachable, Hash, Slots
    <2>4. QED
        BY <1>0, <2>1, <2>3 DEF Inv, TypeOK, LookupIsExact, SameConnection
<1>6. CASE Tick
    <2>1. now' = now + 1 /\ UNCHANGED <<table, initialized, found, asked>>
        BY <1>6 DEF Tick
    <2>2. ASSUME NEW s \in Slots, table[s].valid
          PROVE  Hash(table[s]) = s /\ table[s].last_seen <= now + 1
        <3>1. table[s] \in Entries /\ now \in Nat
            BY <1>0, <2>2 DEF TypeOK
        <3>2. table[s].last_seen \in Nat
            BY <3>1, Zenon DEF Entries
        <3>3. QED
            BY <1>0, <2>2, <3>1, <3>2 DEF EntriesReachable
    <2>3. EntriesReachable'
        BY <2>1, <2>2 DEF EntriesReachable, Hash, Slots
    <2>4. QED
        BY <1>0, <2>1, <2>3 DEF Inv, TypeOK, LookupIsExact, SameConnection
<1>7. QED
    BY <1>1, <1>2, <1>3, <1>4, <1>5, <1>6 DEF Next

(* The invariant holds in every state of the table.                        *)
THEOREM Invariance == Spec => []Inv
<1>1. ASSUME Init PROVE Inv
    <2>1. ~Empty.valid
        BY DEF Empty
    <2>2. \A s \in Slots : table[s] = Empty
        BY <1>1 DEF Init
    <2>3. initialized \in BOOLEAN
        BY <1>1, Zenon DEF Init
    <2>4. TypeOK
        BY <1>1, <2>3 DEF Init, TypeOK
    <2>5. EntriesReachable
        BY <2>1, <2>2 DEF EntriesReachable
    <2>6. LookupIsExact
        BY <1>1, <2>1 DEF Init, LookupIsExact
    <2>7. QED
        BY <2>4, <2>5, <2>6 DEF Inv
<1>2. QED
    BY <1>1, InvInductive, PTL DEF Spec

(* For any table size and packets, conntrack_lookup() never mistakes one   *)
(* connection for another that has the same hash.                          *)
THEOREM TableCorrect == Spec => []LookupIsExact
<1>1. Inv => LookupIsExact
    BY DEF Inv
<1>2. QED
    BY <1>1, Invariance, PTL

(* For any table size and packets, entries are in the slot                 *)
(* find_conntrack_entry() looks at, with an age that is not negative.      *)
THEOREM Reachability == Spec => []EntriesReachable
<1>1. Inv => EntriesReachable
    BY DEF Inv
<1>2. QED
    BY <1>1, Invariance, PTL

(* A slot's connection that conntrack_lookup() refreshes stays.            *)
LEMMA LookupKeeps ==
    ASSUME Inv, NEW p \in Packets, conntrack_lookup(p), NEW s \in Slots, table[s].valid
    PROVE  table'[s].valid /\ SameConnection(table'[s], table[s])
<1>1. table[s] \in Entries /\ Hash(p) \in Slots /\ table \in [Slots -> Entries \cup {Empty}]
    BY HashType DEF Inv, TypeOK, Empty
<1>2. CASE table' = [table EXCEPT ![Hash(p)].last_seen = now] /\ s = Hash(p)
    <2>1. table'[s] = [table[s] EXCEPT !.last_seen = now]
        BY <1>1, <1>2
    <2>2. QED
        BY <1>1, <2>1 DEF Entries, SameConnection
<1>3. CASE table' = [table EXCEPT ![Hash(p)].last_seen = now] /\ s # Hash(p)
    BY <1>1, <1>3 DEF SameConnection
<1>4. CASE UNCHANGED table
    BY <1>4 DEF SameConnection
<1>5. QED
    BY <1>2, <1>3, <1>4, Zenon DEF conntrack_lookup

(* A connection is lost to an addition of its own slot, to its age or to a *)
(* reset: no lookup, no clock tick and no addition elsewhere removes it.   *)
THEOREM Losses == Spec => LossIsExplained
<1> DEFINE Lost(s) == table[s].valid
                        /\ (table'[s].valid => ~SameConnection(table'[s], table[s]))
           Why(s) == \/ \E p \in Packets : Hash(p) = s /\ conntrack_add(p)
                     \/ now - table[s].last_seen > Timeout
                     \/ conntrack_init \/ conntrack_cleanup
<1>1. ASSUME Inv, [Next]_vars, NEW s \in Slots, Lost(s) PROVE Why(s)
    <2>1. CASE UNCHANGED table
        BY <1>1, <2>1 DEF SameConnection
    <2>2. ASSUME NEW p \in Packets, conntrack_add(p) PROVE Why(s)
        <3>1. s = Hash(p) \/ table'[s] = table[s]
            BY <1>1, <2>2 DEF conntrack_add, Inv, TypeOK
        <3>2. QED
            BY <1>1, <2>2, <3>1 DEF SameConnection
    <2>3. ASSUME NEW p \in Packets, conntrack_lookup(p) PROVE Why(s)
        BY <1>1, <2>3, LookupKeeps, Zenon
    <2>4. CASE conntrack_cleanup_old
        <3>1. table'[s] = table[s] \/ IsOld(table[s])
            BY <1>1, <2>4 DEF conntrack_cleanup_old
        <3>2. QED
            BY <1>1, <3>1 DEF SameConnection, IsOld
    <2>5. CASE UNCHANGED vars \/ Tick
        BY <2>1, <2>5, Zenon DEF vars, Tick
    <2>6. QED
        BY <1>1, <2>2, <2>3, <2>4, <2>5, Zenon DEF Next
<1>2. Inv /\ [Next]_vars
        => [\A s \in Slots :
               table[s].valid /\ (table'[s].valid => ~SameConnection(table'[s], table[s]))
               => \/ \E p \in Packets : Hash(p) = s /\ conntrack_add(p)
                  \/ now - table[s].last_seen > Timeout
                  \/ conntrack_init \/ conntrack_cleanup]_vars
    BY <1>1, Zenon
<1>3. QED
    BY <1>2, Invariance, PTL DEF Spec, LossIsExplained
=============================================================================
