-------------------------- MODULE DnsTrackerProofs --------------------------
(* Proofs about DnsTracker, for any packets, hash function, timeout and     *)
(* bounds.  What uthash does to its table is proved in UthashProofs; here   *)
(* the table and the entries in memory change together.                     *)
EXTENDS DnsTracker, UthashProofs, FiniteSetTheorems

Typed(m, t) == DOMAIN m \subseteq 1..MaxEntries /\ m \in [DOMAIN m -> Entries(t)]

(* Every entry names the ends of its key, the server having port 53.       *)
Names(info, k) == {info.client, info.server} = Exchange(k) /\ info.server.port = 53
Named(m) == \A e \in DOMAIN m : Names(m[e].info, m[e].key)

(* Entries that are there in m are there in n, with the same keys.         *)
SameKeys(m, n) ==
    DOMAIN n \subseteq DOMAIN m /\ \A e \in DOMAIN n : n[e].key = m[e].key /\ n[e].info = m[e].info

(* The inductive invariant: the table is consistent and holds the entries  *)
(* of memory, which have their types, names and hash values.               *)
Inv ==
    /\ Typed(mem, now) /\ now \in Nat /\ direct \in BOOLEAN
    /\ Intact(dns_table, DOMAIN mem, Keys(mem)) /\ Short(dns_table)
    /\ Hashed(DOMAIN mem, Keys(mem))
    /\ Named(mem)
    /\ OneEntryPerExchange

(* The keys of the entries in memory.                                      *)
LEMMA KeysAre ==
    ASSUME NEW m PROVE DOMAIN Keys(m) = DOMAIN m /\ \A e \in DOMAIN m : Keys(m)[e] = m[e].key
BY Zenon DEF Keys

(* The exchanges of the entries in memory.                                 *)
LEMMA ExchangesAre ==
    ASSUME NEW m
    PROVE  DOMAIN Exchanges(m) = DOMAIN m /\ \A e \in DOMAIN m : Exchanges(m)[e] = Exchange(m[e].key)
BY KeysAre, Zenon DEF Exchanges

(* What depends on keys and roles only survives a change of the rest, and  *)
(* the loss of entries.                                                    *)
LEMMA SameKeysKeep ==
    ASSUME NEW m, NEW n, SameKeys(m, n)
    PROVE  /\ Named(m) => Named(n)
           /\ Hashed(DOMAIN m, Keys(m)) => Hashed(DOMAIN n, Keys(n))
           /\ IsInjective(Exchanges(m)) => IsInjective(Exchanges(n))
           /\ \A e \in DOMAIN n : Keys(n)[e] = Keys(m)[e]
<1>1. \A e \in DOMAIN n : e \in DOMAIN m /\ n[e].key = m[e].key /\ n[e].info = m[e].info
    BY Zenon DEF SameKeys
<1>2. \A e \in DOMAIN n : Keys(n)[e] = Keys(m)[e]
    BY <1>1, KeysAre, Zenon
<1>3. Named(m) => Named(n)
    BY <1>1, Zenon DEF Named
<1>4. Hashed(DOMAIN m, Keys(m)) => Hashed(DOMAIN n, Keys(n))
    BY <1>1, <1>2, Zenon DEF Hashed
<1>5. IsInjective(Exchanges(m)) => IsInjective(Exchanges(n))
    <2> DEFINE f == Exchanges(m)
               g == Exchanges(n)
    <2>1. DOMAIN f = DOMAIN m /\ DOMAIN g = DOMAIN n
        BY ExchangesAre, Zenon
    <2>2. \A e \in DOMAIN n : f[e] = Exchange(m[e].key) /\ g[e] = Exchange(n[e].key)
        BY <1>1, ExchangesAre, Zenon
    <2> HIDE DEF f, g
    <2>3. \A e \in DOMAIN n : g[e] = f[e]
        BY <1>1, <2>2, Zenon
    <2>4. IsInjective(f) => IsInjective(g)
        BY <1>1, <2>1, <2>3, Zenon DEF IsInjective
    <2>5. QED
        BY <2>4, Zenon DEF f, g
<1>6. QED
    BY <1>2, <1>3, <1>4, <1>5, Zenon

(* A packet, its roles and its keys.                                       *)
LEMMA PacketFacts ==
    ASSUME NEW p \in Packets
    PROVE  /\ p.src \in Endpoints /\ p.dst \in Endpoints
           /\ Roles(p) \in Infos /\ {Roles(p).client, Roles(p).server} = {p.src, p.dst}
           /\ IsDns(p) => Names(Roles(p), Key(p))
           /\ HASH_VALUE(Key(p)) \in Nat /\ HASH_VALUE(ReverseKey(p)) \in Nat
<1>1. p.src \in Endpoints /\ p.dst \in Endpoints
    BY DnsTrackerAssumption, Zenon
<1>2. HASH_VALUE(Key(p)) \in Nat /\ HASH_VALUE(ReverseKey(p)) \in Nat
    BY HashAssumption, Zenon
<1>3. Exchange(Key(p)) = {p.src, p.dst}
    BY DEF Exchange, Key
<1>4. CASE p.src.port = 53
    <2>1. Roles(p) = [client |-> p.dst, server |-> p.src]
        BY <1>4, Zenon DEF Roles
    <2>2. Roles(p).client = p.dst /\ Roles(p).server = p.src /\ Roles(p) \in Infos
        BY <1>1, <2>1, SMT DEF Infos
    <2>3. {Roles(p).client, Roles(p).server} = {p.src, p.dst}
        BY <2>2, Zenon
    <2>4. QED
        BY <1>1, <1>2, <1>4, <1>3, <2>2, <2>3, Zenon DEF Names
<1>5. CASE p.src.port # 53
    <2>1. Roles(p) = [client |-> p.src, server |-> p.dst]
        BY <1>5, Zenon DEF Roles
    <2>2. Roles(p).client = p.src /\ Roles(p).server = p.dst /\ Roles(p) \in Infos
        BY <1>1, <2>1, SMT DEF Infos
    <2>3. {Roles(p).client, Roles(p).server} = {p.src, p.dst}
        BY <2>2, Zenon
    <2>4. IsDns(p) => p.dst.port = 53
        BY <1>5, Zenon DEF IsDns
    <2>5. QED
        BY <1>1, <1>2, <1>3, <2>2, <2>3, <2>4, Zenon DEF Names
<1>6. QED
    BY <1>4, <1>5, Zenon

(* What HASH_FIND_STR() finds, and what a lookup in both directions finds. *)
LEMMA HitFacts ==
    ASSUME Inv, NEW p \in Packets
    PROVE  /\ \A e \in HashFind(Key(p)) : e \in DOMAIN mem /\ mem[e].key = Key(p)
           /\ HashFind(Key(p)) = {} => \A e \in DOMAIN mem : mem[e].key # Key(p)
           /\ \A e \in Hits(p) : e \in DOMAIN mem /\ mem[e].key \in {Key(p), ReverseKey(p)}
           /\ Hits(p) = {} => \A e \in DOMAIN mem : mem[e].key \notin {Key(p), ReverseKey(p)}
<1>1. ASSUME NEW k, HASH_VALUE(k) \in Nat
      PROVE  /\ \A e \in HashFind(k) : e \in DOMAIN mem /\ mem[e].key = k
             /\ HashFind(k) = {} => \A e \in DOMAIN mem : mem[e].key # k
    <2>1. Intact(dns_table, DOMAIN mem, Keys(mem))
        BY Zenon DEF Inv
    <2>2. Finds(HashFind(k), DOMAIN mem, Keys(mem), k)
        BY <1>1, <2>1, FindFacts, Zenon DEF HashFind
    <2>3. \A e \in DOMAIN mem : Keys(mem)[e] = mem[e].key
        BY KeysAre, Zenon
    <2>4. QED
        BY <2>2, <2>3, Zenon DEF Finds
<1>2. HASH_VALUE(Key(p)) \in Nat /\ HASH_VALUE(ReverseKey(p)) \in Nat
    BY PacketFacts, Zenon
<1>3. QED
    BY <1>1, <1>2, Zenon DEF Hits

-----------------------------------------------------------------------------
(* The entry of a packet.                                                  *)
LEMMA NewEntryFacts ==
    ASSUME now \in Nat, NEW p \in Packets, IsDns(p)
    PROVE  /\ NewEntry(p) \in Entries(now)
           /\ NewEntry(p).key = Key(p) /\ Names(NewEntry(p).info, NewEntry(p).key)
<1>1. p.src \in Endpoints /\ p.dst \in Endpoints /\ Roles(p) \in Infos /\ Names(Roles(p), Key(p))
    BY PacketFacts, Zenon
<1>2. Key(p) \in Endpoints \X Endpoints /\ now \in 0..now
    BY <1>1 DEF Key
<1>3. NewEntry(p) = [key |-> Key(p), info |-> Roles(p), last_seen |-> now]
    BY Zenon DEF NewEntry
<1> DEFINE k == Key(p)
           i == Roles(p)
           e == NewEntry(p)
<1> HIDE DEF k, i, e
<1>4. k \in Endpoints \X Endpoints /\ i \in Infos /\ e = [key |-> k, info |-> i, last_seen |-> now]
    BY <1>1, <1>2, <1>3, Zenon DEF k, i, e
<1>5. e \in Entries(now) /\ e.key = k /\ e.info = i
    BY <1>2, <1>4, SMT DEF Entries
<1>6. QED
    BY <1>1, <1>5, Zenon DEF k, i, e

(* The exchange tells the key, up to the direction.                        *)
LEMMA ExchangeTells ==
    ASSUME NEW k \in Endpoints \X Endpoints, NEW p, Exchange(k) = Exchange(Key(p))
    PROVE  k \in {Key(p), ReverseKey(p)}
<1>1. k = <<k[1], k[2]>>
    OBVIOUS
<1>2. Exchange(Key(p)) = {p.src, p.dst} /\ Exchange(k) = {k[1], k[2]}
    BY DEF Exchange, Key
<1>3. (k[1] = p.src /\ k[2] = p.dst) \/ (k[1] = p.dst /\ k[2] = p.src)
    BY <1>2, Zenon
<1>4. QED
    BY <1>1, <1>3, Zenon DEF Key, ReverseKey

(* m2 is m with one more entry x at the address e.                         *)
Extends(m2, m, e, x) ==
    /\ e \in 1..MaxEntries /\ e \notin DOMAIN m
    /\ DOMAIN m2 = DOMAIN m \cup {e} /\ m2 = [y \in DOMAIN m2 |-> m2[y]]
    /\ m2[e] = x /\ \A y \in DOMAIN m : m2[y] = m[y]

(* An addition to the memory and to the table.                             *)
LEMMA AddEffect ==
    ASSUME Inv, NEW p, Add(p)
    PROVE  \E e : Extends(mem', mem, e, NewEntry(p))
                  /\ dns_table' = HASH_ADD(dns_table, e, Keys(mem'))
<1> DEFINE e == CHOOSE x \in (1..MaxEntries) \ Used : TRUE
<1>1. e \in (1..MaxEntries) \ Used
    BY Zenon DEF Inv, Typed, Used, Add
<1>2. mem' = [x \in Used \cup {e} |-> IF x = e THEN NewEntry(p) ELSE mem[x]]
      /\ dns_table' = HASH_ADD(dns_table, e, Keys(mem'))
    BY Zenon DEF Add
<1> HIDE DEF e
<1>3. Extends(mem', mem, e, NewEntry(p))
    BY <1>1, <1>2, Zenon DEF Extends, Used
<1>4. QED
    BY <1>2, <1>3, Zenon

(* An addition keeps the invariant, provided that a lookup for the packet  *)
(* failed or that the caller adds without one.                             *)
LEMMA AddKeeps ==
    ASSUME Inv, NEW p \in Packets, IsDns(p), Add(p), direct \/ Hits(p) = {},
           now' = now, direct' = direct
    PROVE  Inv' /\ SameKeys(mem', mem)
<1> DEFINE x == NewEntry(p)
<1>1. /\ Typed(mem, now) /\ now \in Nat /\ direct \in BOOLEAN
      /\ Intact(dns_table, DOMAIN mem, Keys(mem)) /\ Short(dns_table)
      /\ Hashed(DOMAIN mem, Keys(mem)) /\ Named(mem)
      /\ direct \/ IsInjective(Exchanges(mem))
    BY Zenon DEF Inv, OneEntryPerExchange
<1>2. PICK e : Extends(mem', mem, e, x) /\ dns_table' = HASH_ADD(dns_table, e, Keys(mem'))
    BY AddEffect, Zenon
<1>3. x \in Entries(now) /\ x.key = Key(p) /\ Names(x.info, x.key)
    BY <1>1, NewEntryFacts, Zenon
<1>4. HASH_VALUE(Key(p)) \in Nat
    BY PacketFacts, Zenon
<1> HIDE DEF x
<1>5. \A y \in DOMAIN mem' : y = e \/ (y \in DOMAIN mem /\ mem'[y] = mem[y])
    BY <1>2, Zenon DEF Extends
<1>6. mem'[e] = x /\ e \in DOMAIN mem' /\ e \notin DOMAIN mem /\ DOMAIN mem' = DOMAIN mem \cup {e}
    BY <1>2, Zenon DEF Extends
<1>7. Typed(mem', now')
    BY <1>1, <1>2, <1>3, Zenon DEF Typed, Extends
<1>8. Named(mem')
    BY <1>1, <1>3, <1>5, <1>6, Zenon DEF Named
<1>9. \A y \in DOMAIN mem : Keys(mem')[y] = Keys(mem)[y]
    <2>1. \A y \in DOMAIN mem : Keys(mem)[y] = mem[y].key
        BY KeysAre, Zenon
    <2>2. \A y \in DOMAIN mem' : Keys(mem')[y] = mem'[y].key
        BY KeysAre, Zenon
    <2>3. QED
        BY <1>2, <2>1, <2>2, Zenon DEF Extends
<1>10. Keys(mem')[e] = Key(p)
    BY <1>3, <1>6, KeysAre, Zenon
<1>11. Hashed(DOMAIN mem', Keys(mem'))
    BY <1>1, <1>4, <1>5, <1>9, <1>10, Zenon DEF Hashed
<1>12. Intact(dns_table', DOMAIN mem', Keys(mem')) /\ Short(dns_table')
    <2> DEFINE E == DOMAIN mem
               key == Keys(mem)
               new == Keys(mem')
    <2>1. Intact(dns_table, E, key) /\ \A y \in E : new[y] = key[y]
        BY <1>1, <1>9, Zenon
    <2>2. e \notin E /\ Hashed(E \cup {e}, new)
        BY <1>6, <1>11, Zenon
    <2> HIDE DEF E, key, new
    <2>3. /\ Intact(HASH_ADD(dns_table, e, new), E \cup {e}, new)
          /\ Short(dns_table) => Short(HASH_ADD(dns_table, e, new))
        BY <2>1, <2>2, AddIntact, Zenon
    <2>4. QED
        BY <1>1, <1>2, <1>6, <2>3, Zenon DEF E, new
<1>13. direct' \/ IsInjective(Exchanges(mem'))
    <2>1. SUFFICES ASSUME ~direct PROVE IsInjective(Exchanges(mem'))
        BY Zenon
    <2> DEFINE f == Exchanges(mem)
               g == Exchanges(mem')
    <2>2. DOMAIN f = DOMAIN mem /\ \A y \in DOMAIN mem : f[y] = Exchange(mem[y].key)
        BY ExchangesAre, Zenon
    <2>3. DOMAIN g = DOMAIN mem' /\ \A y \in DOMAIN mem' : g[y] = Exchange(mem'[y].key)
        BY ExchangesAre, Zenon
    <2>4. IsInjective(f)
        BY <1>1, <2>1, Zenon
    <2> HIDE DEF f, g
    <2>5. g[e] = Exchange(Key(p))
        BY <1>3, <1>6, <2>3, Zenon
    <2>6. ASSUME NEW y \in DOMAIN mem PROVE g[y] = f[y] /\ g[y] # g[e]
        <3>1. g[y] = f[y] /\ f[y] = Exchange(mem[y].key)
            BY <1>2, <2>2, <2>3, Zenon DEF Extends
        <3>2. mem[y].key \notin {Key(p), ReverseKey(p)}
            BY <2>1, HitFacts, Zenon
        <3>3. mem[y].key \in Endpoints \X Endpoints
            BY <1>1, SMT DEF Typed, Entries
        <3>4. QED
            BY <2>5, <3>1, <3>2, <3>3, ExchangeTells, Zenon
    <2>7. IsInjective(g)
        BY <1>5, <2>2, <2>3, <2>4, <2>6, Zenon DEF IsInjective
    <2>8. QED
        BY <2>7, Zenon DEF g
<1>14. Inv'
    BY <1>1, <1>7, <1>8, <1>11, <1>12, <1>13, Zenon DEF Inv, OneEntryPerExchange
<1>15. SameKeys(mem', mem)
    BY <1>2, Zenon DEF SameKeys, Extends
<1>16. QED
    BY <1>14, <1>15, Zenon

(* A refreshed entry.                                                      *)
LEMMA RefreshedEntry ==
    ASSUME NEW t \in Nat, NEW x \in Entries(t)
    PROVE  /\ [x EXCEPT !.last_seen = t] \in Entries(t)
           /\ [x EXCEPT !.last_seen = t].key = x.key
           /\ [x EXCEPT !.last_seen = t].info = x.info
<1>1. t \in 0..t
    OBVIOUS
<1>2. QED
    BY <1>1, SMT DEF Entries

(* The entries keep their types as time passes.                            *)
LEMMA EntriesGrow ==
    ASSUME NEW t \in Nat, NEW m, Typed(m, t)
    PROVE  Typed(m, t + 1)
<1>1. 0..t \subseteq 0..(t + 1)
    OBVIOUS
<1>2. \A x \in Entries(t) : x \in Entries(t + 1)
    BY <1>1, Zenon DEF Entries
<1>3. QED
    BY <1>2, Zenon DEF Typed

(* What changes neither the table nor the keys keeps the invariant.        *)
LEMMA SameTableKeeps ==
    ASSUME Inv, SameKeys(mem, mem'), DOMAIN mem' = DOMAIN mem, Typed(mem', now'), now' \in Nat,
           dns_table' = dns_table, direct' = direct
    PROVE  Inv'
<1>1. /\ direct \in BOOLEAN
      /\ Intact(dns_table, DOMAIN mem, Keys(mem)) /\ Short(dns_table)
      /\ Hashed(DOMAIN mem, Keys(mem)) /\ Named(mem)
      /\ direct \/ IsInjective(Exchanges(mem))
    BY Zenon DEF Inv, OneEntryPerExchange
<1>2. /\ Named(mem) => Named(mem')
      /\ Hashed(DOMAIN mem, Keys(mem)) => Hashed(DOMAIN mem', Keys(mem'))
      /\ IsInjective(Exchanges(mem)) => IsInjective(Exchanges(mem'))
      /\ \A e \in DOMAIN mem' : Keys(mem')[e] = Keys(mem)[e]
    BY SameKeysKeep, Zenon
<1>3. Intact(dns_table, DOMAIN mem, Keys(mem'))
    BY <1>1, <1>2, KeysOfElements, Zenon
<1>4. QED
    BY <1>1, <1>2, <1>3, Zenon DEF Inv, OneEntryPerExchange

(* A refreshed entry keeps its key.                                        *)
LEMMA RefreshKeeps ==
    ASSUME Inv, NEW i \in DOMAIN mem, Refresh(i), now' = now, direct' = direct
    PROVE  Inv' /\ SameKeys(mem', mem)
<1>1. Typed(mem, now) /\ now \in Nat
    BY Zenon DEF Inv
<1> DEFINE x == [mem[i] EXCEPT !.last_seen = now]
<1>2. mem' = [mem EXCEPT ![i] = x] /\ dns_table' = dns_table
    BY Zenon DEF Refresh
<1>3. mem[i] \in Entries(now)
    BY <1>1, Zenon DEF Typed
<1>4. x \in Entries(now) /\ x.key = mem[i].key /\ x.info = mem[i].info
    BY <1>1, <1>3, RefreshedEntry, Zenon
<1> HIDE DEF x
<1>5. DOMAIN mem' = DOMAIN mem /\ mem' = [e \in DOMAIN mem |-> IF e = i THEN x ELSE mem[e]]
    BY <1>2, Zenon
<1>6. SameKeys(mem, mem') /\ SameKeys(mem', mem)
    BY <1>4, <1>5, Zenon DEF SameKeys
<1>7. Typed(mem', now')
    BY <1>1, <1>4, <1>5, Zenon DEF Typed
<1>8. QED
    BY <1>1, <1>2, <1>5, <1>6, <1>7, SameTableKeeps, Zenon

(* A clean-up takes the entries of S out of the table and out of memory.   *)
LEMMA DeleteKeeps ==
    ASSUME Inv, NEW S, Delete(S), now' = now, direct' = direct
    PROVE  /\ Inv' /\ DOMAIN mem' = DOMAIN mem \ S
           /\ \A e \in DOMAIN mem' : mem'[e] = mem[e]
<1>1. /\ Typed(mem, now) /\ now \in Nat /\ direct \in BOOLEAN
      /\ Intact(dns_table, DOMAIN mem, Keys(mem)) /\ Short(dns_table)
      /\ Hashed(DOMAIN mem, Keys(mem)) /\ Named(mem)
      /\ direct \/ IsInjective(Exchanges(mem))
    BY Zenon DEF Inv, OneEntryPerExchange
<1>2. Range(dns_table.items) = DOMAIN mem
    BY <1>1, Zenon DEF Intact, Lists
<1>3. DOMAIN mem \ (S \cap DOMAIN mem) = DOMAIN mem \ S
    BY Zenon
<1>4. mem' = [e \in DOMAIN mem \ S |-> mem[e]]
    BY <1>2, <1>3, Zenon DEF Delete, Restrict, Used
<1>5. DOMAIN mem' = DOMAIN mem \ S /\ \A e \in DOMAIN mem' : mem'[e] = mem[e]
    BY <1>4, Zenon
<1>6. Typed(mem', now')
    BY <1>1, <1>4, Zenon DEF Typed
<1>7. SameKeys(mem, mem')
    BY <1>5, Zenon DEF SameKeys
<1>8. /\ Named(mem) => Named(mem')
      /\ Hashed(DOMAIN mem, Keys(mem)) => Hashed(DOMAIN mem', Keys(mem'))
      /\ IsInjective(Exchanges(mem)) => IsInjective(Exchanges(mem'))
      /\ \A e \in DOMAIN mem' : Keys(mem')[e] = Keys(mem)[e]
    BY <1>7, SameKeysKeep, Zenon
<1>9. Intact(dns_table', DOMAIN mem', Keys(mem)) /\ Short(dns_table')
    <2>1. dns_table' = HASH_ITER_DEL(dns_table, S, Keys(mem))
        BY Zenon DEF Delete
    <2>2. /\ Intact(HASH_ITER_DEL(dns_table, S, Keys(mem)), DOMAIN mem \ S, Keys(mem))
          /\ Short(dns_table) => Short(HASH_ITER_DEL(dns_table, S, Keys(mem)))
        BY <1>1, IterIntact, Zenon
    <2>3. QED
        BY <1>1, <1>5, <2>1, <2>2, Zenon
<1>10. Intact(dns_table', DOMAIN mem', Keys(mem'))
    BY <1>8, <1>9, KeysOfElements, Zenon
<1>11. Inv'
    BY <1>1, <1>6, <1>8, <1>9, <1>10, Zenon DEF Inv, OneEntryPerExchange
<1>12. QED
    BY <1>5, <1>11, Zenon

(* The entries stay as they are while time passes.                         *)
LEMMA TickKeeps ==
    ASSUME Inv, mem' = mem, dns_table' = dns_table, direct' = direct, now' \in {now, now + 1}
    PROVE  Inv' /\ SameKeys(mem', mem)
<1>1. Typed(mem, now) /\ now \in Nat
    BY Zenon DEF Inv
<1>2. now' \in Nat
    BY <1>1
<1>3. Typed(mem', now')
    BY <1>1, EntriesGrow, Zenon
<1>4. SameKeys(mem, mem') /\ SameKeys(mem', mem)
    BY Zenon DEF SameKeys
<1>5. QED
    BY <1>2, <1>3, <1>4, SameTableKeeps, Zenon

(* An empty table and an empty memory.                                     *)
LEMMA EmptyKeeps ==
    ASSUME NEW m, m = [e \in {} |-> 0], NEW t
    PROVE  /\ DOMAIN m = {} /\ Typed(m, t) /\ Named(m) /\ Hashed(DOMAIN m, Keys(m))
           /\ IsInjective(Exchanges(m))
           /\ Intact(HASH_MAKE_TABLE, DOMAIN m, Keys(m)) /\ Short(HASH_MAKE_TABLE)
<1>1. DOMAIN m = {}
    BY Zenon
<1>2. Typed(m, t) /\ Named(m) /\ Hashed(DOMAIN m, Keys(m))
    BY <1>1, Zenon DEF Typed, Named, Hashed
<1>3. IsInjective(Exchanges(m))
    BY <1>1, ExchangesAre, Zenon DEF IsInjective
<1>4. Intact(HASH_MAKE_TABLE, DOMAIN m, Keys(m)) /\ Short(HASH_MAKE_TABLE)
    BY <1>1, NewTable, Zenon
<1>5. QED
    BY <1>1, <1>2, <1>3, <1>4, Zenon

(* Every step keeps the invariant, and only the three clean-ups take       *)
(* entries out of memory.                                                  *)
LEMMA StepKeeps ==
    ASSUME Inv, [Next]_vars
    PROVE  /\ Inv'
           /\ \/ SameKeys(mem', mem)
              \/ dns_tracker_cleanup_expired \/ dns_tracker_init \/ dns_tracker_cleanup
<1> DEFINE Done == Inv' /\ SameKeys(mem', mem)
<1>1. ASSUME NEW p \in Packets, dns_tracker_add(p) PROVE Done
    BY <1>1, AddKeeps, Zenon DEF dns_tracker_add
<1>2. ASSUME NEW p \in Packets, NEW i \in Hits(p), Refresh(i), now' = now, direct' = direct
      PROVE  Done
    <2>1. i \in DOMAIN mem
        BY <1>2, HitFacts, Zenon
    <2>2. QED
        BY <1>2, <2>1, RefreshKeeps, Zenon
<1>3. ASSUME NEW p \in Packets, dns_tracker_lookup(p) PROVE Done
    BY <1>2, <1>3, Zenon DEF dns_tracker_lookup
<1>4. ASSUME NEW p \in Packets, dns_tracker_update(p) PROVE Done
    <2>1. CASE Hits(p) = {} /\ Add(p)
        BY <1>4, <2>1, AddKeeps, Zenon DEF dns_tracker_update
    <2>2. CASE \E i \in Hits(p) : Refresh(i)
        BY <1>2, <1>4, <2>2, Zenon DEF dns_tracker_update
    <2>3. QED
        BY <1>4, <2>1, <2>2, Zenon DEF dns_tracker_update
<1>5. CASE dns_tracker_cleanup_expired
    BY <1>5, DeleteKeeps, Zenon DEF dns_tracker_cleanup_expired
<1>6. CASE dns_tracker_cleanup
    BY <1>6, DeleteKeeps, Zenon DEF dns_tracker_cleanup
<1>7. CASE dns_tracker_init
    <2>1. /\ mem' = [e \in {} |-> 0] /\ dns_table' = HASH_MAKE_TABLE
          /\ now' = now /\ direct' = direct /\ now \in Nat /\ direct \in BOOLEAN
        BY <1>7, Zenon DEF dns_tracker_init, Inv
    <2>2. /\ Typed(mem', now') /\ Named(mem') /\ Hashed(DOMAIN mem', Keys(mem'))
          /\ IsInjective(Exchanges(mem'))
          /\ Intact(dns_table', DOMAIN mem', Keys(mem')) /\ Short(dns_table')
        BY <2>1, EmptyKeeps, Zenon
    <2>3. Inv'
        BY <2>1, <2>2, Zenon DEF Inv, OneEntryPerExchange
    <2>4. QED
        BY <1>7, <2>3, Zenon
<1>8. CASE Tick \/ UNCHANGED vars
    BY <1>8, TickKeeps, Zenon DEF Tick, vars
<1>9. QED
    BY <1>1, <1>3, <1>4, <1>5, <1>6, <1>7, <1>8, Zenon DEF Next

(* The invariant holds.                                                    *)
THEOREM Invariance == Spec => []Inv
<1>1. Init => Inv
    <2>1. SUFFICES ASSUME Init PROVE Inv
        BY Zenon
    <2>2. mem = [e \in {} |-> 0] /\ dns_table = HASH_MAKE_TABLE /\ now = 0 /\ direct \in BOOLEAN
        BY <2>1, Zenon DEF Init
    <2>3. now \in Nat
        BY <2>2
    <2>4. /\ Typed(mem, now) /\ Named(mem) /\ Hashed(DOMAIN mem, Keys(mem))
          /\ IsInjective(Exchanges(mem))
          /\ Intact(dns_table, DOMAIN mem, Keys(mem)) /\ Short(dns_table)
        BY <2>2, EmptyKeeps, Zenon
    <2>5. QED
        BY <2>2, <2>3, <2>4, Zenon DEF Inv, OneEntryPerExchange
<1>2. Inv /\ [Next]_vars => Inv'
    BY StepKeeps, Zenon
<1>3. QED
    BY <1>1, <1>2, PTL DEF Spec

(* Type correctness; in particular the list of the table holds addresses   *)
(* that malloc() returned, and no entry was last seen in the future.       *)
THEOREM TypeCorrect == Spec => []TypeOK
<1>1. Inv => TypeOK
    <2>1. SUFFICES ASSUME Inv PROVE TypeOK
        BY Zenon
    <2>2. dns_table.items \in Seq(DOMAIN mem)
        BY <2>1, Zenon DEF Inv, Intact, Lists
    <2>3. QED
        BY <2>1, <2>2, Zenon DEF Inv, Typed, TypeOK
<1>2. QED
    BY <1>1, Invariance, PTL

(* uthash.h, HASH_FSCK: whatever additions, deletions and doublings of the *)
(* buckets there were, the list, the chains and the counts of the table    *)
(* agree, and the table holds what malloc() returned and nothing else.     *)
THEOREM TableStaysIntact == Spec => []TableIntact
<1>1. Inv => TableIntact
    <2>1. SUFFICES ASSUME Inv PROVE TableIntact
        BY Zenon
    <2>2. Intact(dns_table, DOMAIN mem, Keys(mem))
        BY <2>1, Zenon DEF Inv
    <2>3. HASH_FSCK(dns_table, Keys(mem)) /\ Range(dns_table.items) = DOMAIN mem
        BY <2>2, IntactIsChecked, Zenon
    <2>4. QED
        BY <2>3, Zenon DEF TableIntact, Used
<1>2. QED
    BY <1>1, Invariance, PTL

(* HASH_FIND_STR(): a key is found when and only when an entry has it.     *)
THEOREM FindIsExact == Spec => []FindsWhatIsThere
<1>1. Inv => FindsWhatIsThere
    BY HitFacts, Zenon DEF FindsWhatIsThere, Used
<1>2. QED
    BY <1>1, Invariance, PTL

(* HASH_EXPAND_BUCKETS(): as long as expansions help, chains stay within   *)
(* the limits of their buckets.                                            *)
THEOREM ChainsAreShort == Spec => []ChainsStayShort
<1>1. Inv => ChainsStayShort
    BY Zenon DEF Inv, Short, BktShort, ChainsStayShort
<1>2. QED
    BY <1>1, Invariance, PTL

(* dns_tracker_lookup(): the answer names the ends of the packet, with the *)
(* server at the end that has port 53.                                     *)
THEOREM LookupIsRight == Spec => []LookupNamesTheServer
<1>1. ASSUME Inv, NEW p \in Packets, NEW e \in Hits(p)
      PROVE  Names(mem[e].info, Key(p))
    <2>1. e \in DOMAIN mem /\ mem[e].key \in {Key(p), ReverseKey(p)}
        BY <1>1, HitFacts, Zenon
    <2>2. Names(mem[e].info, mem[e].key)
        BY <1>1, <2>1, Zenon DEF Inv, Named
    <2>3. Exchange(Key(p)) = Exchange(ReverseKey(p))
        BY DEF Exchange, Key, ReverseKey
    <2>4. Exchange(mem[e].key) = Exchange(Key(p))
        BY <2>1, <2>3, Zenon
    <2>5. QED
        BY <2>2, <2>4, Zenon DEF Names
<1>2. ASSUME NEW p PROVE Exchange(Key(p)) = {p.src, p.dst}
    BY DEF Exchange, Key
<1>3. ASSUME Inv, NEW p \in Packets, NEW e \in Hits(p)
      PROVE  {mem[e].info.client, mem[e].info.server} = {p.src, p.dst}
             /\ mem[e].info.server.port = 53
    <2>1. Names(mem[e].info, Key(p)) /\ Exchange(Key(p)) = {p.src, p.dst}
        BY <1>1, <1>2, <1>3, Zenon
    <2>2. QED
        BY <2>1, Zenon DEF Names
<1>4. Inv => LookupNamesTheServer
    BY <1>3, Zenon DEF LookupNamesTheServer
<1>5. QED
    BY <1>4, Invariance, PTL

(* dns_tracker_update(): a query and its answers share one entry.          *)
THEOREM OneEntry == Spec => []OneEntryPerExchange
<1>1. Inv => OneEntryPerExchange
    BY Zenon DEF Inv
<1>2. QED
    BY <1>1, Invariance, PTL

(* dns_tracker_cleanup_expired(): the table forgets an exchange only when  *)
(* it was not used within the timeout, or when the table is reset.         *)
THEOREM LiveIsKept == Spec => LiveExchangeIsKept
<1> DEFINE Live(e) == now - mem[e].last_seen <= DNS_TRACKING_TIMEOUT
           Kept(e) == \/ Exchange(mem[e].key) \in Range(Exchanges(mem'))
                      \/ dns_tracker_init \/ dns_tracker_cleanup
<1>1. ASSUME Inv, NEW e \in DOMAIN mem, e \in DOMAIN mem', mem'[e].key = mem[e].key PROVE Kept(e)
    <2>1. DOMAIN Exchanges(mem') = DOMAIN mem' /\ Exchanges(mem')[e] = Exchange(mem'[e].key)
        BY <1>1, ExchangesAre, Zenon
    <2>2. QED
        BY <1>1, <2>1, Zenon DEF Range
<1>2. ASSUME Inv, NEW e \in DOMAIN mem, dns_tracker_cleanup_expired, Live(e) PROVE Kept(e)
    <2> DEFINE S == {x \in Used : IsExpired(mem[x])}
    <2>1. DOMAIN mem' = DOMAIN mem \ S /\ \A x \in DOMAIN mem' : mem'[x] = mem[x]
        BY <1>2, DeleteKeeps, Zenon DEF dns_tracker_cleanup_expired
    <2>2. mem[e].last_seen \in Nat /\ now \in Nat /\ DNS_TRACKING_TIMEOUT \in Nat
        BY <1>2, DnsTrackerAssumption, SMT DEF Inv, Typed, Entries
    <2>3. ~IsExpired(mem[e])
        BY <1>2, <2>2 DEF IsExpired
    <2>4. e \in DOMAIN mem' /\ mem'[e] = mem[e]
        BY <2>1, <2>3, Zenon
    <2>5. QED
        BY <1>1, <1>2, <2>4, Zenon
<1>3. ASSUME Inv, [Next]_vars, NEW e \in Used, Live(e) PROVE Kept(e)
    <2>1. e \in DOMAIN mem
        BY Zenon DEF Used
    <2>2. CASE SameKeys(mem', mem)
        BY <1>1, <1>3, <2>1, <2>2, Zenon DEF SameKeys
    <2>3. CASE dns_tracker_cleanup_expired
        BY <1>2, <1>3, <2>1, <2>3, Zenon
    <2>4. QED
        BY <1>3, <2>2, <2>3, StepKeeps, Zenon
<1>4. Inv /\ [Next]_vars
        => [\A e \in Used :
               now - mem[e].last_seen <= DNS_TRACKING_TIMEOUT =>
                   \/ Exchange(mem[e].key) \in Range(Exchanges(mem'))
                   \/ dns_tracker_init \/ dns_tracker_cleanup]_vars
    BY <1>3, Zenon
<1>5. QED
    BY <1>4, Invariance, PTL DEF Spec, LiveExchangeIsKept

Positions(s, F) == {i \in DOMAIN s : s[i] \in F}
SameCount(s, F, r) == Cardinality(Positions(s, F)) = Len(r)

(* As many positions of one list hold elements of F as a list of F has.    *)
LEMMA CountedOnce ==
    ASSUME NEW E, NEW s, Lists(s, E), NEW F, F \subseteq E, NEW r, Lists(r, F)
    PROVE  SameCount(s, F, r)
<1> DEFINE A == {i \in DOMAIN s : s[i] \in F}
           n == Len(r)
           At(j) == CHOOSE i \in DOMAIN s : s[i] = r[j]
           g == [j \in 1..n |-> At(j)]
<1>1. n \in Nat /\ DOMAIN r = 1..n /\ \A j \in 1..n : r[j] \in F
    BY DEF Lists
<1>2. ASSUME NEW j \in 1..n PROVE At(j) \in DOMAIN s /\ s[At(j)] = r[j]
    <2>1. r[j] \in E
        BY <1>1, Zenon
    <2>2. \E i \in DOMAIN s : s[i] = r[j]
        BY <2>1, Zenon DEF Lists, Range
    <2>3. QED
        BY <2>2, Zenon
<1> HIDE DEF At
<1>3. DOMAIN g = 1..n /\ \A j \in 1..n : g[j] \in DOMAIN s /\ s[g[j]] = r[j]
    BY <1>2, Zenon
<1>4. \A j \in 1..n : At(j) \in A
    BY <1>1, <1>2, Zenon
<1>5. g \in [1..n -> A]
    BY <1>4, Zenon
<1> HIDE DEF g
<1>6. IsInjective(g)
    <2>1. ASSUME NEW a \in 1..n, NEW b \in 1..n, g[a] = g[b] PROVE a = b
        <3>1. r[a] = r[b]
            BY <1>3, <2>1, Zenon
        <3>2. QED
            BY <1>1, <3>1, Zenon DEF Lists, IsInjective
    <2>2. QED
        BY <1>3, <2>1, Zenon DEF IsInjective
<1>7. ASSUME NEW i \in A PROVE \E j \in 1..n : g[j] = i
    <2>1. PICK j \in 1..n : r[j] = s[i]
        BY <1>1, Zenon DEF Lists, Range
    <2>2. QED
        BY <1>3, <2>1, Zenon DEF IsInjective, Lists
<1> HIDE DEF A
<1>8. g \in Bijection(1..n, A)
    BY <1>5, <1>6, <1>7, Zenon DEF Bijection, Injection, Surjection
<1>9. ExistsBijection(1..n, A)
    BY <1>8, Zenon DEF ExistsBijection
<1>10. Cardinality(A) = n
    BY <1>1, <1>9, FS_CountingElements, Zenon
<1>11. QED
    BY <1>10, Zenon DEF A, Positions, SameCount

(* dns_tracker_cleanup_expired() leaves as many entries as                 *)
(* dns_tracker_get_stats() called active before it.                        *)
THEOREM SweepIsExact == Spec => SweepLeavesTheActive
<1>1. ASSUME Inv, dns_tracker_cleanup_expired
      PROVE  dns_tracker_get_stats'.total = dns_tracker_get_stats.active
    <2> DEFINE S == {x \in Used : IsExpired(mem[x])}
               items == dns_table.items
               F == DOMAIN mem \ S
               A == {i \in DOMAIN items : now - mem[items[i]].last_seen <= DNS_TRACKING_TIMEOUT}
    <2>1. Inv' /\ DOMAIN mem' = F
        BY <1>1, DeleteKeeps, Zenon DEF dns_tracker_cleanup_expired
    <2>2. Lists(items, DOMAIN mem)
        BY <1>1, Zenon DEF Inv, Intact
    <2>3. Lists(dns_table'.items, F) /\ dns_table'.num_items = Len(dns_table'.items)
        BY <2>1, Zenon DEF Inv, Intact
    <2>4. ASSUME NEW x \in DOMAIN mem
          PROVE  now - mem[x].last_seen <= DNS_TRACKING_TIMEOUT <=> x \in F
        <3>1. mem[x].last_seen \in Nat /\ now \in Nat /\ DNS_TRACKING_TIMEOUT \in Nat
            BY <1>1, DnsTrackerAssumption, SMT DEF Inv, Typed, Entries
        <3>2. now - mem[x].last_seen <= DNS_TRACKING_TIMEOUT <=> ~IsExpired(mem[x])
            BY <3>1 DEF IsExpired
        <3>3. QED
            BY <3>2, Zenon DEF Used
    <2> HIDE DEF F
    <2>5. \A i \in DOMAIN items : items[i] \in DOMAIN mem
        BY <2>2, Zenon DEF Lists, Range
    <2>6. A = Positions(items, F)
        BY <2>4, <2>5, Zenon DEF Positions
    <2>7. F \subseteq DOMAIN mem
        BY Zenon DEF F
    <2>8. Cardinality(A) = Len(dns_table'.items)
        <3>1. SameCount(items, F, dns_table'.items)
            BY <2>2, <2>3, <2>7, CountedOnce, Zenon
        <3>2. QED
            BY <2>6, <3>1, Zenon DEF SameCount
    <2>9. dns_tracker_get_stats.active = Cardinality(A)
        BY Zenon DEF dns_tracker_get_stats
    <2>10. dns_tracker_get_stats'.total = dns_table'.num_items
        BY Zenon DEF dns_tracker_get_stats, HASH_COUNT
    <2>11. QED
        BY <2>3, <2>8, <2>9, <2>10, Zenon
<1>2. Inv /\ [Next]_vars
        => [dns_tracker_cleanup_expired =>
               dns_tracker_get_stats'.total = dns_tracker_get_stats.active]_vars
    BY <1>1, Zenon
<1>3. QED
    BY <1>2, Invariance, PTL DEF Spec, SweepLeavesTheActive
=============================================================================
