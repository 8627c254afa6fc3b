--------------------------- MODULE PacketPathProofs --------------------------
(* Proofs about PacketPath, for any traffic, any set of configurations and *)
(* any capacity of queue and socket.                                       *)
EXTENDS PacketPath, FiniteSetTheorems, TLAPS

(* Parsing yields a packet_t, whatever could be allocated.                 *)
LEMMA ParseType ==
    ASSUME NEW k \in Kinds, NEW A \in SUBSET Buffers
    PROVE  packet_parse(k, A) \in Packets
<1> USE DEF Kinds, Packets, Types
<1>1. NoHost \in Hosts /\ k.host \in Hosts
    BY Zenon DEF Hosts
<1>2. packet_init \in Packets
    BY <1>1, Zenon DEF packet_init
<1>3. packet_parse_ipv6(A) \in Packets
    BY <1>2, Zenon DEF packet_parse_ipv6, Buffers
<1>4. packet_parse_ipv4(k, A) \in Packets
    BY <1>1, Zenon DEF packet_parse_ipv4, HasPayload
<1>5. QED
    BY <1>3, <1>4 DEF packet_parse

(* The number of blanks after "Host:" never goes below zero: a blank is    *)
(* removed only where there is one, and the techniques keep a packet_t.    *)
LEMMA ProcessType ==
    ASSUME NEW c \in Configs, NEW p \in Packets
    PROVE  Processed(c, p) \in Packets
<1>1. EditPayload(c, p) \in Packets
    <2> DEFINE mix == c.host_mixedcase /\ MixedCaseApplies(p)
               remove == c.host_removespace /\ RemoveSpaceApplies(p)
               add == c.additional_space /\ AdditionalSpaceApplies(p)
               n == p.host.spaces - (IF remove THEN 1 ELSE 0)
                                  + (IF add THEN 1 ELSE 0)
               h == [p.host EXCEPT !.spaces = n]
    <2>1. p.host \in Hosts
        BY Zenon DEF Packets
    <2>2. CASE p.host = NoHost
        <3>1. ~mix /\ ~remove /\ ~add /\ p.host.spaces = 0
            BY <2>2 DEF NoHost, MixedCaseApplies, RemoveSpaceApplies,
                        AdditionalSpaceApplies
        <3>2. n = 0
            BY <3>1
        <3>3. h = NoHost
            BY <3>2, <2>2 DEF NoHost
        <3>4. mix \in BOOLEAN
            BY <3>1, Zenon
        <3>5. QED
            BY <3>3, <3>4, Zenon DEF EditPayload, Packets, Hosts
    <2>3. CASE p.host \in [spaces : Nat, value : BOOLEAN, found : {TRUE}]
        <3>1. p.host.spaces \in Nat /\ (remove => p.host.spaces > 0)
            BY <2>3, Zenon DEF RemoveSpaceApplies
        <3>2. n \in Nat
            BY <3>1
        <3>3. h \in Hosts
            BY <2>3, <3>2, Zenon DEF Hosts
        <3>4. mix \in BOOLEAN
            BY <2>3, Zenon DEF Configs, MixedCaseApplies
        <3>5. QED
            BY <3>3, <3>4, Zenon DEF EditPayload, Packets
    <2>4. QED
        BY <2>1, <2>2, <2>3, Zenon DEF Hosts
<1>2. QED
    BY <1>1, Zenon DEF Processed

(* Every step of the model keeps every variable in its type.               *)
LEMMA TypeInductive == TypeOK /\ [Next]_vars => TypeOK'
<1> USE PacketPathAssumption DEF TypeOK, Ids, Outcomes, Stranding, kernel
<1> SUFFICES ASSUME TypeOK, [Next]_vars PROVE TypeOK'
    BY Zenon
<1>0. packet_init \in Packets
    BY Zenon DEF packet_init, Packets, Types, Hosts
<1>1. CASE UNCHANGED vars
    BY <1>1, Zenon DEF vars
<1>2. CASE Arrive
    <2>1. /\ arrived + 1 \in 1..MaxPackets /\ arrived' \in 0..MaxPackets
          /\ kind' \in [Ids -> Traffic]
        BY <1>2 DEF Arrive
    <2>2. fate' \in [Ids -> {"absent", "queued", "accepted", "dropped"}]
        BY <1>2, <2>1, Zenon DEF Arrive
    <2>3. sock' \in Seq(Ids) /\ overrun' \in BOOLEAN
        <3>1. \/ sock' = Append(sock, arrived + 1) /\ UNCHANGED overrun
              \/ UNCHANGED sock /\ (overrun' = TRUE \/ UNCHANGED overrun)
            BY <1>2, Zenon DEF Arrive
        <3>2. sock' \in Seq(Ids)
            <4>1. CASE sock' = Append(sock, arrived + 1)
                BY <2>1, <4>1
            <4>2. CASE UNCHANGED sock
                BY <4>2, Zenon
            <4>3. QED
                BY <3>1, <4>1, <4>2, Zenon
        <3>3. overrun' \in BOOLEAN
            BY <3>1, Zenon
        <3>4. QED
            BY <3>2, <3>3, Zenon
    <2>4. QED
        BY <1>2, <2>1, <2>2, <2>3, Zenon DEF Arrive
<1>3. CASE netfilter_init \/ RecvOverrun
    BY <1>3, Zenon DEF netfilter_init, RecvOverrun
<1>4. CASE netfilter_receive_packet
    <2> DEFINE id == Head(sock)
    <2>1. sock # <<>> /\ id \in Ids /\ sock' \in Seq(Ids) /\ kind[id] \in Kinds
        BY <1>4 DEF netfilter_receive_packet, packet_process_callback
    <2> HIDE DEF id
    <2>2. \A Alloc \in Allocations : packet_parse(kind[id], Alloc) \in Packets
        BY <2>1, ParseType, Zenon DEF Allocations
    <2>3. packet' \in Packets
        BY <1>4, <2>2, Zenon DEF netfilter_receive_packet, packet_process_callback, id
    <2>4. /\ cur' \in 0..MaxPackets
          /\ outcome' \in [Ids -> Outcomes]
          /\ packets_processed' \in Nat
          /\ pc' \in {pc, "process"}
        <3>1. \/ /\ \E o \in Outcomes : outcome' = [outcome EXCEPT ![id] = o]
                 /\ UNCHANGED <<pc, cur>>
              \/ cur' = id /\ pc' = "process" /\ UNCHANGED outcome
            BY <1>4, Zenon DEF netfilter_receive_packet, packet_process_callback, id
        <3>2. packets_processed' \in {packets_processed, packets_processed + 1}
            BY <1>4, Zenon DEF netfilter_receive_packet, packet_process_callback
        <3>3. outcome' \in [Ids -> Outcomes]
            BY <2>1, <3>1, Zenon
        <3>4. cur' \in 0..MaxPackets /\ pc' \in {pc, "process"}
            BY <2>1, <3>1
        <3>5. packets_processed' \in Nat
            BY <3>2
        <3>6. QED
            BY <3>3, <3>4, <3>5, Zenon
    <2>5. QED
        BY <1>4, <2>1, <2>3, <2>4, Zenon DEF netfilter_receive_packet,
            packet_process_callback
<1>5. CASE packet_process
    <2>1. packet' \in Packets
        BY <1>5, ProcessType, Zenon DEF packet_process
    <2>2. outcome' \in [Ids -> Outcomes] /\ packets_modified' \in Nat
        <3>1. /\ \/ \E o \in {"evaded", "no_copy"} : outcome' = [outcome EXCEPT ![cur] = o]
                 \/ outcome' = outcome
              /\ packets_modified' = packets_modified + 1 \/ UNCHANGED packets_modified
            BY <1>5, Zenon DEF packet_process
        <3>2. outcome' \in [Ids -> Outcomes]
            BY <3>1, Zenon
        <3>3. packets_modified' \in Nat
            <4>1. packets_modified \in Nat
                BY Zenon
            <4>2. packets_modified + 1 \in Nat
                BY <4>1
            <4>3. QED
                BY <3>1, <4>1, <4>2, Zenon
        <3>4. QED
            BY <3>2, <3>3, Zenon
    <2>3. pc' \in {"verdict", "free"}
        BY <1>5, Zenon DEF packet_process
    <2>4. QED
        BY <1>5, <2>1, <2>2, <2>3, Zenon DEF packet_process
<1>6. CASE ProcessDies \/ netfilter_cleanup
    <2>1. fate' \in [Ids -> {"absent", "queued", "accepted", "dropped"}]
        BY <1>6, Zenon DEF ProcessDies, netfilter_cleanup, DestroyQueue
    <2>2. sock' \in Seq(Ids)
        BY <1>6, <<>> \in Seq(Ids), Zenon DEF ProcessDies, netfilter_cleanup, DestroyQueue
    <2>3. QED
        BY <1>6, <2>1, <2>2, Zenon DEF ProcessDies, netfilter_cleanup, DestroyQueue
<1>7. CASE netfilter_send_verdict
    <2>1. fate' \in [Ids -> {"absent", "queued", "accepted", "dropped"}]
        BY <1>7, Zenon DEF netfilter_send_verdict
    <2>2. outcome' \in [Ids -> Outcomes]
        BY <1>7, Zenon DEF netfilter_send_verdict
    <2>3. QED
        BY <1>7, <2>1, <2>2, Zenon DEF netfilter_send_verdict
<1>8. CASE packet_free
    BY <1>0, <1>8, Zenon DEF packet_free
<1>9. QED
    BY <1>1, <1>2, <1>3, <1>4, <1>5, <1>6, <1>7, <1>8, Zenon DEF Next, Work

(* The state of the program and of the kernel's queue always has its type. *)
THEOREM TypeCorrect == Spec => []TypeOK
<1>1. Init => TypeOK
    <2>1. (CHOOSE k \in Traffic : TRUE) \in Traffic
        BY PacketPathAssumption, Zenon
    <2>2. packet_init \in Packets
        BY Zenon DEF packet_init, Packets, Types, Hosts
    <2>3. Init => kind \in [Ids -> Traffic]
        BY <2>1, Zenon DEF Init
    <2>4. Init => /\ fate \in [Ids -> {"absent", "queued", "accepted", "dropped"}]
                  /\ outcome \in [Ids -> Outcomes]
                  /\ arrived \in 0..MaxPackets /\ cur \in 0..MaxPackets
        BY PacketPathAssumption DEF Init, Outcomes
    <2>5. Init => /\ conf \in Options /\ sock \in Seq(Ids) /\ overrun \in BOOLEAN
                  /\ pc = "start" /\ packet \in Packets
                  /\ packets_processed \in Nat /\ packets_modified \in Nat
        BY <2>2, <<>> \in Seq(Ids), 0 \in Nat, Zenon DEF Init
    <2>6. QED
        BY <2>3, <2>4, <2>5, Zenon DEF TypeOK
<1>2. QED
    BY <1>1, TypeInductive, PTL DEF Spec

-----------------------------------------------------------------------------
(* Messages are read in the order of their ids, which is that of arrival:  *)
(* what the program is done with comes before what it has in hand, and     *)
(* that before what is still in the socket.                                *)
InOrder ==
    /\ \A n, m \in 1..Len(sock) : n < m => sock[n] < sock[m]
    /\ \A n \in 1..Len(sock) : sock[n] <= arrived
    /\ \A id \in Ids : outcome[id] # "none" =>
           id <= arrived /\ \A n \in 1..Len(sock) : id < sock[n]
    /\ pc \in {"process", "verdict"} =>
           /\ cur \in Ids /\ cur <= arrived
           /\ \A n \in 1..Len(sock) : cur < sock[n]
           /\ \A id \in Ids : outcome[id] # "none" => id < cur

(* Before it arrives a packet has no fate, and no packet is accepted but   *)
(* by a verdict of the program.                                            *)
FateInv ==
    /\ \A id \in Ids : id > arrived => fate[id] = "absent"
    /\ \A id \in Ids : fate[id] = "accepted" => outcome[id] = "verdict"
    /\ pc = "start" => sock = <<>> /\ \A id \in Ids : outcome[id] = "none"
                      /\ fate[id] # "queued"

Inv == TypeOK /\ InOrder /\ FateInv /\ QueueAccounting

(* Reading a message takes the first id away from those still to read.     *)
LEMMA ReadOne ==
    ASSUME TypeOK, sock # <<>>, sock' = Tail(sock)
    PROVE  /\ Head(sock) = sock[1] /\ 1 \in 1..Len(sock) /\ Head(sock) \in Ids
           /\ Len(sock') = Len(sock) - 1
           /\ \A n \in 1..Len(sock') : sock'[n] = sock[n + 1] /\ n + 1 \in 1..Len(sock)
           /\ Unread = Unread' \cup {Head(sock)}
<1>1. /\ Head(sock) = sock[1] /\ 1 \in 1..Len(sock) /\ Head(sock) \in Ids
      /\ Len(sock') = Len(sock) - 1 /\ Len(sock) \in Nat
      /\ \A n \in 1..Len(sock') : sock'[n] = sock[n + 1] /\ n + 1 \in 1..Len(sock)
    BY DEF TypeOK
<1>2. ASSUME NEW x \in Unread PROVE x \in Unread' \cup {Head(sock)}
    <2>1. PICK n \in 1..Len(sock) : x = sock[n]
        BY <1>2, Zenon DEF Unread
    <2>2. CASE n = 1
        BY <1>1, <2>1, <2>2, Zenon
    <2>3. CASE n # 1
        <3>1. n - 1 \in 1..Len(sock') /\ (n - 1) + 1 = n
            BY <1>1, <2>1, <2>3
        <3>2. sock'[n - 1] = x
            BY <1>1, <2>1, <3>1, Zenon
        <3>3. QED
            BY <3>1, <3>2, Zenon DEF Unread
    <2>4. QED
        BY <2>2, <2>3, Zenon
<1>3. ASSUME NEW x \in Unread' \cup {Head(sock)} PROVE x \in Unread
    <2>1. CASE x = Head(sock)
        BY <1>1, <2>1, Zenon DEF Unread
    <2>2. CASE x \in Unread'
        <3>1. PICK n \in 1..Len(sock') : x = sock'[n]
            BY <2>2, Zenon DEF Unread
        <3>2. QED
            BY <1>1, <3>1, Zenon DEF Unread
    <2>3. QED
        BY <1>3, <2>1, <2>2, Zenon
<1>4. QED
    BY <1>1, <1>2, <1>3, Zenon

(* A new message is the last one to read.                                  *)
LEMMA WriteOne ==
    ASSUME TypeOK, NEW x \in Ids, sock' = Append(sock, x)
    PROVE  /\ Len(sock') = Len(sock) + 1 /\ Len(sock) \in Nat
           /\ sock'[Len(sock) + 1] = x
           /\ \A n \in 1..Len(sock) : sock'[n] = sock[n]
           /\ Unread' = Unread \cup {x}
<1>1. /\ Len(sock') = Len(sock) + 1 /\ Len(sock) \in Nat
      /\ sock'[Len(sock) + 1] = x
      /\ \A n \in 1..Len(sock) : sock'[n] = sock[n]
    BY DEF TypeOK
<1>2. 1..Len(sock') = 1..Len(sock) \cup {Len(sock) + 1}
    BY <1>1
<1>3. Unread' = Unread \cup {x}
    <2>1. ASSUME NEW y \in Unread' PROVE y \in Unread \cup {x}
        <3>1. PICK n \in 1..Len(sock') : y = sock'[n]
            BY <2>1, Zenon DEF Unread
        <3>2. QED
            BY <1>1, <1>2, <3>1, Zenon DEF Unread
    <2>2. ASSUME NEW y \in Unread PROVE y \in Unread'
        <3>1. PICK n \in 1..Len(sock) : y = sock[n]
            BY <2>2, Zenon DEF Unread
        <3>2. n \in 1..Len(sock') /\ y = sock'[n]
            BY <1>1, <1>2, <3>1, Zenon
        <3>3. QED
            BY <3>2, Zenon DEF Unread
    <2>3. x \in Unread'
        <3>1. Len(sock) + 1 \in 1..Len(sock')
            BY <1>1
        <3>2. QED
            BY <1>1, <3>1, Zenon DEF Unread
    <2>4. QED
        BY <2>1, <2>2, <2>3, Zenon
<1>4. QED
    BY <1>1, <1>3, Zenon

(* Every step keeps the order of ids.                                      *)
LEMMA InOrderInductive == TypeOK /\ InOrder /\ [Next]_vars => InOrder'
<1> USE PacketPathAssumption DEF kernel
<1> SUFFICES ASSUME TypeOK, InOrder, [Next]_vars PROVE InOrder'
    BY Zenon
<1>0. TypeOK'
    BY TypeInductive, Zenon
<1>1. CASE UNCHANGED vars
    BY <1>1, Zenon DEF vars, InOrder
<1>2. CASE Arrive
    <2>1. arrived + 1 \in Ids /\ arrived \in Nat /\ arrived' = arrived + 1
        BY <1>2 DEF Arrive, TypeOK, Ids
    <2>2. UNCHANGED <<pc, cur, outcome>>
        BY <1>2, Zenon DEF Arrive
    <2>3. CASE UNCHANGED sock
        BY <2>1, <2>2, <2>3 DEF InOrder, TypeOK, Ids
    <2>4. CASE sock' = Append(sock, arrived + 1)
        <3>1. /\ Len(sock') = Len(sock) + 1 /\ Len(sock) \in Nat
              /\ sock'[Len(sock) + 1] = arrived + 1
              /\ \A n \in 1..Len(sock) : sock'[n] = sock[n]
            BY <2>1, <2>4, WriteOne, Zenon
        <3>2. \A n \in 1..Len(sock) : sock[n] \in Nat /\ sock[n] <= arrived
            BY DEF InOrder, TypeOK, Ids
        <3>3. ASSUME NEW n \in 1..Len(sock'), NEW m \in 1..Len(sock'), n < m
              PROVE  sock'[n] < sock'[m]
            <4>1. n \in 1..Len(sock)
                BY <3>1, <3>3
            <4>2. CASE m \in 1..Len(sock)
                BY <3>1, <3>3, <4>1, <4>2, Zenon DEF InOrder
            <4>3. CASE m = Len(sock) + 1
                BY <2>1, <3>1, <3>2, <4>1, <4>3
            <4>4. QED
                BY <3>1, <3>3, <4>2, <4>3
        <3>4. \A n \in 1..Len(sock') : sock'[n] <= arrived'
            BY <2>1, <3>1, <3>2
        <3>5. ASSUME NEW y \in Ids, y <= arrived,
                     \A n \in 1..Len(sock) : y < sock[n]
              PROVE  y <= arrived' /\ \A n \in 1..Len(sock') : y < sock'[n]
            BY <2>1, <3>1, <3>5 DEF Ids
        <3>6. QED
            BY <2>2, <3>3, <3>4, <3>5, Zenon DEF InOrder
    <2>5. QED
        BY <1>2, <2>3, <2>4, Zenon DEF Arrive
<1>3. CASE netfilter_init \/ RecvOverrun
    BY <1>3, Zenon DEF netfilter_init, RecvOverrun, InOrder
<1>4. CASE netfilter_receive_packet
    <2> DEFINE h == Head(sock)
    <2>1. /\ h = sock[1] /\ 1 \in 1..Len(sock) /\ h \in Ids
          /\ Len(sock') = Len(sock) - 1 /\ Len(sock) \in Nat
          /\ \A n \in 1..Len(sock') : sock'[n] = sock[n + 1] /\ n + 1 \in 1..Len(sock)
        BY <1>4, ReadOne DEF netfilter_receive_packet,
            packet_process_callback, TypeOK
    <2>2. \/ /\ \E o \in Stranding : outcome' = [outcome EXCEPT ![h] = o]
             /\ pc' = "recv"
          \/ cur' = h /\ pc' = "process" /\ UNCHANGED outcome
        BY <1>4, Zenon DEF netfilter_receive_packet,
            packet_process_callback, Stranding
    <2>3. arrived' = arrived
        BY <1>4, Zenon DEF netfilter_receive_packet, packet_process_callback
    <2>4. /\ \A n, m \in 1..Len(sock') : n < m => sock'[n] < sock'[m]
          /\ \A n \in 1..Len(sock') : sock'[n] <= arrived'
          /\ \A n \in 1..Len(sock') : h < sock'[n]
          /\ h <= arrived
        <3> HIDE DEF h
        <3>1. ASSUME NEW n \in 1..Len(sock'), NEW m \in 1..Len(sock'), n < m
              PROVE  sock'[n] < sock'[m]
            <4>1. /\ sock'[n] = sock[n + 1] /\ n + 1 \in 1..Len(sock)
                  /\ sock'[m] = sock[m + 1] /\ m + 1 \in 1..Len(sock)
                BY <2>1, Zenon
            <4>2. n + 1 < m + 1
                BY <2>1, <3>1
            <4>3. QED
                BY <4>1, <4>2, Zenon DEF InOrder
        <3>2. ASSUME NEW n \in 1..Len(sock')
              PROVE  sock'[n] <= arrived' /\ h < sock'[n]
            <4>1. sock'[n] = sock[n + 1] /\ n + 1 \in 1..Len(sock)
                BY <2>1, Zenon
            <4>2. 1 < n + 1
                BY <2>1
            <4>3. sock'[n] <= arrived'
                BY <2>3, <4>1, Zenon DEF InOrder
            <4>4. h < sock'[n]
                BY <2>1, <4>1, <4>2, Zenon DEF InOrder
            <4>5. QED
                BY <4>3, <4>4, Zenon
        <3>3. h <= arrived
            BY <2>1, Zenon DEF InOrder
        <3>4. QED
            BY <3>1, <3>2, <3>3, Zenon
    <2>5. \A y \in Ids : outcome[y] # "none" =>
              y < h /\ y <= arrived /\ \A n \in 1..Len(sock') : y < sock'[n]
        BY <2>1, Zenon DEF InOrder
    <2> HIDE DEF h
    <2>6. \A y \in Ids : outcome'[y] # "none" => y = h \/ outcome[y] # "none"
        BY <2>2, Zenon DEF TypeOK
    <2>7. \A y \in Ids : outcome'[y] # "none" =>
              y <= arrived' /\ \A n \in 1..Len(sock') : y < sock'[n]
        BY <2>3, <2>4, <2>5, <2>6, Zenon
    <2>8. pc' \in {"process", "verdict"} => cur' = h /\ UNCHANGED outcome
        BY <2>2, Zenon
    <2>9. pc' \in {"process", "verdict"} =>
              /\ cur' \in Ids /\ cur' <= arrived'
              /\ \A n \in 1..Len(sock') : cur' < sock'[n]
              /\ \A y \in Ids : outcome'[y] # "none" => y < cur'
        BY <2>1, <2>3, <2>4, <2>5, <2>8, Zenon
    <2>10. QED
        BY <2>4, <2>7, <2>9, Zenon DEF InOrder, Ids
<1>5. CASE packet_process \/ netfilter_send_verdict
    <2>1. /\ UNCHANGED <<sock, arrived, cur>> /\ pc \in {"process", "verdict"}
          /\ \/ pc' = "verdict" /\ UNCHANGED outcome
             \/ pc' = "free" /\ \E o \in Outcomes : outcome' = [outcome EXCEPT ![cur] = o]
        BY <1>5, Zenon DEF packet_process, netfilter_send_verdict, Outcomes, Stranding
    <2>2. \A y \in Ids : outcome'[y] # "none" => y = cur \/ outcome[y] # "none"
        BY <2>1, Zenon DEF TypeOK
    <2>3. QED
        BY <2>1, <2>2, Zenon DEF InOrder, Ids
<1>6. CASE ProcessDies \/ netfilter_cleanup
    <2>1. sock' = <<>> /\ pc' \in {"dead", "closed"} /\ UNCHANGED <<outcome, arrived>>
        BY <1>6, Zenon DEF ProcessDies, netfilter_cleanup, DestroyQueue
    <2>2. 1..Len(sock') = {}
        BY <2>1
    <2>3. QED
        BY <2>1, <2>2, Zenon DEF InOrder, Ids
<1>7. CASE packet_free
    BY <1>7, Zenon DEF packet_free, InOrder
<1>8. QED
    BY <1>1, <1>2, <1>3, <1>4, <1>5, <1>6, <1>7, Zenon DEF Next, Work

(* Every step keeps the link between a packet's fate and what was done     *)
(* with it.                                                                *)
LEMMA FateInductive ==
    TypeOK /\ InOrder /\ FateInv /\ [Next]_vars => FateInv'
<1> USE PacketPathAssumption DEF kernel, Stranding
<1> SUFFICES ASSUME TypeOK, InOrder, FateInv, [Next]_vars PROVE FateInv'
    BY Zenon
<1>1. CASE UNCHANGED vars
    BY <1>1, Zenon DEF vars, FateInv
<1>2. CASE Arrive
    <2>1. /\ arrived \in Nat /\ arrived' = arrived + 1
          /\ \E f \in {"queued", "dropped"} :
                /\ fate' = [fate EXCEPT ![arrived + 1] = f]
                /\ pc = "start" => f = "dropped" /\ UNCHANGED sock
          /\ UNCHANGED <<pc, outcome>>
        BY <1>2 DEF Arrive, Bound, TypeOK
    <2>2. QED
        BY <2>1 DEF FateInv, TypeOK, Ids
<1>3. CASE netfilter_init \/ RecvOverrun
    BY <1>3, Zenon DEF netfilter_init, RecvOverrun, FateInv
<1>4. CASE netfilter_receive_packet
    <2>1. /\ pc' # "start" /\ UNCHANGED <<fate, arrived>>
          /\ \/ UNCHANGED outcome
             \/ \E o \in Stranding : outcome' = [outcome EXCEPT ![Head(sock)] = o]
        BY <1>4, Zenon DEF netfilter_receive_packet, packet_process_callback
    <2>2. Head(sock) = sock[1] /\ 1 \in 1..Len(sock) /\ Head(sock) \in Ids
        BY <1>4, ReadOne, Zenon DEF netfilter_receive_packet, packet_process_callback
    <2>3. outcome[Head(sock)] = "none"
        BY <2>2 DEF InOrder, Ids
    <2>4. fate[Head(sock)] # "accepted"
        BY <2>2, <2>3, Zenon DEF FateInv
    <2> DEFINE h == Head(sock)
    <2>5. h \in Ids /\ fate[h] # "accepted"
        BY <2>2, <2>4, Zenon
    <2>6. \/ UNCHANGED outcome
          \/ \E o \in Stranding : outcome' = [outcome EXCEPT ![h] = o]
        BY <2>1, Zenon
    <2> HIDE DEF h
    <2>7. \A y \in Ids : fate[y] = "accepted" => outcome'[y] = outcome[y]
        BY <2>5, <2>6, Zenon DEF TypeOK
    <2>8. QED
        BY <2>1, <2>7, Zenon DEF FateInv
<1>5. CASE packet_process
    <2>1. /\ pc = "process" /\ pc' # "start" /\ UNCHANGED <<fate, arrived>>
          /\ \/ UNCHANGED outcome
             \/ \E o \in Outcomes : outcome' = [outcome EXCEPT ![cur] = o]
        BY <1>5, Zenon DEF packet_process, Outcomes
    <2>2. cur \in Ids /\ outcome[cur] = "none"
        BY <2>1 DEF InOrder, Ids
    <2>3. \A y \in Ids : fate[y] = "accepted" => outcome'[y] = outcome[y]
        BY <2>1, <2>2, Zenon DEF TypeOK, FateInv
    <2>4. QED
        BY <2>1, <2>3, Zenon DEF FateInv
<1>6. CASE netfilter_send_verdict
    <2>1. /\ pc = "verdict" /\ pc' # "start" /\ UNCHANGED arrived
          /\ \/ /\ fate' = [fate EXCEPT ![cur] = IF @ = "queued" THEN "accepted" ELSE @]
                /\ outcome' = [outcome EXCEPT ![cur] = "verdict"]
             \/ UNCHANGED fate /\ outcome' = [outcome EXCEPT ![cur] = "unsent"]
        BY <1>6, Zenon DEF netfilter_send_verdict
    <2>2. cur \in Ids /\ cur <= arrived /\ outcome[cur] = "none"
        BY <2>1 DEF InOrder, Ids
    <2>3. fate[cur] # "accepted"
        BY <2>2, Zenon DEF FateInv
    <2>4. \A y \in Ids : y > arrived => y # cur
        BY <2>2 DEF TypeOK, Ids
    <2>5. \A y \in Ids : y > arrived => fate'[y] = fate[y]
        BY <2>1, <2>4, Zenon DEF TypeOK
    <2>6. \A y \in Ids : fate'[y] = "accepted" => outcome'[y] = "verdict"
        BY <2>1, <2>2, <2>3, Zenon DEF TypeOK, FateInv
    <2>7. QED
        BY <2>1, <2>5, <2>6, Zenon DEF FateInv
<1>7. CASE ProcessDies \/ netfilter_cleanup
    <2>1. /\ pc' # "start" /\ UNCHANGED <<arrived, outcome>>
          /\ fate' = [id \in Ids |-> IF fate[id] = "queued" THEN "dropped" ELSE fate[id]]
        BY <1>7, Zenon DEF ProcessDies, netfilter_cleanup, DestroyQueue
    <2>2. QED
        BY <2>1, Zenon DEF FateInv
<1>8. CASE packet_free
    BY <1>8, Zenon DEF packet_free, FateInv
<1>9. QED
    BY <1>1, <1>2, <1>3, <1>4, <1>5, <1>6, <1>7, <1>8, Zenon DEF Next, Work

(* Every step keeps the account of the packets the kernel holds.           *)
LEMMA AccountingInductive == Inv /\ [Next]_vars => QueueAccounting'
<1> USE PacketPathAssumption DEF kernel
<1> SUFFICES ASSUME Inv, [Next]_vars, Bound' PROVE (Queued = Unread \cup InHand \cup Stranded)'
    BY Zenon DEF QueueAccounting
<1> USE DEF Inv
<1>0. QueueAccounting /\ (Bound => Queued = Unread \cup InHand \cup Stranded)
    BY Zenon DEF QueueAccounting
<1>1. CASE UNCHANGED vars
    BY <1>0, <1>1 DEF vars, Bound, Queued, Unread, InHand, Stranded
<1>2. CASE Arrive
    <2>1. /\ Bound /\ UNCHANGED <<pc, cur, outcome>>
          /\ arrived + 1 \in Ids /\ fate[arrived + 1] = "absent"
        BY <1>2 DEF Arrive, Bound, TypeOK, Ids, FateInv
    <2>2. InHand' = InHand /\ Stranded' = Stranded
        BY <2>1, Zenon DEF InHand, Stranded
    <2>3. CASE /\ fate' = [fate EXCEPT ![arrived + 1] = "queued"]
               /\ sock' = Append(sock, arrived + 1)
        <3>1. Unread' = Unread \cup {arrived + 1}
            BY <2>1, <2>3, WriteOne, Zenon
        <3>2. Queued' = Queued \cup {arrived + 1}
            BY <2>1, <2>3, Zenon DEF Queued, TypeOK
        <3>3. QED
            BY <1>0, <2>1, <2>2, <3>1, <3>2, Zenon
    <2>4. CASE fate' = [fate EXCEPT ![arrived + 1] = "dropped"] /\ UNCHANGED sock
        <3>1. Unread' = Unread
            BY <2>4, Zenon DEF Unread
        <3>2. Queued' = Queued
            BY <2>1, <2>4, Zenon DEF Queued, TypeOK
        <3>3. QED
            BY <1>0, <2>1, <2>2, <3>1, <3>2, Zenon
    <2>5. QED
        BY <1>2, <2>3, <2>4, Zenon DEF Arrive
<1>3. CASE netfilter_init
    <2>1. /\ sock' = <<>> /\ pc' = "recv"
          /\ \A id \in Ids : fate'[id] # "queued" /\ outcome'[id] = "none"
        BY <1>3, Zenon DEF netfilter_init, FateInv
    <2>2. Queued' = {} /\ InHand' = {} /\ Stranded' = {}
        BY <2>1, Zenon DEF Queued, InHand, Stranded, Stranding
    <2>3. 1..Len(sock') = {}
        BY <2>1
    <2>4. Unread' = {}
        BY <2>3, Zenon DEF Unread
    <2>5. QED
        BY <2>2, <2>4, Zenon
<1>4. CASE RecvOverrun \/ packet_free
    <2>1. Bound /\ UNCHANGED <<fate, sock, outcome>> /\ pc' = "recv"
          /\ pc \in {"recv", "free"}
        BY <1>4, Zenon DEF RecvOverrun, packet_free, Bound
    <2>2. InHand' = {} /\ InHand = {}
        BY <2>1, Zenon DEF InHand
    <2>3. Queued' = Queued /\ Unread' = Unread /\ Stranded' = Stranded
        BY <2>1, Zenon DEF Queued, Unread, Stranded
    <2>4. QED
        BY <1>0, <2>1, <2>2, <2>3, Zenon
<1>5. CASE netfilter_receive_packet
    <2> DEFINE h == Head(sock)
    <2>1. /\ pc = "recv" /\ UNCHANGED fate
          /\ \/ /\ \E o \in Stranding : outcome' = [outcome EXCEPT ![h] = o]
                /\ pc' = "recv"
             \/ cur' = h /\ pc' = "process" /\ UNCHANGED outcome
        BY <1>5, Zenon DEF netfilter_receive_packet,
            packet_process_callback, Stranding
    <2>2. Unread = Unread' \cup {h} /\ h \in Ids
        BY <1>5, ReadOne, Zenon DEF netfilter_receive_packet, packet_process_callback
    <2> HIDE DEF h
    <2>3. Queued' = Queued /\ Bound /\ InHand = {}
        BY <2>1, Zenon DEF Queued, Bound, InHand
    <2>4. InHand' \cup Stranded' = Stranded \cup {h}
        <3>1. CASE /\ \E o \in Stranding : outcome' = [outcome EXCEPT ![h] = o]
                   /\ pc' = "recv"
            <4>1. InHand' = {}
                BY <3>1, Zenon DEF InHand
            <4>2. Stranded' = Stranded \cup {h}
                BY <2>2, <3>1, Zenon DEF Stranded, TypeOK
            <4>3. QED
                BY <4>1, <4>2, Zenon
        <3>2. CASE cur' = h /\ pc' = "process" /\ UNCHANGED outcome
            BY <3>2, Zenon DEF InHand, Stranded
        <3>3. QED
            BY <2>1, <3>1, <3>2, Zenon
    <2>5. QED
        BY <1>0, <2>2, <2>3, <2>4, Zenon
<1>6. CASE packet_process
    <2>1. /\ pc = "process" /\ UNCHANGED <<fate, sock, cur>>
          /\ \/ pc' = "verdict" /\ UNCHANGED outcome
             \/ pc' = "free" /\ \E o \in Stranding : outcome' = [outcome EXCEPT ![cur] = o]
        BY <1>6, Zenon DEF packet_process, Stranding
    <2>2. cur \in Ids
        BY <2>1, Zenon DEF InOrder
    <2>3. Queued' = Queued /\ Unread' = Unread /\ Bound /\ InHand = {cur}
        BY <2>1, Zenon DEF Queued, Unread, Bound, InHand
    <2>4. InHand' \cup Stranded' = Stranded \cup {cur}
        <3>1. CASE pc' = "verdict" /\ UNCHANGED outcome
            BY <2>1, <3>1, Zenon DEF InHand, Stranded
        <3>2. CASE pc' = "free" /\ \E o \in Stranding : outcome' = [outcome EXCEPT ![cur] = o]
            <4>1. InHand' = {}
                BY <3>2, Zenon DEF InHand
            <4>2. Stranded' = Stranded \cup {cur}
                BY <2>2, <3>2, Zenon DEF Stranded, TypeOK
            <4>3. QED
                BY <4>1, <4>2, Zenon
        <3>3. QED
            BY <2>1, <3>1, <3>2, Zenon
    <2>5. QED
        BY <1>0, <2>3, <2>4, Zenon
<1>7. CASE netfilter_send_verdict
    <2>1. /\ pc = "verdict" /\ pc' = "free" /\ UNCHANGED sock
          /\ \/ /\ fate' = [fate EXCEPT ![cur] = IF @ = "queued" THEN "accepted" ELSE @]
                /\ outcome' = [outcome EXCEPT ![cur] = "verdict"]
             \/ UNCHANGED fate /\ outcome' = [outcome EXCEPT ![cur] = "unsent"]
        BY <1>7, Zenon DEF netfilter_send_verdict
    <2>2. /\ cur \in Ids /\ outcome[cur] = "none"
          /\ \A n \in 1..Len(sock) : cur # sock[n]
        BY <2>1 DEF InOrder, Ids, TypeOK
    <2>3. cur \notin Unread /\ cur \notin Stranded
        BY <2>2, Zenon DEF Unread, Stranded, Stranding
    <2>4. Bound /\ InHand = {cur} /\ InHand' = {} /\ Unread' = Unread
        BY <2>1, Zenon DEF Bound, InHand, Unread
    <2>5. CASE /\ fate' = [fate EXCEPT ![cur] = IF @ = "queued" THEN "accepted" ELSE @]
               /\ outcome' = [outcome EXCEPT ![cur] = "verdict"]
        <3>1. Stranded' = Stranded
            BY <2>2, <2>5, Zenon DEF Stranded, Stranding, TypeOK
        <3>2. Queued' = Queued \ {cur}
            BY <2>2, <2>5, Zenon DEF Queued, TypeOK
        <3>3. QED
            BY <1>0, <2>3, <2>4, <3>1, <3>2, Zenon
    <2>6. CASE UNCHANGED fate /\ outcome' = [outcome EXCEPT ![cur] = "unsent"]
        <3>1. Stranded' = Stranded \cup {cur}
            BY <2>2, <2>6, Zenon DEF Stranded, Stranding, TypeOK
        <3>2. Queued' = Queued
            BY <2>6, Zenon DEF Queued
        <3>3. QED
            BY <1>0, <2>4, <3>1, <3>2, Zenon
    <2>7. QED
        BY <2>1, <2>5, <2>6, Zenon
<1>8. CASE ProcessDies \/ netfilter_cleanup
    BY <1>8, Zenon DEF ProcessDies, netfilter_cleanup, Bound
<1>9. QED
    BY <1>1, <1>2, <1>3, <1>4, <1>5, <1>6, <1>7, <1>8, Zenon DEF Next, Work

(* The initial states and the steps keep the inductive invariant.          *)
LEMMA InvHolds == Spec => []Inv
<1>1. Init => InOrder /\ FateInv /\ QueueAccounting
    <2> SUFFICES ASSUME Init PROVE InOrder /\ FateInv /\ QueueAccounting
        BY Zenon
    <2>1. sock = <<>> /\ pc = "start" /\ \A id \in Ids : outcome[id] = "none"
                                                     /\ fate[id] = "absent"
        BY Zenon DEF Init
    <2>2. 1..Len(sock) = {}
        BY <2>1
    <2>3. QED
        BY <2>1, <2>2, Zenon DEF InOrder, FateInv, QueueAccounting, Bound
<1>2. Inv /\ [Next]_vars => Inv'
    BY TypeInductive, InOrderInductive, FateInductive, AccountingInductive, Zenon DEF Inv
<1>3. QED
    BY <1>1, <1>2, TypeCorrect, PTL DEF Spec, Inv

(* For any traffic and configuration, while the program is on its queue    *)
(* the kernel holds exactly the packets that are still to be read, in hand *)
(* or stranded by the program.                                             *)
THEOREM Accounting == Spec => []QueueAccounting
BY InvHolds, PTL DEF Inv

(* For any traffic and configuration, verdicts are given in the order in   *)
(* which the packets came.                                                 *)
THEOREM AcceptedInOrder == Spec => OrderKept
<1> DEFINE Kept == \A id, jd \in Ids :
           fate[id] = "queued" /\ fate'[id] = "accepted" /\ fate[jd] = "accepted"
               => jd < id
<1>1. Inv /\ [Next]_vars => [Kept]_vars
    <2> SUFFICES ASSUME Inv, Next, NEW id \in Ids, NEW jd \in Ids,
                        fate[id] = "queued", fate'[id] = "accepted",
                        fate[jd] = "accepted"
                 PROVE  jd < id
        BY Zenon DEF vars
    <2>1. netfilter_send_verdict
        <3>1. ~Arrive
            BY Zenon DEF Arrive, Inv, TypeOK, Ids
        <3>2. ~(ProcessDies \/ netfilter_cleanup)
            BY Zenon DEF ProcessDies, netfilter_cleanup, DestroyQueue
        <3>3. ~(netfilter_init \/ RecvOverrun \/ netfilter_receive_packet
                  \/ packet_process \/ packet_free)
            BY Zenon DEF netfilter_init, RecvOverrun, netfilter_receive_packet,
            packet_process_callback,
                   packet_process, packet_free, kernel
        <3>4. QED
            BY <3>1, <3>2, <3>3, Zenon DEF Next, Work
    <2>2. id = cur /\ pc = "verdict"
        BY <2>1, Zenon DEF netfilter_send_verdict, Inv, TypeOK
    <2>3. outcome[jd] = "verdict"
        BY Zenon DEF Inv, FateInv
    <2>4. QED
        BY <2>2, <2>3, Zenon DEF Inv, InOrder
<1>2. QED
    BY <1>1, InvHolds, PTL DEF Spec, OrderKept

-----------------------------------------------------------------------------
(* Taking the packet in hand off the line leaves the messages to read.     *)
LEMMA LineInHand ==
    ASSUME TypeOK, pc \in {"process", "verdict"}, cur \in Ids
    PROVE  Line # <<>> /\ Head(Line) = cur /\ Tail(Line) = sock
<1>1. Line = <<cur>> \o sock /\ sock \in Seq(Ids) /\ <<cur>> \in Seq(Ids)
    BY DEF Line, TypeOK
<1>2. Len(Line) = 1 + Len(sock) /\ Line \in Seq(Ids) /\ Line[1] = cur
    BY <1>1
<1>3. Tail(Line) = sock
    <2>1. Len(Tail(Line)) = Len(sock) /\ Tail(Line) \in Seq(Ids)
        BY <1>1, <1>2
    <2>2. \A n \in 1..Len(sock) : Tail(Line)[n] = sock[n]
        BY <1>1, <1>2
    <2>3. QED
        BY <1>1, <2>1, <2>2
<1>4. QED
    BY <1>2, <1>3

(* Every step of the program and the kernel is a step of Verdicts, or one  *)
(* that Verdicts does not see.                                             *)
LEMMA StepSimulation == Inv /\ [Next]_vars => [V!Next]_(V!abstract)
<1> USE PacketPathAssumption DEF kernel, V!abstract
<1> SUFFICES ASSUME Inv, [Next]_vars PROVE [V!Next]_(V!abstract)
    BY Zenon
<1>0. TypeOK
    BY Zenon DEF Inv
<1>1. CASE UNCHANGED vars
    BY <1>1, Zenon DEF vars, Line, Service
<1>2. CASE Arrive
    <2>1. arrived < MaxPackets /\ arrived' = arrived + 1 /\ UNCHANGED <<pc, cur>>
        BY <1>2, Zenon DEF Arrive
    <2>2. Service' = Service
        BY <2>1, Zenon DEF Service
    <2>3. CASE /\ Bound /\ fate' = [fate EXCEPT ![arrived + 1] = "queued"]
               /\ sock' = Append(sock, arrived + 1)
        <3>1. Service = "serving"
            BY <2>3, Zenon DEF Bound, Service
        <3>2. Line' = Append(Line, arrived + 1)
            <4>1. CASE pc \in {"process", "verdict"}
                <5>1. cur \in Ids /\ sock \in Seq(Ids) /\ arrived + 1 \in Ids
                    BY <1>0, <2>1, <4>1 DEF Inv, InOrder, TypeOK, Ids
                <5>2. <<cur>> \o Append(sock, arrived + 1)
                        = Append(<<cur>> \o sock, arrived + 1)
                    BY <5>1
                <5>3. QED
                    BY <2>1, <2>3, <4>1, <5>2, Zenon DEF Line
            <4>2. CASE pc \notin {"process", "verdict"}
                BY <2>1, <2>3, <4>2, Zenon DEF Line
            <4>3. QED
                BY <4>1, <4>2, Zenon
        <3>3. QED
            BY <2>1, <2>2, <2>3, <3>1, <3>2, Zenon DEF V!Next, V!Join
    <2>4. CASE fate' = [fate EXCEPT ![arrived + 1] = "dropped"] /\ UNCHANGED sock
        <3>1. Line' = Line
            BY <2>1, <2>4, Zenon DEF Line
        <3>2. QED
            BY <2>1, <2>2, <2>4, <3>1, Zenon DEF V!Next, V!TurnAway
    <2>5. QED
        BY <1>2, <2>3, <2>4, Zenon DEF Arrive
<1>3. CASE netfilter_init
    <2>1. /\ Service = "new" /\ Service' = "serving" /\ Line' = Line
          /\ UNCHANGED <<arrived, fate>>
        BY <1>3, Zenon DEF netfilter_init, Service, Line
    <2>2. QED
        BY <2>1, Zenon DEF V!Next, V!Open
<1>4. CASE RecvOverrun \/ packet_free
    <2>1. Service' = Service /\ Line' = Line /\ UNCHANGED <<arrived, fate>>
        BY <1>4, Zenon DEF RecvOverrun, packet_free, Service, Line
    <2>2. QED
        BY <2>1, Zenon
<1>5. CASE netfilter_receive_packet
    <2>1. /\ pc = "recv" /\ sock # <<>> /\ sock' = Tail(sock)
          /\ UNCHANGED <<arrived, fate>>
          /\ pc' = "recv" \/ (pc' = "process" /\ cur' = Head(sock))
        BY <1>5, Zenon DEF netfilter_receive_packet, packet_process_callback
    <2>2. Line = sock /\ Service' = Service
        BY <2>1, Zenon DEF Line, Service
    <2>3. CASE pc' = "recv"
        <3>1. Line' = Tail(Line) /\ Line # <<>>
            BY <2>1, <2>2, <2>3, Zenon DEF Line
        <3>2. QED
            BY <2>1, <2>2, <3>1, Zenon DEF V!Next, V!GiveUp
    <2>4. CASE pc' = "process" /\ cur' = Head(sock)
        <3>1. sock \in Seq(Ids)
            BY <1>0, Zenon DEF TypeOK
        <3>2. <<Head(sock)>> \o Tail(sock) = sock
            BY <2>1, <3>1
        <3>3. Line' = Line
            BY <2>1, <2>2, <2>4, <3>2, Zenon DEF Line
        <3>4. QED
            BY <2>1, <2>2, <3>3, Zenon
    <2>5. QED
        BY <2>1, <2>3, <2>4, Zenon
<1>6. CASE packet_process \/ netfilter_send_verdict
    <2>1. /\ pc \in {"process", "verdict"} /\ pc' \in {"verdict", "free"}
          /\ UNCHANGED <<sock, cur, arrived>>
        BY <1>6, Zenon DEF packet_process, netfilter_send_verdict
    <2>2. cur \in Ids /\ outcome[cur] = "none"
        BY <1>0, <2>1 DEF Inv, InOrder, Ids, TypeOK
    <2>3. Line # <<>> /\ Head(Line) = cur /\ Tail(Line) = sock
        BY <1>0, <2>1, <2>2, LineInHand, Zenon
    <2>4. Service' = Service /\ Service = "serving"
        BY <2>1, Zenon DEF Service
    <2>5. CASE UNCHANGED fate /\ pc' = "verdict"
        <3>1. Line' = Line
            BY <2>1, <2>5, Zenon DEF Line
        <3>2. QED
            BY <2>1, <2>4, <2>5, <3>1, Zenon
    <2>6. CASE UNCHANGED fate /\ pc' = "free"
        <3>1. Line' = Tail(Line)
            BY <2>1, <2>3, <2>6, Zenon DEF Line
        <3>2. QED
            BY <2>1, <2>3, <2>4, <2>6, <3>1, Zenon DEF V!Next, V!GiveUp
    <2>7. CASE /\ fate' = [fate EXCEPT ![cur] = IF @ = "queued" THEN "accepted" ELSE @]
               /\ pc' = "free" /\ pc = "verdict"
        <3>1. Line' = Tail(Line)
            BY <2>1, <2>3, <2>7, Zenon DEF Line
        <3>2. fate[cur] = "queued"
            BY <2>2, <2>7, Zenon DEF Inv, QueueAccounting, Bound, InHand, Queued
        <3>3. fate' = [fate EXCEPT ![Head(Line)] = "accepted"]
            BY <2>3, <2>7, <3>2, Zenon
        <3>4. QED
            BY <2>1, <2>3, <2>4, <3>1, <3>2, <3>3, Zenon DEF V!Next, V!Accept
    <2>8. QED
        BY <1>6, <2>5, <2>6, <2>7, Zenon DEF packet_process, netfilter_send_verdict
<1>7. CASE ProcessDies \/ netfilter_cleanup
    <2>1. /\ Service = "serving" /\ Service' = "over" /\ Line' = <<>>
          /\ UNCHANGED arrived
        BY <1>7, Zenon DEF ProcessDies, netfilter_cleanup, DestroyQueue, Service, Line
    <2>2. fate' = [id \in 1..MaxPackets |->
                      IF fate[id] = "queued" THEN "dropped" ELSE fate[id]]
        BY <1>7, Zenon DEF ProcessDies, netfilter_cleanup, DestroyQueue, Ids
    <2>3. QED
        BY <2>1, <2>2, Zenon DEF V!Next, V!Close
<1>8. QED
    BY <1>1, <1>2, <1>3, <1>4, <1>5, <1>6, <1>7, Zenon DEF Next, Work

(* For any traffic, any configuration and any capacities, the program      *)
(* implements the abstract service: it serves packets in turn, each once,  *)
(* and gives the line up only when the queue is destroyed.                 *)
THEOREM VerdictsImplemented == Spec => ImplementsVerdicts
<1>1. Init => V!Init
    BY Zenon DEF Init, V!Init, Ids, Line, Service
<1>2. QED
    BY <1>1, StepSimulation, InvHolds, PTL DEF Spec, ImplementsVerdicts, V!Spec

-----------------------------------------------------------------------------
(* Between two packets the packet_t is empty.                              *)
Idle == pc \in {"start", "recv", "closed"} => packet = packet_init

(* Whatever malloc() refused and whichever path the packet took, nothing   *)
(* is allocated when the program waits for the next one.                   *)
THEOREM NoLeak == Spec => []NothingLeaked
<1>1. Init => Idle
    BY Zenon DEF Init, Idle
<1>2. Idle /\ [Next]_vars => Idle'
    <2> SUFFICES ASSUME Idle, [Next]_vars PROVE Idle'
        BY Zenon
    <2> USE DEF Idle, kernel
    <2>1. CASE UNCHANGED vars \/ Arrive
        BY <2>1, Zenon DEF vars, Arrive
    <2>2. CASE netfilter_init \/ RecvOverrun \/ netfilter_cleanup
        BY <2>2, Zenon DEF netfilter_init, RecvOverrun, netfilter_cleanup
    <2>3. CASE netfilter_receive_packet
        BY <2>3, Zenon DEF netfilter_receive_packet, packet_process_callback
    <2>4. CASE packet_process \/ ProcessDies \/ netfilter_send_verdict \/ packet_free
        BY <2>4, Zenon DEF packet_process, ProcessDies, netfilter_send_verdict, packet_free
    <2>5. QED
        BY <2>1, <2>2, <2>3, <2>4, Zenon DEF Next, Work
<1>3. Idle => NothingLeaked
    BY DEF Idle, NothingLeaked, packet_init
<1>4. QED
    BY <1>1, <1>2, <1>3, PTL DEF Spec

-----------------------------------------------------------------------------
Modified == {id \in Ids : outcome[id] \in {"verdict", "no_copy", "unsent"}}
Refused == {id \in Ids : outcome[id] \in {"evaded", "unparsed"}}

(* The counters run ahead of the outcomes by the packet in hand: it counts *)
(* as processed from the callback on, and as modified while its verdict is *)
(* being sent.                                                             *)
CountInv ==
    pc # "dead" =>
        /\ packets_modified =
             Cardinality(Modified) + (IF pc = "verdict" THEN 1 ELSE 0)
        /\ packets_processed =
             Cardinality(Modified) + Cardinality(Refused)
                 + (IF pc \in {"process", "verdict"} THEN 1 ELSE 0)

(* The counts are of finite sets of packets.                               *)
LEMMA FiniteCounts ==
    /\ IsFiniteSet(Modified) /\ IsFiniteSet(Refused)
    /\ Cardinality(Modified) \in Nat /\ Cardinality(Refused) \in Nat
<1>1. IsFiniteSet(Ids)
    BY FS_Interval, PacketPathAssumption DEF Ids
<1>2. IsFiniteSet(Modified) /\ IsFiniteSet(Refused)
    BY <1>1, FS_Subset, Zenon DEF Modified, Refused
<1>3. QED
    BY <1>2, FS_CardinalityType, Zenon

(* What one more outcome does to the two counts.                           *)
LEMMA OneMoreOutcome ==
    ASSUME TypeOK, NEW id \in Ids, NEW o \in Outcomes, outcome[id] = "none",
           outcome' = [outcome EXCEPT ![id] = o]
    PROVE  /\ Cardinality(Modified) \in Nat /\ Cardinality(Refused) \in Nat
           /\ Cardinality(Modified') = Cardinality(Modified)
                + (IF o \in {"verdict", "no_copy", "unsent"} THEN 1 ELSE 0)
           /\ Cardinality(Refused') = Cardinality(Refused)
                + (IF o \in {"evaded", "unparsed"} THEN 1 ELSE 0)
<1>2. IsFiniteSet(Modified) /\ IsFiniteSet(Refused)
    BY FiniteCounts, Zenon
<1>3. id \notin Modified /\ id \notin Refused
    BY Zenon DEF Modified, Refused
<1>4. Modified' = IF o \in {"verdict", "no_copy", "unsent"}
                  THEN Modified \cup {id} ELSE Modified
    BY Zenon DEF Modified, TypeOK
<1>5. Refused' = IF o \in {"evaded", "unparsed"}
                 THEN Refused \cup {id} ELSE Refused
    BY Zenon DEF Refused, TypeOK
<1>6. /\ Cardinality(Modified \cup {id}) = Cardinality(Modified) + 1
      /\ Cardinality(Refused \cup {id}) = Cardinality(Refused) + 1
    BY <1>2, <1>3, FS_AddElement, Zenon
<1>7. Cardinality(Modified) \in Nat /\ Cardinality(Refused) \in Nat
    BY FiniteCounts, Zenon
<1>8. QED
    BY <1>4, <1>5, <1>6, <1>7

(* Every step keeps the counters in line with the outcomes.                *)
LEMMA CountInductive == Inv /\ CountInv /\ [Next]_vars => CountInv'
<1> USE DEF kernel
<1> SUFFICES ASSUME Inv, CountInv, [Next]_vars PROVE CountInv'
    BY Zenon
<1>0. TypeOK /\ InOrder
    BY Zenon DEF Inv
<1>1. CASE UNCHANGED vars
    BY <1>1, Zenon DEF vars, CountInv, Modified, Refused
<1>2. CASE Arrive \/ netfilter_init \/ RecvOverrun \/ packet_free
              \/ netfilter_cleanup \/ ProcessDies
    <2>1. /\ UNCHANGED <<outcome, packets_modified, packets_processed>>
          /\ \/ pc' = "dead"
             \/ UNCHANGED pc
             \/ /\ pc \in {"start", "recv", "free"} /\ pc' \in {"recv", "closed"}
        BY <1>2, Zenon DEF Arrive, netfilter_init, RecvOverrun, packet_free,
                    netfilter_cleanup, ProcessDies, DestroyQueue
    <2>2. Modified' = Modified /\ Refused' = Refused
        BY <2>1, Zenon DEF Modified, Refused
    <2>3. QED
        BY <2>1, <2>2, Zenon DEF CountInv
<1>3. CASE netfilter_receive_packet
    <2> DEFINE h == Head(sock)
    <2>1. h \in Ids /\ outcome[h] = "none"
        <3>1. h = sock[1] /\ 1 \in 1..Len(sock) /\ h \in Ids
            BY <1>0, <1>3, ReadOne, Zenon DEF netfilter_receive_packet
        <3>2. QED
            BY <1>0, <3>1 DEF InOrder, Ids
    <2>2. /\ pc = "recv" /\ UNCHANGED packets_modified
          /\ \/ /\ pc' = "recv" /\ UNCHANGED packets_processed
                /\ outcome' = [outcome EXCEPT ![h] = "truncated"]
             \/ /\ pc' = "recv" /\ packets_processed' = packets_processed + 1
                /\ outcome' = [outcome EXCEPT ![h] = "unparsed"]
             \/ /\ pc' = "process" /\ packets_processed' = packets_processed + 1
                /\ UNCHANGED outcome
        BY <1>3, Zenon DEF netfilter_receive_packet, packet_process_callback
    <2> HIDE DEF h
    <2>3. CASE outcome' = [outcome EXCEPT ![h] = "truncated"]
               /\ pc' = "recv" /\ UNCHANGED packets_processed
        <3>0. "truncated" \in Outcomes
            BY Zenon DEF Outcomes, Stranding
        <3>1. /\ Cardinality(Modified) \in Nat /\ Cardinality(Refused) \in Nat
              /\ Cardinality(Modified') = Cardinality(Modified)
                   + (IF "truncated" \in {"verdict", "no_copy", "unsent"} THEN 1 ELSE 0)
              /\ Cardinality(Refused') = Cardinality(Refused)
                   + (IF "truncated" \in {"evaded", "unparsed"} THEN 1 ELSE 0)
            BY <1>0, <2>1, <2>3, <3>0, OneMoreOutcome, ZenonT(30)
        <3>2. QED
            BY <2>2, <2>3, <3>1 DEF CountInv
    <2>4. CASE outcome' = [outcome EXCEPT ![h] = "unparsed"]
               /\ pc' = "recv" /\ packets_processed' = packets_processed + 1
        <3>0. "unparsed" \in Outcomes
            BY Zenon DEF Outcomes, Stranding
        <3>1. /\ Cardinality(Modified) \in Nat /\ Cardinality(Refused) \in Nat
              /\ Cardinality(Modified') = Cardinality(Modified)
                   + (IF "unparsed" \in {"verdict", "no_copy", "unsent"} THEN 1 ELSE 0)
              /\ Cardinality(Refused') = Cardinality(Refused)
                   + (IF "unparsed" \in {"evaded", "unparsed"} THEN 1 ELSE 0)
            BY <1>0, <2>1, <2>4, <3>0, OneMoreOutcome, ZenonT(30)
        <3>2. QED
            BY <2>2, <2>4, <3>1 DEF CountInv
    <2>5. CASE /\ pc' = "process" /\ packets_processed' = packets_processed + 1
               /\ UNCHANGED outcome
        <3>1. Modified' = Modified /\ Refused' = Refused
            BY <2>5, Zenon DEF Modified, Refused
        <3>2. Cardinality(Modified) \in Nat /\ Cardinality(Refused) \in Nat
            BY FiniteCounts, Zenon
        <3>3. QED
            BY <2>2, <2>5, <3>1, <3>2 DEF CountInv
    <2>6. QED
        BY <2>2, <2>3, <2>4, <2>5, Zenon
<1>4. CASE packet_process \/ netfilter_send_verdict
    <2>1. pc \in {"process", "verdict"} /\ UNCHANGED packets_processed
        BY <1>4, Zenon DEF packet_process, netfilter_send_verdict
    <2>2. cur \in Ids /\ outcome[cur] = "none"
        BY <1>0, <2>1 DEF InOrder, Ids, TypeOK
    <2>3. packets_modified \in Nat /\ packets_processed \in Nat
        BY <1>0, Zenon DEF TypeOK
    <2>4. CASE /\ pc = "process" /\ pc' = "verdict" /\ UNCHANGED outcome
               /\ packets_modified' = packets_modified + 1
        <3>1. Modified' = Modified /\ Refused' = Refused
            BY <2>4, Zenon DEF Modified, Refused
        <3>2. Cardinality(Modified) \in Nat
            BY FiniteCounts, Zenon
        <3>3. QED
            BY <2>1, <2>4, <3>1, <3>2 DEF CountInv
    <2>5. CASE /\ pc = "process" /\ pc' = "free" /\ UNCHANGED packets_modified
               /\ outcome' = [outcome EXCEPT ![cur] = "evaded"]
        <3>0. "evaded" \in Outcomes
            BY Zenon DEF Outcomes, Stranding
        <3>1. /\ Cardinality(Modified) \in Nat /\ Cardinality(Refused) \in Nat
              /\ Cardinality(Modified') = Cardinality(Modified)
                   + (IF "evaded" \in {"verdict", "no_copy", "unsent"} THEN 1 ELSE 0)
              /\ Cardinality(Refused') = Cardinality(Refused)
                   + (IF "evaded" \in {"evaded", "unparsed"} THEN 1 ELSE 0)
            BY <1>0, <2>2, <2>5, <3>0, OneMoreOutcome, ZenonT(30)
        <3>2. QED
            BY <2>1, <2>5, <3>1 DEF CountInv
    <2>6. CASE /\ pc = "process" /\ pc' = "free"
               /\ packets_modified' = packets_modified + 1
               /\ outcome' = [outcome EXCEPT ![cur] = "no_copy"]
        <3>0. "no_copy" \in Outcomes
            BY Zenon DEF Outcomes, Stranding
        <3>1. /\ Cardinality(Modified) \in Nat /\ Cardinality(Refused) \in Nat
              /\ Cardinality(Modified') = Cardinality(Modified)
                   + (IF "no_copy" \in {"verdict", "no_copy", "unsent"} THEN 1 ELSE 0)
              /\ Cardinality(Refused') = Cardinality(Refused)
                   + (IF "no_copy" \in {"evaded", "unparsed"} THEN 1 ELSE 0)
            BY <1>0, <2>2, <2>6, <3>0, OneMoreOutcome, ZenonT(30)
        <3>2. QED
            BY <2>1, <2>6, <3>1 DEF CountInv
    <2>7. ASSUME pc = "verdict", pc' = "free", UNCHANGED packets_modified,
                 NEW o \in {"verdict", "unsent"},
                 outcome' = [outcome EXCEPT ![cur] = o]
          PROVE  CountInv'
        <3>0. o \in Outcomes
            BY <2>7, Zenon DEF Outcomes, Stranding
        <3>1. /\ Cardinality(Modified) \in Nat /\ Cardinality(Refused) \in Nat
              /\ Cardinality(Modified') = Cardinality(Modified)
                   + (IF o \in {"verdict", "no_copy", "unsent"} THEN 1 ELSE 0)
              /\ Cardinality(Refused') = Cardinality(Refused)
                   + (IF o \in {"evaded", "unparsed"} THEN 1 ELSE 0)
            BY <1>0, <2>2, <2>7, <3>0, OneMoreOutcome, ZenonT(30)
        <3>2. QED
            BY <2>1, <2>7, <3>1 DEF CountInv
    <2>8. QED
        BY <1>4, <2>4, <2>5, <2>6, <2>7, Zenon DEF packet_process, netfilter_send_verdict
<1>5. QED
    BY <1>1, <1>2, <1>3, <1>4, Zenon DEF Next, Work

(* For any traffic, configuration and faults, the two counters main()      *)
(* reports account for every packet the callback was given, once.          *)
THEOREM CountersCorrect == Spec => []CountersAccount
<1>1. Init => CountInv
    <2> SUFFICES ASSUME Init PROVE CountInv
        BY Zenon
    <2>1. \A id \in Ids : outcome[id] = "none"
        BY Zenon DEF Init
    <2>2. Modified = {} /\ Refused = {}
        BY <2>1, Zenon DEF Modified, Refused
    <2>3. pc = "start" /\ packets_modified = 0 /\ packets_processed = 0
        BY Zenon DEF Init
    <2>4. QED
        BY <2>2, <2>3, FS_EmptySet DEF CountInv
<1>2. Inv /\ CountInv => CountersAccount
    <2>1. Cardinality(Modified) \in Nat /\ Cardinality(Refused) \in Nat
        BY FiniteCounts, Zenon
    <2>2. QED
        BY <2>1 DEF CountInv, CountersAccount, Modified, Refused
<1>3. QED
    BY <1>1, <1>2, CountInductive, InvHolds, PTL DEF Spec
=============================================================================
