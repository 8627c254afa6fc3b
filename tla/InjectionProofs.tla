--------------------------- MODULE InjectionProofs ---------------------------
(* Proofs about Injection, for any user database, anyone starting the       *)
(* program, any number of descriptors and any packets.                      *)
EXTENDS Injection, WellFoundedInduction, TLAPS

PrivInv == PrivilegesTypeOK /\ NeverHalfDropped /\ DropReportsTruth
SockInv == RawSocketTypeOK /\ SocketsAreOwned
SentInv == sent \subseteq [family : {"ipv4", "ipv6"}, via : Kinds] /\ SentThroughItsSocket
Inv == PrivInv /\ SockInv /\ SentInv

-----------------------------------------------------------------------------
(* The privileges.                                                         *)

(* What the three calls leave, up to the n-th.                             *)
LEMMA AfterType ==
    ASSUME NEW u \in DOMAIN Passwd, NEW n \in 0..3, PrivInv, ids.uid = 0
    PROVE  LET new == After(n, Passwd[u])
           IN  /\ new \in [uid : Nat, gid : Nat, groups : SUBSET Nat]
               /\ n # 3 => new.uid = 0
               /\ n = 3 => new \in Identities
<1>1. /\ ids \in [uid : Nat, gid : Nat, groups : SUBSET Nat]
      /\ Passwd[u] \in [uid : Nat, gid : Nat]
    BY PrivilegesAssumption DEF PrivInv, PrivilegesTypeOK
<1>2. After(n, Passwd[u]) \in [uid : Nat, gid : Nat, groups : SUBSET Nat]
    BY <1>1, Zenon DEF After
<1>3. n # 3 => After(n, Passwd[u]).uid = 0
    BY <1>1 DEF After
<1>4. n = 3 => After(n, Passwd[u]) = [uid |-> Passwd[u].uid, gid |-> Passwd[u].gid, groups |-> {}]
    <2> DEFINE new == After(n, Passwd[u])
    <2>1. n = 3 => new.uid = Passwd[u].uid /\ new.gid = Passwd[u].gid /\ new.groups = {}
        BY <1>1 DEF After
    <2> HIDE DEF new
    <2>2. new = [uid |-> new.uid, gid |-> new.gid, groups |-> new.groups]
        BY <1>2 DEF new
    <2>3. QED
        BY <2>1, <2>2 DEF new
<1>5. QED
    BY <1>2, <1>3, <1>4 DEF Identities

(* Every call of privileges.c keeps what is said of the identity.          *)
LEMMA DropKeeps ==
    ASSUME PrivInv, NEW name, DropTo(name)
    PROVE  PrivInv'
<1>1. PICK n \in 0..3 : /\ ids' = After(n, Passwd[Target(name)])
                        /\ dropped' = (n = 3)
                        /\ Returns("drop", IF n = 3 THEN 0 ELSE -1)
    BY DEF DropTo
<1>2. ids.uid = 0 /\ Target(name) \in DOMAIN Passwd /\ start' = start
    BY DEF DropTo, is_running_as_root
<1>3. /\ ids' \in [uid : Nat, gid : Nat, groups : SUBSET Nat]
      /\ n # 3 => ids'.uid = 0
      /\ n = 3 => ids' \in Identities
    BY <1>1, <1>2, AfterType
<1>4. ret' = [call |-> "drop", value |-> IF n = 3 THEN 0 ELSE -1]
    BY <1>1 DEF Returns
<1>5. start' \in Starts
    BY <1>2 DEF PrivInv, PrivilegesTypeOK
<1>6. dropped' \in BOOLEAN /\ (dropped' <=> n = 3)
    BY <1>1, Zenon
<1>7. ret'.value \in {-1, 0} /\ (ret' = [call |-> "drop", value |-> -1] => n # 3)
    BY <1>4
<1>8. PrivilegesTypeOK'
    BY <1>3, <1>5, <1>6, <1>7 DEF PrivilegesTypeOK
<1>9. NeverHalfDropped'
    BY <1>3 DEF NeverHalfDropped, Identities
<1>10. DropReportsTruth'
    BY <1>3, <1>6, <1>7 DEF DropReportsTruth, Identities
<1>11. QED
    BY <1>8, <1>9, <1>10 DEF PrivInv

(* A call that leaves the identity alone keeps it too, unless it reports a *)
(* failed drop.                                                            *)
LEMMA OthersKeep ==
    ASSUME PrivInv, UNCHANGED <<start, ids>>, dropped' \in BOOLEAN, dropped' => dropped,
           ret'.value \in {-1, 0},
           ret' = [call |-> "drop", value |-> -1] => ids.uid = 0 /\ ~dropped
    PROVE  PrivInv'
BY DEF PrivInv, PrivilegesTypeOK, NeverHalfDropped, DropReportsTruth, Identities

(* An operation other than dropping that returns v.                        *)
LEMMA ReturnKeeps ==
    ASSUME PrivInv, NEW c, c # "drop", NEW v \in {-1, 0}, Returns(c, v),
           UNCHANGED <<start, ids, dropped>>
    PROVE  PrivInv'
<1>1. ret' = [call |-> c, value |-> v]
    BY DEF Returns
<1>2. ret'.value \in {-1, 0} /\ ret' # [call |-> "drop", value |-> -1]
    BY <1>1
<1>3. dropped \in BOOLEAN
    BY DEF PrivInv, PrivilegesTypeOK
<1>4. QED
    BY <1>2, <1>3, OthersKeep

-----------------------------------------------------------------------------
(* The sockets.                                                            *)

(* The lowest free descriptor exists when one is free.                     *)
LEMMA LowestIsFree ==
    ASSUME NEW o, FreeFds(o) # {}
    PROVE  Lowest(o) \in Fds /\ o[Lowest(o)] = "free"
<1>1. FreeFds(o) \subseteq Nat
    BY RawSocketAssumption DEF FreeFds, Fds
<1>2. PICK m \in FreeFds(o) : \A j \in FreeFds(o) : <<j, m>> \notin OpToRel(<, Nat)
    BY <1>1, NatLessThanWellFounded, WFMin, Zenon
<1>3. \A j \in FreeFds(o) : ~(j < m)
    BY <1>1, <1>2, Zenon DEF OpToRel
<1>4. \A j \in FreeFds(o) : m <= j
    BY <1>1, <1>3
<1>5. Min(FreeFds(o)) \in FreeFds(o)
    BY <1>2, <1>4, Zenon DEF Min
<1>6. QED
    BY <1>5 DEF Lowest, FreeFds

(* The same, one descriptor at a time.                                     *)
Owned(o, f4, f6) ==
    /\ o \in [Fds -> Kinds] /\ f4 \in Fds \union {-1} /\ f6 \in Fds \union {-1}
    /\ f4 = -1 <=> f6 = -1
    /\ \A f \in Fds : (o[f] = "ipv4" <=> f = f4) /\ (o[f] = "ipv6" <=> f = f6)

(* It is the invariant of raw_socket.c, before and after a step.          *)
LEMMA OwnedIsSockInv ==
    /\ SockInv <=> Owned(open, raw_socket_fd, raw_socket_ipv6_fd)
    /\ SockInv' <=> Owned(open', raw_socket_fd', raw_socket_ipv6_fd')
<1>1. -1 \notin Fds
    BY RawSocketAssumption DEF Fds
<1>2. ASSUME NEW o, NEW f4 \in Fds \union {-1}, NEW f6 \in Fds \union {-1}
      PROVE  /\ ({f \in Fds : o[f] = "ipv4"} = {f4} \ {-1}) <=> (\A f \in Fds : o[f] = "ipv4" <=> f = f4)
             /\ ({f \in Fds : o[f] = "ipv6"} = {f6} \ {-1}) <=> (\A f \in Fds : o[f] = "ipv6" <=> f = f6)
    BY <1>1
<1>3. SocketsAreOwned <=>
          /\ {f \in Fds : open[f] = "ipv4"} = {raw_socket_fd} \ {-1}
          /\ {f \in Fds : open[f] = "ipv6"} = {raw_socket_ipv6_fd} \ {-1}
          /\ raw_socket_fd = -1 <=> raw_socket_ipv6_fd = -1
    BY DEF SocketsAreOwned, FdFor
<1>4. SocketsAreOwned' <=>
          /\ {f \in Fds : open'[f] = "ipv4"} = {raw_socket_fd'} \ {-1}
          /\ {f \in Fds : open'[f] = "ipv6"} = {raw_socket_ipv6_fd'} \ {-1}
          /\ raw_socket_fd' = -1 <=> raw_socket_ipv6_fd' = -1
    BY DEF SocketsAreOwned, FdFor
<1>5. SockInv <=> Owned(open, raw_socket_fd, raw_socket_ipv6_fd)
    BY <1>2, <1>3 DEF SockInv, RawSocketTypeOK, Owned
<1>6. SockInv' <=> Owned(open', raw_socket_fd', raw_socket_ipv6_fd')
    BY <1>2, <1>4 DEF SockInv, RawSocketTypeOK, Owned
<1>7. QED
    BY <1>5, <1>6

(* Opening on a free descriptor changes that one only.                     *)
LEMMA OpenedFacts ==
    ASSUME NEW o \in [Fds -> Kinds], FreeFds(o) # {}, NEW kind \in Kinds
    PROVE  /\ Opened(o, kind) \in [Fds -> Kinds]
           /\ \A f \in Fds : Opened(o, kind)[f] = IF f = Lowest(o) THEN kind ELSE o[f]
           /\ Lowest(o) \in Fds /\ o[Lowest(o)] = "free"
BY LowestIsFree DEF Opened

(* Every step of raw_socket.c and of the files keeps the sockets owned.    *)
LEMMA SocketsKeep ==
    ASSUME SockInv,
           \/ UNCHANGED sockVars \/ OtherFile \/ cleanup_raw_socket
           \/ ~is_raw_socket_ready /\ (SetupFailsIPv4 \/ SetupFailsIPv6 \/ SetupSucceeds)
    PROVE  SockInv'
<1> DEFINE f4 == raw_socket_fd
           f6 == raw_socket_ipv6_fd
<1>1. /\ open \in [Fds -> Kinds] /\ f4 \in Fds \union {-1} /\ f6 \in Fds \union {-1}
      /\ f4 = -1 <=> f6 = -1
      /\ \A f \in Fds : (open[f] = "ipv4" <=> f = f4) /\ (open[f] = "ipv6" <=> f = f6)
    BY OwnedIsSockInv DEF Owned
<1>2. /\ \A f \in Fds : f \in Int /\ f >= 0 /\ f # -1
      /\ {"free", "ipv4", "ipv6", "file"} \subseteq Kinds
    BY RawSocketAssumption DEF Fds, Kinds
<1>3. SUFFICES Owned(open', raw_socket_fd', raw_socket_ipv6_fd')
    BY OwnedIsSockInv
<1>4. CASE UNCHANGED sockVars
    BY <1>1, <1>4 DEF sockVars, Owned
<1>5. CASE OtherFile
    <2>1. f4' = f4 /\ f6' = f6
        BY <1>5 DEF OtherFile
    <2>2. CASE FreeFds(open) # {} /\ open' = Opened(open, "file")
        BY <1>1, <1>2, <2>1, <2>2, OpenedFacts DEF Owned
    <2>3. CASE \E f \in Fds : open[f] = "file" /\ open' = Closed(open, f)
        BY <1>1, <1>2, <2>1, <2>3 DEF Owned, Closed
    <2>4. QED
        BY <1>5, <2>2, <2>3 DEF OtherFile
<1>6. CASE cleanup_raw_socket
    BY <1>1, <1>2, <1>6 DEF cleanup_raw_socket, Owned
<1>7. ASSUME ~is_raw_socket_ready, SetupFailsIPv4 \/ SetupFailsIPv6 \/ SetupSucceeds
      PROVE  Owned(open', raw_socket_fd', raw_socket_ipv6_fd')
    <2>1. f4 = -1 /\ f6 = -1
        BY <1>1, <1>2, <1>7 DEF is_raw_socket_ready
    <2>2. CASE SetupFailsIPv4
        BY <1>1, <2>1, <2>2 DEF SetupFailsIPv4, Owned
    <2>3. CASE SetupFailsIPv6
        <3> DEFINE first == Opened(open, "ipv4")
        <3>1. /\ first \in [Fds -> Kinds] /\ Lowest(open) \in Fds /\ open[Lowest(open)] = "free"
              /\ \A f \in Fds : first[f] = IF f = Lowest(open) THEN "ipv4" ELSE open[f]
            BY <1>1, <1>2, <2>3, OpenedFacts DEF SetupFailsIPv6
        <3> HIDE DEF first
        <3>2. /\ Closed(first, Lowest(open)) \in [Fds -> Kinds]
              /\ \A f \in Fds : Closed(first, Lowest(open))[f] = open[f]
            BY <1>2, <3>1 DEF Closed
        <3>3. /\ open' = Closed(first, Lowest(open))
              /\ raw_socket_fd' = -1 /\ raw_socket_ipv6_fd' = -1
            BY <2>3 DEF SetupFailsIPv6, first
        <3>4. QED
            BY <1>1, <1>2, <2>1, <3>2, <3>3 DEF Owned
    <2>4. CASE SetupSucceeds
        <3> DEFINE first == Opened(open, "ipv4")
                   second == Opened(first, "ipv6")
        <3>1. /\ first \in [Fds -> Kinds] /\ Lowest(open) \in Fds /\ open[Lowest(open)] = "free"
              /\ \A f \in Fds : first[f] = IF f = Lowest(open) THEN "ipv4" ELSE open[f]
            BY <1>1, <1>2, <2>4, OpenedFacts DEF SetupSucceeds
        <3>2. /\ second \in [Fds -> Kinds] /\ Lowest(first) \in Fds /\ first[Lowest(first)] = "free"
              /\ \A f \in Fds : second[f] = IF f = Lowest(first) THEN "ipv6" ELSE first[f]
            BY <1>2, <2>4, <3>1, OpenedFacts DEF SetupSucceeds
        <3>3. /\ open' = second /\ raw_socket_fd' = Lowest(open)
              /\ raw_socket_ipv6_fd' = Lowest(first)
            BY <2>4 DEF SetupSucceeds
        <3> HIDE DEF first, second
        <3>4. Lowest(first) # Lowest(open)
            BY <3>1, <3>2
        <3>5. \A f \in Fds : second[f] = IF f = Lowest(first) THEN "ipv6"
                                        ELSE IF f = Lowest(open) THEN "ipv4" ELSE open[f]
            BY <3>1, <3>2
        <3>6. \A f \in Fds : open[f] # "ipv4" /\ open[f] # "ipv6"
            BY <1>1, <1>2, <2>1
        <3>7. QED
            BY <1>2, <3>1, <3>2, <3>3, <3>4, <3>5, <3>6 DEF Owned
    <2>5. QED
        BY <1>7, <2>2, <2>3, <2>4
<1>8. QED
    BY <1>4, <1>5, <1>6, <1>7

-----------------------------------------------------------------------------
(* The injection.                                                          *)

(* What is sent goes through the raw socket of its family.                 *)
LEMMA SendKeeps ==
    ASSUME SockInv, SentInv, NEW p \in Originals,
           send_raw_packet(p) \/ UNCHANGED sent
    PROVE  SentInv'
<1>1. CASE UNCHANGED sent
    BY <1>1 DEF SentInv, SentThroughItsSocket
<1>2. CASE FdFor(p.family) >= 0 /\ sent' = sent \union {[family |-> p.family, via |-> open[FdFor(p.family)]]}
    <2>1. p.family \in {"ipv4", "ipv6"}
        BY InjectionAssumption
    <2>2. Owned(open, raw_socket_fd, raw_socket_ipv6_fd)
        BY OwnedIsSockInv
    <2>3. FdFor(p.family) \in Fds
        BY <1>2, <2>2 DEF FdFor, Owned
    <2>4. open[FdFor(p.family)] = p.family
        BY <2>1, <2>2, <2>3 DEF FdFor, Owned
    <2>5. QED
        BY <1>2, <2>1, <2>4 DEF SentInv, SentThroughItsSocket, Kinds
<1>3. QED
    BY <1>1, <1>2 DEF send_raw_packet

(* Every step keeps the invariant.                                         *)
LEMMA InvInductive == Inv /\ [Next]_vars => Inv'
<1> SUFFICES ASSUME PrivInv, SockInv, SentInv, [Next]_vars PROVE PrivInv' /\ SockInv' /\ SentInv'
    BY DEF Inv
<1>1. CASE UNCHANGED vars
    <2>1. UNCHANGED privVars /\ UNCHANGED sockVars /\ UNCHANGED sent
        BY <1>1 DEF vars
    <2>2. PrivInv'
        BY <2>1 DEF privVars, PrivInv, PrivilegesTypeOK, NeverHalfDropped, DropReportsTruth, Identities
    <2>3. QED
        BY <2>1, <2>2, SocketsKeep DEF SentInv, SentThroughItsSocket
<1>2. CASE Identity
    <2>1. SockInv' /\ SentInv'
        BY <1>2, SocketsKeep DEF Identity, SentInv, SentThroughItsSocket
    <2>2. dropped \in BOOLEAN
        BY DEF PrivInv, PrivilegesTypeOK
    <2>3. ASSUME setup_privileges PROVE PrivInv'
        <3>1. UNCHANGED <<start, ids>> /\ ~dropped' /\ dropped' \in BOOLEAN
            BY <2>3, Zenon DEF setup_privileges
        <3>2. ret' = [call |-> "setup", value |-> 0]
            BY <2>3 DEF setup_privileges, Returns
        <3>3. QED
            BY <3>1, <3>2, OthersKeep
    <2>4. ASSUME restore_privileges PROVE PrivInv'
        BY <2>4, ReturnKeeps DEF restore_privileges
    <2>5. ASSUME NEW name, DropNothing(name) PROVE PrivInv'
        <3>1. UNCHANGED <<start, ids, dropped>>
            BY <2>5, Zenon DEF DropNothing
        <3>2. \/ ret' = [call |-> "drop", value |-> 0]
              \/ ret' = [call |-> "drop", value |-> -1] /\ ~dropped /\ ids.uid = 0
            BY <2>5, Zenon DEF DropNothing, Returns, is_running_as_root
        <3>3. QED
            BY <2>2, <3>1, <3>2, OthersKeep
    <2>6. QED
        BY <1>2, <2>1, <2>3, <2>4, <2>5, DropKeeps DEF Identity, drop_privileges
<1>3. CASE validate_privileges
    <2>1. PrivInv'
        BY <1>3, ReturnKeeps DEF validate_privileges
    <2>2. QED
        BY <1>3, <2>1, SocketsKeep DEF validate_privileges, SentInv, SentThroughItsSocket
<1>4. CASE setup_raw_socket
    <2>1. PrivInv'
        BY <1>4, ReturnKeeps DEF setup_raw_socket
    <2>2. SockInv'
        BY <1>4, SocketsKeep DEF setup_raw_socket
    <2>3. QED
        BY <1>4, <2>1, <2>2 DEF setup_raw_socket, SentInv, SentThroughItsSocket
<1>5. CASE Cleanup \/ Other
    <2>1. UNCHANGED privVars /\ UNCHANGED sent
        BY <1>5 DEF Cleanup, Other
    <2>2. PrivInv'
        BY <2>1 DEF privVars, PrivInv, PrivilegesTypeOK, NeverHalfDropped, DropReportsTruth, Identities
    <2>3. SockInv'
        BY <1>5, SocketsKeep DEF Cleanup, Other
    <2>4. QED
        BY <2>1, <2>2, <2>3 DEF SentInv, SentThroughItsSocket
<1>6. ASSUME NEW p \in Originals, evasion_inject_fake_packet(p) \/ send_fake_packet_with_ttl(p)
      PROVE  PrivInv' /\ SockInv' /\ SentInv'
    <2>1. /\ UNCHANGED <<start, ids, dropped>> /\ UNCHANGED sockVars
          /\ send_raw_packet(p) \/ (Returns("inject", -1) /\ UNCHANGED sent)
        BY <1>6 DEF evasion_inject_fake_packet, send_fake_packet_with_ttl
    <2>2. Returns("inject", -1) \/ Returns("inject", 0)
        BY <2>1 DEF send_raw_packet
    <2>3. PrivInv'
        BY <2>1, <2>2, ReturnKeeps
    <2>4. QED
        BY <2>1, <2>3, SocketsKeep, SendKeeps
<1>7. QED
    BY <1>1, <1>2, <1>3, <1>4, <1>5, <1>6 DEF Next

(* The invariant holds in every reachable state.                           *)
LEMMA Invariance == Spec => []Inv
<1>1. Init => Inv
    <2> SUFFICES ASSUME Init PROVE Inv
        OBVIOUS
    <2>1. PrivInv
        BY PrivilegesAssumption, Zenon DEF Init, PrivilegesInit, PrivInv, PrivilegesTypeOK,
           NeverHalfDropped, DropReportsTruth
    <2>2. Owned(open, raw_socket_fd, raw_socket_ipv6_fd)
        BY RawSocketAssumption DEF Init, RawSocketInit, Owned, Fds, Kinds
    <2>3. QED
        BY <2>1, <2>2, OwnedIsSockInv DEF Init, Inv, SentInv, SentThroughItsSocket
<1>2. QED
    BY <1>1, InvInductive, PTL DEF Spec

-----------------------------------------------------------------------------
(* Whoever starts the program, whichever calls of drop_privileges() fail   *)
(* at whichever point: no process is left with part of root's identity.    *)
THEOREM DropIsAllOrNothing == Spec => []NeverHalfDropped
<1>1. Inv => NeverHalfDropped
    BY DEF Inv, PrivInv
<1>2. QED
    BY <1>1, Invariance, PTL

(* What drop_privileges() returns says which of the two happened.          *)
THEOREM DropIsTruthful == Spec => []DropReportsTruth
<1>1. Inv => DropReportsTruth
    BY DEF Inv, PrivInv
<1>2. QED
    BY <1>1, Invariance, PTL

(* For any number of descriptors, raw_socket_fd and raw_socket_ipv6_fd     *)
(* name exactly the raw sockets of the process.                            *)
THEOREM SocketsOwned == Spec => []SocketsAreOwned
<1>1. Inv => SocketsAreOwned
    BY DEF Inv, SockInv
<1>2. QED
    BY <1>1, Invariance, PTL

(* send_raw_packet() never writes a packet anywhere but into the raw       *)
(* socket of its family.                                                   *)
THEOREM SentCorrectly == Spec => []SentThroughItsSocket
<1>1. Inv => SentThroughItsSocket
    BY DEF Inv, SentInv
<1>2. QED
    BY <1>1, Invariance, PTL

(* Types: descriptors, identities and results are what the code declares.  *)
THEOREM TypeCorrect == Spec => []TypeOK
<1>1. Inv => TypeOK
    BY DEF Inv, PrivInv, SockInv, SentInv, TypeOK
<1>2. QED
    BY <1>1, Invariance, PTL
=============================================================================
