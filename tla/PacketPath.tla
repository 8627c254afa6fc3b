----------------------------- MODULE PacketPath ------------------------------
(***************************************************************************)
(* The way of packets through the kernel's NFQUEUE and the main loop.  The *)
(* kernel holds every packet it has queued until a verdict names its id or *)
(* the queue is destroyed; it tells the program of them in messages on a   *)
(* netlink socket.  Packets arrive while the program is anywhere in its    *)
(* loop.                                                                   *)
(***************************************************************************)
EXTENDS Packets, Sequences, FiniteSets

CONSTANTS
    Traffic,     \* the kinds of packets that arrive, a subset of Kinds
    Options,     \* the configurations, a subset of Configs
    Faults,      \* a subset of {"malloc", "sendmsg"}
    QueueMax,    \* packets the kernel holds in a queue (1024 by default)
    SocketMin,   \* messages the netlink socket has room for at least
    MaxPackets   \* bound: packets that arrive

ASSUME PacketPathAssumption ==
    /\ Traffic \subseteq Kinds /\ Traffic # {}
    /\ Options \subseteq Configs
    /\ QueueMax \in Nat /\ SocketMin \in Nat /\ MaxPackets \in Nat

Ids == 1..MaxPackets

(* What the program did with a packet it has finished with.  All but the   *)
(* first two leave the packet with the kernel.                             *)
Stranding == {"truncated", "unparsed", "evaded", "no_copy", "unsent"}
Outcomes == {"none", "verdict"} \cup Stranding

VARIABLES
    conf,       \* the configuration
    arrived,    \* number of packets that have arrived; the last one's id
    kind,       \* kind[id]: what packet id looks like
    fate,       \* fate[id]: where the kernel has it
    sock,       \* ids of the messages in the netlink socket
    overrun,    \* the socket overflowed: the next recv() fails (ENOBUFS)
    pc,         \* where the program is
    cur,        \* id of the packet in packet_process_callback()
    packet,     \* its packet_t
    outcome,    \* outcome[id]: what the program did with packet id
    packets_processed,
    packets_modified

kernel == <<arrived, kind, fate, sock, overrun>>
vars == <<conf, arrived, kind, fate, sock, overrun, pc, cur, packet, outcome,
          packets_processed, packets_modified>>

TypeOK ==
    /\ conf \in Options
    /\ arrived \in 0..MaxPackets
    /\ kind \in [Ids -> Traffic]
    /\ fate \in [Ids -> {"absent", "queued", "accepted", "dropped"}]
    /\ sock \in Seq(Ids)
    /\ overrun \in BOOLEAN
    /\ pc \in {"start", "recv", "process", "verdict", "free", "closed", "dead"}
    /\ cur \in 0..MaxPackets
    /\ packet \in Packets
    /\ outcome \in [Ids -> Outcomes]
    /\ packets_processed \in Nat
    /\ packets_modified \in Nat

Init ==
    /\ conf \in Options
    /\ arrived = 0
    /\ kind = [id \in Ids |-> CHOOSE k \in Traffic : TRUE]  \* set by Arrive
    /\ fate = [id \in Ids |-> "absent"]
    /\ sock = <<>>
    /\ overrun = FALSE
    /\ pc = "start"
    /\ cur = 0
    /\ packet = packet_init
    /\ outcome = [id \in Ids |-> "none"]
    /\ packets_processed = 0
    /\ packets_modified = 0

Queued == {id \in Ids : fate[id] = "queued"}
Bound == pc \notin {"start", "closed", "dead"}

-----------------------------------------------------------------------------
(* The kernel.                                                             *)

(* A packet matches one of the rules.  Without a program on the queue, or  *)
(* with a full queue, it is dropped; so it is when the socket is full,     *)
(* which recv() will report.  The socket's limit is in bytes: from         *)
(* SocketMin messages on, it may be full or not.                           *)
Arrive ==
    /\ arrived < MaxPackets
    /\ arrived' = arrived + 1
    /\ \E k \in Traffic : kind' = [kind EXCEPT ![arrived + 1] = k]
    /\ LET Held == Bound /\ Cardinality(Queued) < QueueMax
       IN  \/ /\ Held
              /\ fate' = [fate EXCEPT ![arrived + 1] = "queued"]
              /\ sock' = Append(sock, arrived + 1)
              /\ UNCHANGED overrun
           \/ /\ Held /\ Len(sock) >= SocketMin
              /\ fate' = [fate EXCEPT ![arrived + 1] = "dropped"]
              /\ overrun' = TRUE
              /\ UNCHANGED sock
           \/ /\ ~Held
              /\ fate' = [fate EXCEPT ![arrived + 1] = "dropped"]
              /\ UNCHANGED <<sock, overrun>>
    /\ UNCHANGED <<conf, pc, cur, packet, outcome, packets_processed,
                   packets_modified>>

(* The queue is destroyed: what it holds is dropped.                       *)
DestroyQueue ==
    /\ fate' = [id \in Ids |-> IF fate[id] = "queued" THEN "dropped" ELSE fate[id]]
    /\ sock' = <<>>
    /\ overrun' = FALSE
    /\ UNCHANGED <<arrived, kind>>

-----------------------------------------------------------------------------
(* The program.                                                            *)

netfilter_init ==
    /\ pc = "start"
    /\ pc' = "recv"
    /\ UNCHANGED <<conf, kernel, cur, packet, outcome, packets_processed,
                   packets_modified>>

RecvOverrun ==
    /\ pc = "recv" /\ overrun
    /\ overrun' = FALSE
    /\ UNCHANGED <<conf, arrived, kind, fate, sock, pc, cur, packet, outcome,
                   packets_processed, packets_modified>>

(* The buffers malloc() can give the program.                              *)
Allocations == IF "malloc" \in Faults THEN SUBSET Buffers ELSE {Buffers}

(* A slip: the id of the first packet is kept.                             *)
netfilter_receive_packet_StaleId ==
    /\ pc = "recv" /\ ~overrun
    /\ sock # <<>>
    /\ sock' = Tail(sock)
    /\ kind[Head(sock)].fits /\ Parses(kind[Head(sock)])
    /\ packets_processed' = packets_processed + 1
    /\ cur' = IF cur = 0 THEN Head(sock) ELSE cur
    /\ packet' = packet_parse(kind[Head(sock)], Buffers)
    /\ pc' = "process"
    /\ UNCHANGED <<conf, arrived, kind, fate, overrun, outcome, packets_modified>>

(* A slip: the message that came last is read first.                       *)
netfilter_receive_packet_LastFirst ==
    /\ pc = "recv" /\ ~overrun
    /\ sock # <<>>
    /\ sock' = SubSeq(sock, 1, Len(sock) - 1)
    /\ packets_processed' = packets_processed + 1
    /\ cur' = sock[Len(sock)]
    /\ packet' = packet_parse(kind[cur'], Buffers)
    /\ pc' = "process"
    /\ UNCHANGED <<conf, arrived, kind, fate, overrun, outcome, packets_modified>>

(* The callback up to packet_parse(): a packet that does not parse returns *)
(* at once, without a verdict.                                             *)
packet_process_callback(id) ==
    /\ packets_processed' = packets_processed + 1
    /\ \/ /\ ~Parses(kind[id])
          /\ outcome' = [outcome EXCEPT ![id] = "unparsed"]
          /\ UNCHANGED <<pc, cur, packet>>
       \/ /\ Parses(kind[id])
          /\ cur' = id
          /\ \E Alloc \in Allocations : packet' = packet_parse(kind[id], Alloc)
          /\ pc' = "process"
          /\ UNCHANGED outcome

(* recv() and nfq_handle_packet(): a message cut off by the buffer is      *)
(* refused before the callback.                                            *)
netfilter_receive_packet ==
    /\ pc = "recv" /\ ~overrun
    /\ sock # <<>>
    /\ sock' = Tail(sock)
    /\ \/ /\ ~kind[Head(sock)].fits
          /\ outcome' = [outcome EXCEPT ![Head(sock)] = "truncated"]
          /\ UNCHANGED <<pc, cur, packet, packets_processed>>
       \/ kind[Head(sock)].fits /\ packet_process_callback(Head(sock))
    /\ UNCHANGED <<conf, arrived, kind, fate, overrun, packets_modified>>

(* A slip: a packet that was changed returns without packet_free().        *)
packet_process_EarlyReturn ==
    /\ pc = "process"
    /\ packet' = Processed(conf, packet)
    /\ \/ /\ Evaded(conf, packet)
          /\ outcome' = [outcome EXCEPT ![cur] = "evaded"]
          /\ pc' = "recv"
          /\ UNCHANGED packets_modified
       \/ /\ ~Evaded(conf, packet)
          /\ packets_modified' = packets_modified + 1
          /\ pc' = "verdict"
          /\ UNCHANGED outcome
    /\ UNCHANGED <<conf, kernel, cur, packets_processed>>

(* A slip: a packet is counted only when it is sent.                       *)
packet_process_CountSent ==
    /\ pc = "process"
    /\ packet' = Processed(conf, packet)
    /\ IF ~Evaded(conf, packet) /\ "raw_packet" \in packet.heap
       THEN /\ packets_modified' = packets_modified + 1
            /\ pc' = "verdict"
            /\ UNCHANGED outcome
       ELSE /\ outcome' = [outcome EXCEPT ![cur] =
                              IF Evaded(conf, packet) THEN "evaded" ELSE "no_copy"]
            /\ pc' = "free"
            /\ UNCHANGED packets_modified
    /\ UNCHANGED <<conf, kernel, cur, packets_processed>>

(* A slip: a packet that is too large is skipped with -1, not 0.           *)
packet_process_SkipFails ==
    /\ pc = "process"
    /\ packet' = Processed(conf, packet)
    /\ pc' = IF Evaded(conf, packet) \/ Skipped(conf, packet)
             THEN "free" ELSE "verdict"
    /\ outcome' = IF Evaded(conf, packet)
                  THEN [outcome EXCEPT ![cur] = "evaded"] ELSE outcome
    /\ UNCHANGED <<conf, kernel, cur, packets_processed, packets_modified>>

(* packet_process() and the tests on what it returns: 0 counts as          *)
(* modified and gets a verdict, 1 gets none.                               *)
packet_process ==
    /\ pc = "process"
    /\ packet' = Processed(conf, packet)
    /\ \/ /\ Evaded(conf, packet)
          /\ outcome' = [outcome EXCEPT ![cur] = "evaded"]
          /\ pc' = "free"
          /\ UNCHANGED packets_modified
       \/ /\ ~Evaded(conf, packet)
          /\ packets_modified' = packets_modified + 1
          /\ \/ /\ "raw_packet" \in packet.heap
                /\ pc' = "verdict"
                /\ UNCHANGED outcome
             \/ /\ "raw_packet" \notin packet.heap
                /\ outcome' = [outcome EXCEPT ![cur] = "no_copy"]
                /\ pc' = "free"
    /\ UNCHANGED <<conf, kernel, cur, packets_processed>>

ProcessDies ==
    /\ pc = "process"
    /\ ProcessCrashes(conf, packet)
    /\ pc' = "dead"
    /\ DestroyQueue
    /\ UNCHANGED <<conf, cur, packet, outcome, packets_processed,
                   packets_modified>>

(* The kernel lets the packet with that id go, if it has one.              *)
netfilter_send_verdict ==
    /\ pc = "verdict"
    /\ pc' = "free"
    /\ \/ /\ fate' = [fate EXCEPT ![cur] = IF @ = "queued" THEN "accepted" ELSE @]
          /\ outcome' = [outcome EXCEPT ![cur] = "verdict"]
       \/ /\ "sendmsg" \in Faults
          /\ outcome' = [outcome EXCEPT ![cur] = "unsent"]
          /\ UNCHANGED fate
    /\ UNCHANGED <<conf, arrived, kind, sock, overrun, cur, packet,
                   packets_processed, packets_modified>>

packet_free ==
    /\ pc = "free"
    /\ packet' = packet_init
    /\ pc' = "recv"
    /\ UNCHANGED <<conf, kernel, cur, outcome, packets_processed,
                   packets_modified>>

(* The loop ends between two packets (Lifecycle models when).              *)
netfilter_cleanup ==
    /\ pc = "recv"
    /\ pc' = "closed"
    /\ DestroyQueue
    /\ UNCHANGED <<conf, cur, packet, outcome, packets_processed,
                   packets_modified>>

Work == RecvOverrun \/ netfilter_receive_packet \/ packet_process
            \/ netfilter_send_verdict \/ packet_free

Next == Arrive \/ netfilter_init \/ Work \/ ProcessDies \/ netfilter_cleanup

Spec == Init /\ [][Next]_vars

(* The program is scheduled as long as it has a message to read or a       *)
(* packet in hand.                                                         *)
FairSpec == Spec /\ WF_vars(Work)

-----------------------------------------------------------------------------
Stranded == {id \in Ids : outcome[id] \in Stranding}

Unread == {sock[n] : n \in 1..Len(sock)}

(* The packets in the program's hand.                                      *)
InHand == IF pc \in {"process", "verdict"} THEN {cur} ELSE {}

(* The kernel holds exactly the packets the program has still to read, the *)
(* one it is working on and those it has stranded: no packet is forgotten  *)
(* in any other way, and none is released twice.                           *)
QueueAccounting ==
    Bound => Queued = Unread \cup InHand \cup Stranded

(* The counters main() reports: a packet counts as modified exactly when   *)
(* packet_process() let it be, and each packet that was handed to the      *)
(* callback is accounted for once.                                         *)
CountersAccount ==
    pc \in {"recv", "closed"} =>
        /\ packets_modified =
             Cardinality({id \in Ids : outcome[id] \in {"verdict", "no_copy", "unsent"}})
        /\ packets_processed - packets_modified =
             Cardinality({id \in Ids : outcome[id] \in {"evaded", "unparsed"}})

(* The comment at main.c:97 and the one at main.c:119: nothing is          *)
(* allocated when the program waits for the next packet, whether the last  *)
(* one was parsed, refused or only partly copied.                          *)
NothingLeaked == pc \in {"recv", "closed"} => packet.heap = {}

(* PacketPath implements Verdicts: the line is the packet in hand and the  *)
(* messages in the socket.                                                 *)
Service == IF pc = "start" THEN "new"
           ELSE IF pc \in {"closed", "dead"} THEN "over" ELSE "serving"

Line == IF pc \in {"process", "verdict"} THEN <<cur>> \o sock ELSE sock

V == INSTANCE Verdicts WITH line <- Line, service <- Service

(* The program keeps the promise Verdicts makes to the host's traffic,     *)
(* with messages lost, truncated and refused, copies that fail and a       *)
(* callback that crashes: the first packet in line is accepted or given    *)
(* up, none is served out of turn or twice, and none survives the queue.   *)
ImplementsVerdicts == V!Spec

(* Packets of the accepted traffic leave in the order they came.           *)
OrderKept ==
    [][\A id, jd \in Ids :
           fate[id] = "queued" /\ fate'[id] = "accepted" /\ fate[jd] = "accepted"
               => jd < id]_vars

(* A queued packet gets its verdict, unless the queue is destroyed or the  *)
(* packet is one of those the program strands.                             *)
Served ==
    \A id \in Ids :
        fate[id] = "queued" ~> (fate[id] # "queued" \/ outcome[id] \in Stranding)

-----------------------------------------------------------------------------
(* What a comment says and the code does not do.                           *)

(* netfilter_capture.c:37: "user callback is responsible for sending       *)
(* verdict".  When the callback has returned, its packet has a verdict.    *)
CallbackSendsVerdict ==
    pc = "recv" => \A id \in Ids : fate[id] = "queued" =>
                       outcome[id] \notin {"evaded", "unparsed"}
=============================================================================
