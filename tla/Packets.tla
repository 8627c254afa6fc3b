------------------------------- MODULE Packets -------------------------------
(***************************************************************************)
(* What goodbyedpi does to one packet, as functions: parsing it into a     *)
(* packet_t, classifying it and applying the evasion techniques.  A packet *)
(* is described by the answers the code's tests get from its bytes:        *)
(*   fits     the netlink message fits the 4096 bytes recv() offers        *)
(*   len      "below_ip" (shorter than an IP header), "below_transport"    *)
(*            (shorter than the transport header too), "whole"             *)
(*   version  the first four bits                                          *)
(*   proto    "tcp", "udp" or "other"                                      *)
(*   dst      the destination port                                         *)
(*   load     the transport payload: "none", "method" (it starts with one  *)
(*            of the five HTTP methods) or "data"                          *)
(*   host     its Host header, NoHost or [spaces, value]: the blanks after *)
(*            the colon and whether a value follows                        *)
(*   long     the payload is longer than max_payload_size                  *)
(***************************************************************************)
EXTENDS Naturals

NoHost == [spaces |-> 0, value |-> FALSE, found |-> FALSE]
Hosts == {NoHost} \cup [spaces : Nat, value : BOOLEAN, found : {TRUE}]

Kinds == [fits : BOOLEAN, len : {"below_ip", "below_transport", "whole"},
          version : Nat, proto : {"tcp", "udp", "other"}, dst : Nat,
          load : {"none", "method", "data"}, host : Hosts, long : BOOLEAN]

(* The options packet_process() looks at; a size is on when it is not 0.   *)
Configs == [host_mixedcase : BOOLEAN, host_removespace : BOOLEAN,
            additional_space : BOOLEAN, http_fragment : BOOLEAN,
            https_fragment : BOOLEAN, fake_packet : BOOLEAN,
            max_payload : BOOLEAN]

Buffers == {"payload", "raw_packet", "headers"}
Types == {"UNKNOWN", "IPV4_TCP", "IPV4_TCP_DATA", "IPV4_UDP_DATA", "IPV6_TCP"}

(* packet_t: heap is the set of its buffers that are allocated, mixed says *)
(* that the case of the host name in the payload copy was changed.         *)
Packets == [type : Types, dst_port : Nat, load : {"none", "method", "data"},
            host : Hosts, mixed : BOOLEAN, long : BOOLEAN,
            heap : SUBSET Buffers]

-----------------------------------------------------------------------------
(* packet_utils.c.  Alloc is the set of buffers malloc() has memory for; a *)
(* payload that cannot be copied is dropped and its length stays 0.        *)

packet_init == [type |-> "UNKNOWN", dst_port |-> 0, load |-> "none",
                host |-> NoHost, mixed |-> FALSE, long |-> FALSE,
                heap |-> {}]

HasPayload(k) == k.proto \in {"tcp", "udp"} /\ k.load # "none"

packet_parse_ipv4(k, Alloc) ==
    LET copied == HasPayload(k) /\ "payload" \in Alloc
    IN  [type |-> CASE k.proto = "tcp" /\ HasPayload(k) -> "IPV4_TCP_DATA"
                    [] k.proto = "tcp" /\ ~HasPayload(k) -> "IPV4_TCP"
                    [] k.proto = "udp" /\ HasPayload(k) -> "IPV4_UDP_DATA"
                    [] OTHER -> "UNKNOWN",
         dst_port |-> IF k.proto = "other" THEN 0 ELSE k.dst,
         load |-> IF copied THEN k.load ELSE "none",
         host |-> IF copied THEN k.host ELSE NoHost,
         mixed |-> FALSE,
         long |-> copied /\ k.long,
         heap |-> Alloc \ (IF HasPayload(k) THEN {} ELSE {"payload"})]

packet_parse_ipv6(Alloc) ==
    [packet_init EXCEPT !.type = "IPV6_TCP", !.heap = Alloc \cap {"raw_packet"}]

(* Every failing test of packet_parse() and the functions it calls is      *)
(* before their first malloc().                                            *)
Parses(k) ==
    /\ k.len # "below_ip"
    /\ k.version \in {4, 6}
    /\ k.version = 4 /\ k.proto \in {"tcp", "udp"} => k.len = "whole"

packet_parse(k, Alloc) ==
    IF k.version = 4 THEN packet_parse_ipv4(k, Alloc)
                     ELSE packet_parse_ipv6(Alloc)

packet_is_tcp(p) ==
    p.type \in {"IPV4_TCP", "IPV4_TCP_DATA", "IPV6_TCP"}

packet_is_http(p) ==
    packet_is_tcp(p) /\ "payload" \in p.heap /\ p.dst_port = 80
    /\ p.load = "method"

packet_is_https(p) == packet_is_tcp(p) /\ p.dst_port = 443

-----------------------------------------------------------------------------
(* The techniques.  Those on the Host header work on the payload copy; a   *)
(* technique "applies" when its function returns 0.                        *)

MixedCaseApplies(p) == p.host.found /\ p.host.value

RemoveSpaceApplies(p) == p.host.found /\ p.host.spaces > 0
AdditionalSpaceApplies(p) == p.host.found

(* evasion_fragment_packet() returns success and does nothing else.        *)
FragmentApplies(p) == "raw_packet" \in p.heap

(* setup_raw_socket() has no caller, so send_raw_packet() finds fd -1.     *)
RawSocketReady == FALSE

(* A reset is built for a TCP packet without payload only.  memcpy() from  *)
(* headers that could not be allocated ends the program.                   *)
BuildsReset(p) == p.type \in {"IPV4_TCP", "IPV6_TCP"}
InjectFakeApplies(p) == BuildsReset(p) /\ RawSocketReady
InjectFakeCrashes(p) == BuildsReset(p) /\ "headers" \notin p.heap

Skipped(c, p) == c.max_payload /\ p.long

EditPayload(c, p) ==
    LET mix == c.host_mixedcase /\ MixedCaseApplies(p)
        remove == c.host_removespace /\ RemoveSpaceApplies(p)
        add == c.additional_space /\ AdditionalSpaceApplies(p)
    IN  [p EXCEPT !.mixed = mix,
                  !.host.spaces = @ - (IF remove THEN 1 ELSE 0)
                                    + (IF add THEN 1 ELSE 0)]

(* The two outcomes of packet_process(): the packet_t it leaves behind and *)
(* the value it returns, 1 (TRUE) when some technique reported success.    *)
Processed(c, p) ==
    IF ~Skipped(c, p) /\ packet_is_http(p) THEN EditPayload(c, p) ELSE p

Evaded(c, p) ==
    /\ ~Skipped(c, p)
    /\ \/ /\ packet_is_http(p)
          /\ \/ c.host_mixedcase /\ MixedCaseApplies(p)
             \/ c.host_removespace /\ RemoveSpaceApplies(p)
             \/ c.additional_space /\ AdditionalSpaceApplies(p)
             \/ c.http_fragment /\ FragmentApplies(p)
       \/ /\ ~packet_is_http(p) /\ packet_is_https(p)
          /\ \/ c.https_fragment /\ FragmentApplies(p)
             \/ c.fake_packet /\ InjectFakeApplies(p)

ProcessCrashes(c, p) ==
    /\ ~Skipped(c, p) /\ ~packet_is_http(p) /\ packet_is_https(p)
    /\ c.fake_packet /\ InjectFakeCrashes(p)
=============================================================================
