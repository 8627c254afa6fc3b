------------------------------ MODULE Injection ------------------------------
(***************************************************************************)
(* evasion/fake_packets.c on top of capture/raw_socket.c and service/      *)
(* privileges.c: a process that opens raw sockets, gives up its privileges *)
(* at some point, and injects fake packets through the sockets it has.     *)
(* The interface of the three files is called in any order, but for        *)
(* setup_raw_socket(): see there.                                          *)
(***************************************************************************)
EXTENDS Privileges, RawSocket

CONSTANTS
    Originals,     \* packets: [family, proto, dns]
    fake_packet    \* config.fake_packet

ASSUME InjectionAssumption ==
    /\ Originals \subseteq [family : {"ipv4", "ipv6"}, proto : {"tcp", "udp"}, dns : BOOLEAN]
    /\ fake_packet \in BOOLEAN

VARIABLE
    sent   \* the fake packets sent: their family and what they went through

vars == <<privVars, sockVars, sent>>

Init == PrivilegesInit /\ RawSocketInit /\ sent = {}

-----------------------------------------------------------------------------
(* The operations of privileges.c.                                         *)
Identity ==
    /\ \/ setup_privileges \/ restore_privileges
       \/ \E name \in Names : drop_privileges(name)
    /\ UNCHANGED <<sockVars, sent>>

(* A socket of each family is opened and closed again to see whether that  *)
(* is permitted: the kernel may refuse, and does when not asked by root.   *)
has_network_capabilities(yes) == yes => is_running_as_root /\ FreeFds(open) # {}

(* files: the PID and the log file can be written.                         *)
validate_privileges ==
    /\ \E network, files \in BOOLEAN :
           /\ has_network_capabilities(network)
           /\ Returns("validate", IF network /\ files THEN 0 ELSE -1)
    /\ UNCHANGED <<start, ids, dropped, sockVars, sent>>

(* setup_raw_socket().  The guard is an assumption about the caller, not a *)
(* test in the code, which would overwrite the numbers of two open sockets *)
(* if it were called again before cleanup_raw_socket().  The kernel        *)
(* refuses a process that is not root, and may refuse any.                 *)
setup_raw_socket ==
    /\ ~is_raw_socket_ready
    /\ \/ SetupFailsIPv4 /\ Returns("open", -1)
       \/ is_running_as_root /\ SetupFailsIPv6 /\ Returns("open", -1)
       \/ is_running_as_root /\ SetupSucceeds /\ Returns("open", 0)
    /\ UNCHANGED <<start, ids, dropped, sent>>

Cleanup == cleanup_raw_socket /\ UNCHANGED <<privVars, sent>>
Other == OtherFile /\ UNCHANGED <<privVars, sent>>

-----------------------------------------------------------------------------
(* Without a socket nothing is sent; with one, the kernel may refuse.      *)
send_raw_packet(p) ==
    \/ /\ FdFor(p.family) >= 0
       /\ sent' = sent \union {[family |-> p.family, via |-> open[FdFor(p.family)]]}
       /\ Returns("inject", 0)
    \/ Returns("inject", -1) /\ UNCHANGED sent

(* A reset for TCP, when configured, and an answer for DNS are forged and  *)
(* sent; of others, and when there is no memory, nothing is.               *)
Forged(p) == (p.proto = "tcp" /\ fake_packet) \/ (p.proto = "udp" /\ p.dns)

evasion_inject_fake_packet(p) ==
    /\ \/ Forged(p) /\ send_raw_packet(p)
       \/ Returns("inject", -1) /\ UNCHANGED sent
    /\ UNCHANGED <<start, ids, dropped, sockVars>>

(* A reset, whatever the packet is.                                        *)
send_fake_packet_with_ttl(p) ==
    /\ send_raw_packet(p) \/ (Returns("inject", -1) /\ UNCHANGED sent)
    /\ UNCHANGED <<start, ids, dropped, sockVars>>

Next ==
    \/ Identity \/ validate_privileges
    \/ setup_raw_socket \/ Cleanup \/ Other
    \/ \E p \in Originals : evasion_inject_fake_packet(p) \/ send_fake_packet_with_ttl(p)

Spec == Init /\ [][Next]_vars

-----------------------------------------------------------------------------
TypeOK ==
    /\ PrivilegesTypeOK /\ RawSocketTypeOK
    /\ sent \subseteq [family : {"ipv4", "ipv6"}, via : Kinds]

(* Whatever descriptors have been closed and given out again, a fake       *)
(* packet leaves through the raw socket of its own family: it is never     *)
(* written into a file, nor sent on the other socket.                      *)
SentThroughItsSocket == \A s \in sent : s.via = s.family
=============================================================================
