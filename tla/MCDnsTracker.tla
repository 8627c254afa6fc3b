----------------------------- MODULE MCDnsTracker ----------------------------
(* A query and its answer, a packet between two servers (port 53 at both   *)
(* ends), and two packets that are not DNS.  Five entries are enough for   *)
(* doublings that do not help and for ideal chains that reach the limit.   *)
EXTENDS DnsTracker

End(ip, port) == [ip |-> ip, port |-> port]
Pkt(udp, s, d) == [udp |-> udp, src |-> s, dst |-> d]

Client == End(1, 9)
Server == End(2, 53)

MCPackets ==
    {Pkt(TRUE, Client, Server), Pkt(TRUE, Server, Client),
     Pkt(TRUE, End(3, 53), Server),
     Pkt(FALSE, Client, Server), Pkt(TRUE, Client, End(2, 80))}

(* The two keys of packets to the server share a bucket out of two, and    *)
(* no longer out of four; equal keys share one out of any number.          *)
MCHash(k) == k[1].ip + 2 * k[2].ip
=============================================================================
