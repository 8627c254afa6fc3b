----------------------------- MODULE MCTtlTracker ----------------------------
(* Two entries for three connections: an IPv4 one with packets both ways,  *)
(* an IPv6 one whose addresses begin with the same words and which uses    *)
(* the same ports, and another IPv4 one.  One datagram.                    *)
EXTENDS TtlTracker

End(w, rest, port) == [ip |-> <<w, rest>>, port |-> port]
Pkt(v6, tcp, s, d) == [is_ipv6 |-> v6, is_tcp |-> tcp, src |-> s, dst |-> d]

Client == End(1, 0, 5)
Server == End(2, 0, 443)
Client6 == End(1, 7, 5)
Server6 == End(2, 7, 443)

MCPackets ==
    {Pkt(FALSE, TRUE, Client, Server), Pkt(FALSE, TRUE, Server, Client),
     Pkt(TRUE, TRUE, Client6, Server6),
     Pkt(FALSE, TRUE, Client, End(3, 0, 443)),
     Pkt(FALSE, FALSE, Client, Server)}

(* The defaults of config.c, a window high up, and limits that cross.      *)
Auto(t1, t2, lo, hi) == [ttl_1 |-> t1, ttl_2 |-> t2, ttl_min |-> lo, ttl_max |-> hi]
MCAutoTtl == {Auto(1, 4, 3, 10), Auto(100, 40, 1, 255), Auto(70, 64, 20, 10)}
=============================================================================
