----------------------------- MODULE MCConntrack -----------------------------
(* Three slots and five packets: a connection, its reply (same slot), a    *)
(* stranger that collides with it, one in another slot, and a UDP packet   *)
(* with the numbers of the first.                                          *)
EXTENDS Conntrack

Pkt(s, d, sp, dp, t, tcp) ==
    [src_ip |-> s, dst_ip |-> d, src_port |-> sp, dst_port |-> dp,
     ttl |-> t, tcp |-> tcp]

Forward == Pkt(1, 2, 5, 80, 64, TRUE)
Reply == Pkt(2, 1, 80, 5, 50, TRUE)
Collider == Pkt(4, 2, 5, 80, 64, TRUE)
Neighbour == Pkt(1, 3, 5, 80, 64, TRUE)
Datagram == Pkt(1, 2, 5, 80, 64, FALSE)

MCPackets == {Forward, Reply, Collider, Neighbour, Datagram}
=============================================================================
