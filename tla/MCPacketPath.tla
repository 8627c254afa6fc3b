---------------------------- MODULE MCPacketPath -----------------------------
(* PacketPath with a queue of two packets, a socket that may overflow from *)
(* its second message on and packets of each kind the code tells apart.    *)
EXTENDS PacketPath

Tcp(dst, load) ==
    [fits |-> TRUE, len |-> "whole", version |-> 4, proto |-> "tcp",
     dst |-> dst, load |-> load, host |-> NoHost, long |-> FALSE]
Host(spaces, value) == [spaces |-> spaces, value |-> value, found |-> TRUE]

Request == [Tcp(80, "method") EXCEPT !.host = Host(1, TRUE)]
TightRequest == [Tcp(80, "method") EXCEPT !.host = Host(0, TRUE)]
LongRequest == [Request EXCEPT !.long = TRUE]
Hello == Tcp(443, "data")
Ack == Tcp(443, "none")
Jumbo == [Hello EXCEPT !.fits = FALSE]
Runt == [Ack EXCEPT !.len = "below_transport"]
Quic == [Tcp(443, "data") EXCEPT !.proto = "udp"]
V6 == [Hello EXCEPT !.version = 6]

WebTraffic == {Request, TightRequest, LongRequest, Hello, Ack, Jumbo, Runt,
               Quic, V6}

Plain == [host_mixedcase |-> FALSE, host_removespace |-> FALSE,
          additional_space |-> FALSE, http_fragment |-> FALSE,
          https_fragment |-> FALSE, fake_packet |-> FALSE, max_payload |-> FALSE]
HostTricks == [Plain EXCEPT !.host_mixedcase = TRUE, !.host_removespace = TRUE,
                            !.max_payload = TRUE]
Spaced == [Plain EXCEPT !.host_removespace = TRUE, !.additional_space = TRUE]
Fragments == [Plain EXCEPT !.http_fragment = TRUE, !.https_fragment = TRUE,
                           !.fake_packet = TRUE, !.max_payload = TRUE]
SomeOptions == {HostTricks, Spaced, Fragments}
AllFaults == {"malloc", "sendmsg"}
NoFaults == {}
=============================================================================
