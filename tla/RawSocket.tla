------------------------------ MODULE RawSocket ------------------------------
(***************************************************************************)
(* capture/raw_socket.c: the pair of raw sockets, one for IPv4 and one for *)
(* IPv6, kept in two static variables.  The kernel gives out the lowest    *)
(* free descriptor, so the number of a closed socket soon names something  *)
(* else, such as the log file.                                             *)
(***************************************************************************)
EXTENDS Integers, FiniteSetsExt

CONSTANT
    NumFds   \* descriptors the process may have, its standard ones aside

ASSUME RawSocketAssumption == NumFds \in Nat \ {0}

VARIABLES
    open,                 \* what each descriptor names; "free" when nothing
    raw_socket_fd,        \* -1 when there is none
    raw_socket_ipv6_fd

sockVars == <<open, raw_socket_fd, raw_socket_ipv6_fd>>

Fds == 0..(NumFds - 1)
Kinds == {"free", "ipv4", "ipv6", "file"}

RawSocketInit ==
    /\ open = [f \in Fds |-> "free"]
    /\ raw_socket_fd = -1 /\ raw_socket_ipv6_fd = -1

-----------------------------------------------------------------------------
(* The kernel's descriptor table.                                          *)
FreeFds(o) == {f \in Fds : o[f] = "free"}
Lowest(o) == Min(FreeFds(o))
Opened(o, kind) == [o EXCEPT ![Lowest(o)] = kind]
Closed(o, f) == [o EXCEPT ![f] = "free"]

(* Another part of the program opens or closes a file.                     *)
OtherFile ==
    /\ \/ FreeFds(open) # {} /\ open' = Opened(open, "file")
       \/ \E f \in Fds : open[f] = "file" /\ open' = Closed(open, f)
    /\ UNCHANGED <<raw_socket_fd, raw_socket_ipv6_fd>>

is_raw_socket_ready == raw_socket_fd >= 0 /\ raw_socket_ipv6_fd >= 0

(* The three ways setup_raw_socket() ends.  The first socket is refused:   *)
SetupFailsIPv4 ==
    /\ raw_socket_fd' = -1
    /\ UNCHANGED <<open, raw_socket_ipv6_fd>>

(* A slip: the first socket stays open.                                    *)
SetupFailsIPv6_NoClose ==
    /\ FreeFds(open) # {}
    /\ open' = Opened(open, "ipv4")
    /\ raw_socket_fd' = -1 /\ raw_socket_ipv6_fd' = -1

(* The second socket is refused: the first is closed again.                *)
SetupFailsIPv6 ==
    /\ FreeFds(open) # {}
    /\ open' = Closed(Opened(open, "ipv4"), Lowest(open))
    /\ raw_socket_fd' = -1 /\ raw_socket_ipv6_fd' = -1

(* Both are opened.                                                        *)
SetupSucceeds ==
    LET first == Opened(open, "ipv4") IN
    /\ FreeFds(open) # {} /\ FreeFds(first) # {}
    /\ raw_socket_fd' = Lowest(open)
    /\ raw_socket_ipv6_fd' = Lowest(first)
    /\ open' = Opened(first, "ipv6")

(* A slip: the variables keep the numbers of the closed sockets.           *)
cleanup_raw_socket_NoReset ==
    /\ open' = [f \in Fds |-> IF f \in {raw_socket_fd, raw_socket_ipv6_fd}
                              THEN "free" ELSE open[f]]
    /\ UNCHANGED <<raw_socket_fd, raw_socket_ipv6_fd>>

cleanup_raw_socket ==
    /\ open' = [f \in Fds |-> IF f \in {raw_socket_fd, raw_socket_ipv6_fd}
                              THEN "free" ELSE open[f]]
    /\ raw_socket_fd' = -1 /\ raw_socket_ipv6_fd' = -1

(* The descriptor send_raw_packet() and receive_raw_packet() use.          *)
FdFor(family) == IF family = "ipv6" THEN raw_socket_ipv6_fd ELSE raw_socket_fd

-----------------------------------------------------------------------------
RawSocketTypeOK ==
    /\ open \in [Fds -> Kinds]
    /\ raw_socket_fd \in Fds \union {-1} /\ raw_socket_ipv6_fd \in Fds \union {-1}

(* However openings fail, sockets are closed and opened again and other    *)
(* files come and go: the two variables name exactly the raw sockets the   *)
(* process has, each of its family, and there are both or none.            *)
SocketsAreOwned ==
    /\ \A family \in {"ipv4", "ipv6"} :
           {f \in Fds : open[f] = family} = {FdFor(family)} \ {-1}
    /\ raw_socket_fd = -1 <=> raw_socket_ipv6_fd = -1
=============================================================================
