------------------------------ MODULE Verdicts -------------------------------
(***************************************************************************)
(* What the program promises the traffic of a host, without netlink, the   *)
(* callback or packet_t: packets that arrive while it serves wait in line; *)
(* the first in line is accepted or given up, never another one, and never *)
(* twice; when the program stops, for whatever reason, the kernel drops    *)
(* what it still holds.  PacketPath implements this.                       *)
(***************************************************************************)
EXTENDS Naturals, Sequences

CONSTANT MaxPackets   \* bound: packets that arrive

VARIABLES
    arrived,   \* number of packets that have arrived
    fate,      \* fate[id]: where packet id is
    line,      \* the ids that wait, in the order they came
    service    \* "new", "serving" or "over"

abstract == <<arrived, fate, line, service>>

Init ==
    /\ arrived = 0
    /\ fate = [id \in 1..MaxPackets |-> "absent"]
    /\ line = <<>>
    /\ service = "new"

Open ==
    /\ service = "new"
    /\ service' = "serving"
    /\ UNCHANGED <<arrived, fate, line>>

(* A packet joins the line, or is dropped: nobody serves, or no room.      *)
Join ==
    /\ service = "serving"
    /\ arrived < MaxPackets
    /\ arrived' = arrived + 1
    /\ fate' = [fate EXCEPT ![arrived + 1] = "queued"]
    /\ line' = Append(line, arrived + 1)
    /\ UNCHANGED service

TurnAway ==
    /\ arrived < MaxPackets
    /\ arrived' = arrived + 1
    /\ fate' = [fate EXCEPT ![arrived + 1] = "dropped"]
    /\ UNCHANGED <<line, service>>

Accept ==
    /\ line # <<>>
    /\ fate[Head(line)] = "queued"
    /\ fate' = [fate EXCEPT ![Head(line)] = "accepted"]
    /\ line' = Tail(line)
    /\ UNCHANGED <<arrived, service>>

(* The kernel keeps a packet that is given up until the service is over.   *)
GiveUp ==
    /\ line # <<>>
    /\ line' = Tail(line)
    /\ UNCHANGED <<arrived, fate, service>>

Close ==
    /\ service = "serving"
    /\ service' = "over"
    /\ line' = <<>>
    /\ fate' = [id \in 1..MaxPackets |->
                   IF fate[id] = "queued" THEN "dropped" ELSE fate[id]]
    /\ UNCHANGED arrived

Next == Open \/ Join \/ TurnAway \/ Accept \/ GiveUp \/ Close

Spec == Init /\ [][Next]_abstract
=============================================================================
