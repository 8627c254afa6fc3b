----------------------------- MODULE MCInjection -----------------------------
(* Users: two that are not root, one of them in root's group, and root      *)
(* itself; "ghost" is unknown.  The program is started by root or by one    *)
(* of the users.  Three descriptors: two sockets and one file.              *)
EXTENDS Injection

User(uid, gid) == [uid |-> uid, gid |-> gid]
MCPasswd == [u \in {"nobody", "operator", "root"} |->
                IF u = "nobody" THEN User(99, 99)
                ELSE IF u = "operator" THEN User(11, 0) ELSE User(0, 0)]
MCNames == {"", "operator", "root", "ghost"}
MCStarts == {[uid |-> 0, gid |-> 0, groups |-> {0, 4}],
             [uid |-> 7, gid |-> 7, groups |-> {4}]}
MCOriginals == [family : {"ipv4", "ipv6"}, proto : {"tcp", "udp"}, dns : BOOLEAN]
=============================================================================
