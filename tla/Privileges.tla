----------------------------- MODULE Privileges ------------------------------
(***************************************************************************)
(* service/privileges.c: who the process is, and how it becomes somebody   *)
(* else.  The three system calls of drop_privileges() can each fail, and   *)
(* each works only while the process is root.                              *)
(***************************************************************************)
EXTENDS Integers

CONSTANTS
    Passwd,   \* the user database: a function from names to [uid, gid]
    Names,    \* what drop_privileges() is asked for; "" stands for no name
    Starts    \* who may start the program: [uid, gid, groups]

ASSUME PrivilegesAssumption ==
    /\ \A u \in DOMAIN Passwd : Passwd[u] \in [uid : Nat, gid : Nat]
    /\ Starts \subseteq [uid : Nat, gid : Nat, groups : SUBSET Nat]

VARIABLES
    start,    \* the identity the program was started with
    ids,      \* the identity it has now; real and effective ids agree
    dropped,  \* original_privs.privilege_dropped
    ret       \* what the last call returned: [call, value]

privVars == <<start, ids, dropped, ret>>

PrivilegesInit ==
    /\ start \in Starts
    /\ ids = start
    /\ dropped = FALSE
    /\ ret = [call |-> "none", value |-> 0]

Returns(c, v) == ret' = [call |-> c, value |-> v]
is_running_as_root == ids.uid = 0

-----------------------------------------------------------------------------
setup_privileges ==
    /\ dropped' = FALSE
    /\ Returns("setup", 0)
    /\ UNCHANGED <<start, ids>>

(* The early returns: dropped already, not root, no such user.             *)
DropNothing(name) ==
    /\ \/ (dropped \/ ~is_running_as_root) /\ Returns("drop", 0)
       \/ /\ ~dropped /\ is_running_as_root
          /\ \/ name # "" /\ name \notin DOMAIN Passwd /\ Returns("drop", -1)
             \/ name = "" /\ "nobody" \notin DOMAIN Passwd /\ Returns("drop", 0)
    /\ UNCHANGED <<start, ids, dropped>>

Target(name) == IF name = "" THEN "nobody" ELSE name

(* A slip: setuid() comes first, and the others then are not permitted.    *)
After_UidFirst(n, pw) ==
    IF n = 0 \/ pw.uid = 0
    THEN [ids EXCEPT !.groups = IF n >= 2 THEN {} ELSE @, !.gid = IF n >= 3 THEN pw.gid ELSE @]
    ELSE [ids EXCEPT !.uid = pw.uid]

(* The identity after the first n of setgroups(), setgid(), setuid().      *)
After(n, pw) ==
    [ids EXCEPT !.groups = IF n >= 1 THEN {} ELSE @,
                !.gid = IF n >= 2 THEN pw.gid ELSE @,
                !.uid = IF n >= 3 THEN pw.uid ELSE @]

(* A slip: the flag is set before the uid is given up.                     *)
DropTo_FlagEarly(name) ==
    /\ ~dropped /\ is_running_as_root /\ Target(name) \in DOMAIN Passwd
    /\ \E n \in 0..3 :
           /\ ids' = After(n, Passwd[Target(name)])
           /\ dropped' = (n >= 2)
           /\ Returns("drop", IF n = 3 THEN 0 ELSE -1)
    /\ UNCHANGED start

(* The calls in their order, up to the first that fails.                   *)
DropTo(name) ==
    /\ ~dropped /\ is_running_as_root /\ Target(name) \in DOMAIN Passwd
    /\ \E n \in 0..3 :
           /\ ids' = After(n, Passwd[Target(name)])
           /\ dropped' = (n = 3)
           /\ Returns("drop", IF n = 3 THEN 0 ELSE -1)
    /\ UNCHANGED start

drop_privileges(name) == DropNothing(name) \/ DropTo(name)

(* Nothing is restored.                                                    *)
restore_privileges ==
    /\ Returns("restore", IF dropped THEN -1 ELSE 0)
    /\ UNCHANGED <<start, ids, dropped>>

-----------------------------------------------------------------------------
Identities == {[uid |-> Passwd[u].uid, gid |-> Passwd[u].gid, groups |-> {}] :
                   u \in DOMAIN Passwd}

PrivilegesTypeOK ==
    /\ start \in Starts
    /\ ids \in [uid : Nat, gid : Nat, groups : SUBSET Nat]
    /\ dropped \in BOOLEAN
    /\ ret.value \in {-1, 0}

(* Whichever of the three calls of drop_privileges() fails, and however    *)
(* often dropping is tried again, for one user or another: a process that  *)
(* is not root any more is one user altogether, with that user's group     *)
(* and no group left of root's, or it never was root.                      *)
NeverHalfDropped ==
    \/ ids.uid = 0
    \/ ids = start
    \/ ids \in Identities

(* What drop_privileges() reports is so: the flag means that all of some   *)
(* user's identity has been taken on, an error that the uid has not        *)
(* changed, so the caller may try again.                                   *)
DropReportsTruth ==
    /\ dropped => ids \in Identities
    /\ ret = [call |-> "drop", value |-> -1] => ids.uid = 0 /\ ~dropped
=============================================================================
