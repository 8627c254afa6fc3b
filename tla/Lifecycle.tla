------------------------------ MODULE Lifecycle ------------------------------
(***************************************************************************)
(* The life of goodbyedpi processes on one host: main() from its start to  *)
(* its return, with the state the processes share.  The shared state is    *)
(* the iptables rules (each command can add or delete ONE copy of a rule), *)
(* the PID file and the NFQUEUE numbers bound in the kernel.  Instances    *)
(* interleave at every system call that touches that state; any of them    *)
(* may be signalled or killed between two calls, and started again.        *)
(***************************************************************************)
EXTENDS Naturals, FiniteSets

CONSTANTS
    Instances,  \* places where the program can be started (a unit, a shell)
    NRules,     \* rules set up by one start; the code has four
    Configs,    \* [queue, daemon, verbose]: the options main() depends on
    Faults,     \* environment faults that may happen, a subset of AllFaults
    MaxStarts,  \* bound: how many times the program is started
    MaxKills,   \* bound: how many times an instance is killed
    MaxFailed   \* bound: how many iptables -D commands fail

AllFaults == {"pidfile", "fork", "insert", "killed", "delete", "nfq", "recv"}

ASSUME LifecycleAssumption ==
    /\ IsFiniteSet(Instances)
    /\ NRules \in Nat \ {0}
    /\ Configs \subseteq [queue : Nat, daemon : BOOLEAN, verbose : BOOLEAN]
    /\ Faults \subseteq AllFaults
    /\ MaxStarts \in Nat
    /\ MaxKills \in Nat
    /\ MaxFailed \in Nat

VARIABLES
    rules,    \* rules[r]: copies of rule r in the kernel's chains
    pidfile,  \* the PID written in the PID file, NoPid if there is no file
    bound,    \* bound[i]: i holds the NFQUEUE number of its configuration
    pc,       \* pc[i]: where main() of i is, "off" when no process runs
    at,       \* at[i]: the rule the current iptables command is about
    running,  \* running[i]: the flag cleared by the signal handler
    pid,      \* pid[i]: PID of the process that runs
    cfg,      \* cfg[i]: its configuration
    rc,       \* rc[i]: the value main() is going to return
    exit,     \* exit[i]: how the last process of i ended
    starts,   \* number of starts so far
    kills,    \* number of kills so far
    failed    \* number of iptables -D commands that did not do their work

shared == <<rules, pidfile, bound>>
local == <<at, running, pid, cfg, rc, exit>>
vars == <<rules, pidfile, bound, pc, at, running, pid, cfg, rc, exit,
          starts, kills, failed>>

NoPid == 0
Rules == 1..NRules
RuleQueue == 0      \* every rule says --queue-num 0
MainLoop == {"loop", "call", "recv", "err"}
PCs == {"off", "create_pid", "daemonize", "del", "ins", "init", "shutdown",
        "clean", "rm_pid", "log_stop"} \cup MainLoop

TypeOK ==
    /\ rules \in [Rules -> Nat]
    /\ pidfile \in Nat
    /\ bound \in [Instances -> BOOLEAN]
    /\ pc \in [Instances -> PCs]
    /\ at \in [Instances -> Rules]
    /\ running \in [Instances -> BOOLEAN]
    /\ pid \in [Instances -> Nat]
    /\ cfg \in [Instances -> Configs]
    /\ rc \in [Instances -> {"success", "failure"}]
    /\ exit \in [Instances -> {"none", "success", "failure", "killed", "segv"}]
    /\ starts \in Nat
    /\ kills \in Nat
    /\ failed \in Nat

Init ==
    /\ rules = [r \in Rules |-> 0]
    /\ pidfile = NoPid
    /\ bound = [i \in Instances |-> FALSE]
    /\ pc = [i \in Instances |-> "off"]
    /\ at = [i \in Instances |-> 1]
    /\ running = [i \in Instances |-> FALSE]
    /\ pid = [i \in Instances |-> NoPid]
    /\ cfg \in [Instances -> Configs]
    /\ rc = [i \in Instances |-> "success"]
    /\ exit = [i \in Instances |-> "none"]
    /\ starts = 0
    /\ kills = 0
    /\ failed = 0

-----------------------------------------------------------------------------
(* Pieces of steps.                                                        *)

Goto(i, l) == pc' = [pc EXCEPT ![i] = l]
Fails(i) == rc' = [rc EXCEPT ![i] = "failure"]

(* iptables -D removes one copy of the rule, and fails when there is none; *)
(* the exit status is ignored.                                             *)
IptablesDelete(r) ==
    \/ /\ rules' = [rules EXCEPT ![r] = IF @ > 0 THEN @ - 1 ELSE 0]
       /\ UNCHANGED failed
    \/ /\ "delete" \in Faults /\ failed < MaxFailed
       /\ failed' = failed + 1
       /\ UNCHANGED rules

(* The next rule of a list of commands, or the code after the list.        *)
NextRule(i, after) ==
    \/ /\ at[i] < NRules
       /\ at' = [at EXCEPT ![i] = @ + 1]
       /\ UNCHANGED pc
    \/ /\ at[i] = NRules
       /\ at' = [at EXCEPT ![i] = 1]
       /\ Goto(i, after)

-----------------------------------------------------------------------------
(* Start-up.                                                               *)

(* Everything before the PID file: it touches no shared state, so a start  *)
(* that fails there leaves no trace and is not a step.  Two PIDs are set   *)
(* aside for the process and the child daemonize() may fork.               *)
Start(i) ==
    /\ pc[i] = "off"
    /\ starts < MaxStarts
    /\ starts' = starts + 1
    /\ \E c \in Configs : cfg' = [cfg EXCEPT ![i] = c]
    /\ pid' = [pid EXCEPT ![i] = 2 * starts + 1]
    /\ running' = [running EXCEPT ![i] = TRUE]
    /\ rc' = [rc EXCEPT ![i] = "success"]
    /\ exit' = [exit EXCEPT ![i] = "none"]
    /\ at' = [at EXCEPT ![i] = 1]
    /\ Goto(i, "create_pid")
    /\ UNCHANGED <<shared, kills, failed>>

create_pid_file(i) ==
    /\ pc[i] = "create_pid"
    /\ \/ /\ pidfile' = pid[i]
          /\ Goto(i, "daemonize")
          /\ UNCHANGED exit
       \/ /\ "pidfile" \in Faults
          /\ Goto(i, "off")
          /\ exit' = [exit EXCEPT ![i] = "failure"]
          /\ UNCHANGED pidfile
    /\ UNCHANGED <<rules, bound, at, running, pid, cfg, rc, starts, kills, failed>>

(* A slip: daemonize() is called without looking at the option.            *)
daemonize_Always(i) ==
    /\ pc[i] = "daemonize"
    /\ pid' = [pid EXCEPT ![i] = @ + 1]
    /\ Goto(i, "del")
    /\ UNCHANGED <<shared, at, running, cfg, rc, exit, starts, kills, failed>>

(* fork(): the parent exits, the child goes on under a PID of its own.     *)
daemonize(i) ==
    /\ pc[i] = "daemonize"
    /\ \/ /\ ~cfg[i].daemon
          /\ Goto(i, "del")
          /\ UNCHANGED <<pid, rc>>
       \/ /\ cfg[i].daemon
          /\ pid' = [pid EXCEPT ![i] = @ + 1]
          /\ Goto(i, "del")
          /\ UNCHANGED rc
       \/ /\ cfg[i].daemon
          /\ "fork" \in Faults
          /\ Fails(i)
          /\ Goto(i, "rm_pid")
          /\ UNCHANGED pid
    /\ UNCHANGED <<shared, at, running, cfg, exit, starts, kills, failed>>

(* A slip: rules are inserted without deleting the ones that exist.        *)
SetupDelete_Skipped(i) ==
    /\ pc[i] = "del"
    /\ NextRule(i, "ins")
    /\ UNCHANGED <<shared, running, pid, cfg, rc, exit, starts, kills, failed>>

(* setup_firewall_rules(), first half: delete what an earlier run left.    *)
SetupDelete(i) ==
    /\ pc[i] = "del"
    /\ IptablesDelete(at[i])
    /\ NextRule(i, "ins")
    /\ UNCHANGED <<pidfile, bound, running, pid, cfg, rc, exit, starts, kills>>

(* A slip in the error path: return without cleanup_firewall_rules().      *)
SetupInsert_NoCleanup(i) ==
    /\ pc[i] = "ins"
    /\ \/ /\ rules' = [rules EXCEPT ![at[i]] = @ + 1]
          /\ NextRule(i, "init")
          /\ UNCHANGED rc
       \/ /\ "insert" \in Faults
          /\ Fails(i)
          /\ Goto(i, "rm_pid")
          /\ at' = [at EXCEPT ![i] = 1]
          /\ UNCHANGED rules
    /\ UNCHANGED <<pidfile, bound, running, pid, cfg, exit, starts, kills, failed>>

(* A slip in main(): return without remove_pid_file().                     *)
SetupInsert_Returns(i) ==
    /\ pc[i] = "ins"
    /\ \/ /\ rules' = [rules EXCEPT ![at[i]] = @ + 1]
          /\ NextRule(i, "init")
          /\ UNCHANGED exit
       \/ /\ "insert" \in Faults /\ at[i] = 1
          /\ Goto(i, "off")
          /\ exit' = [exit EXCEPT ![i] = "failure"]
          /\ UNCHANGED <<rules, at>>
    /\ UNCHANGED <<pidfile, bound, running, pid, cfg, rc, starts, kills, failed>>

(* setup_firewall_rules(), second half.  execute_command() returns -1 only *)
(* when system() fails or iptables exits with a status other than 0; an    *)
(* iptables killed by a signal counts as done.  The failure of the first   *)
(* rule returns at once, that of a later one cleans up first.              *)
SetupInsert(i) ==
    /\ pc[i] = "ins"
    /\ \/ /\ rules' = [rules EXCEPT ![at[i]] = @ + 1]
          /\ NextRule(i, "init")
          /\ UNCHANGED rc
       \/ /\ "killed" \in Faults
          /\ NextRule(i, "init")
          /\ UNCHANGED <<rules, rc>>
       \/ /\ "insert" \in Faults
          /\ Fails(i)
          /\ Goto(i, IF at[i] = 1 THEN "rm_pid" ELSE "clean")
          /\ at' = [at EXCEPT ![i] = 1]
          /\ UNCHANGED rules
    /\ UNCHANGED <<pidfile, bound, running, pid, cfg, exit, starts, kills, failed>>

(* The kernel gives a queue number to one socket at a time, and takes it   *)
(* back when the socket is closed, by the program or by its death.         *)
QueueFree(q) == \A j \in Instances : ~(bound[j] /\ cfg[j].queue = q)

netfilter_init(i) ==
    /\ pc[i] = "init"
    /\ \/ /\ QueueFree(cfg[i].queue)
          /\ bound' = [bound EXCEPT ![i] = TRUE]
          /\ Goto(i, "loop")
          /\ UNCHANGED rc
       \/ /\ ~QueueFree(cfg[i].queue) \/ "nfq" \in Faults
          /\ Fails(i)
          /\ Goto(i, "clean")
          /\ UNCHANGED bound
    /\ UNCHANGED <<rules, pidfile, at, running, pid, cfg, exit, starts, kills, failed>>

-----------------------------------------------------------------------------
(* The main loop.  What is done with a packet is in PacketPath.            *)

(* A slip: while (1), the flag being read after an error only.             *)
LoopTest_Forever(i) ==
    /\ pc[i] = "loop"
    /\ Goto(i, "call")
    /\ UNCHANGED <<shared, local, starts, kills, failed>>

(* while (is_running()): the flag is read here ...                         *)
LoopTest(i) ==
    /\ pc[i] = "loop"
    /\ Goto(i, IF running[i] THEN "call" ELSE "shutdown")
    /\ UNCHANGED <<shared, local, starts, kills, failed>>

(* ... and recv() blocks a moment later: a signal in between only clears   *)
(* the flag, and interrupts nothing.                                       *)
RecvBlocks(i) ==
    /\ pc[i] = "call"
    /\ Goto(i, "recv")
    /\ UNCHANGED <<shared, local, starts, kills, failed>>

(* recv() returns with a packet, which needs a rule that sends packets to  *)
(* the queue this instance reads.                                          *)
Traffic(i) ==
    /\ pc[i] = "recv"
    /\ cfg[i].queue = RuleQueue
    /\ \E r \in Rules : rules[r] > 0
    /\ Goto(i, "loop")
    /\ UNCHANGED <<shared, local, starts, kills, failed>>

(* recv() or the handling of the packet fails for a reason of its own.     *)
RecvFails(i) ==
    /\ pc[i] = "recv"
    /\ "recv" \in Faults
    /\ Goto(i, "err")
    /\ UNCHANGED <<shared, local, starts, kills, failed>>

LoopError(i) ==
    /\ pc[i] = "err"
    /\ Goto(i, IF running[i] THEN "loop" ELSE "shutdown")
    /\ UNCHANGED <<shared, local, starts, kills, failed>>

-----------------------------------------------------------------------------
(* The way out.                                                            *)

netfilter_cleanup(i) ==
    /\ pc[i] = "shutdown"
    /\ bound' = [bound EXCEPT ![i] = FALSE]
    /\ Goto(i, "clean")
    /\ UNCHANGED <<rules, pidfile, local, starts, kills, failed>>

(* An off-by-one: the last rule is never deleted.                          *)
cleanup_firewall_rules_OffByOne(i) ==
    /\ pc[i] = "clean"
    /\ IF at[i] < NRules THEN IptablesDelete(at[i]) ELSE UNCHANGED <<rules, failed>>
    /\ NextRule(i, "rm_pid")
    /\ UNCHANGED <<pidfile, bound, running, pid, cfg, rc, exit, starts, kills>>

cleanup_firewall_rules(i) ==
    /\ pc[i] = "clean"
    /\ IptablesDelete(at[i])
    /\ NextRule(i, "rm_pid")
    /\ UNCHANGED <<pidfile, bound, running, pid, cfg, rc, exit, starts, kills>>

(* unlink() does not look at what the file says.                           *)
remove_pid_file(i) ==
    /\ pc[i] = "rm_pid"
    /\ pidfile' = NoPid
    /\ \/ /\ rc[i] = "success"
          /\ Goto(i, "log_stop")
          /\ UNCHANGED exit
       \/ /\ rc[i] = "failure"
          /\ Goto(i, "off")
          /\ exit' = [exit EXCEPT ![i] = "failure"]
    /\ UNCHANGED <<rules, bound, at, running, pid, cfg, rc, starts, kills, failed>>

(* logging_cleanup() closes the log file and main() logs once more.  At a  *)
(* level that lets log_info() through, and without --syslog, log_message() *)
(* then hands fprintf() a null FILE pointer: it may survive or die of it.  *)
LogStopped(i) ==
    /\ pc[i] = "log_stop"
    /\ \/ exit' = [exit EXCEPT ![i] = "success"]
       \/ cfg[i].verbose /\ exit' = [exit EXCEPT ![i] = "segv"]
    /\ Goto(i, "off")
    /\ UNCHANGED <<shared, at, running, pid, cfg, rc, starts, kills, failed>>

-----------------------------------------------------------------------------
(* What others do to an instance.                                          *)

(* SIGTERM, or SIGINT outside system(), which ignores it.  sa_flags is 0,  *)
(* so a blocked recv() fails with EINTR.                                   *)
signal_handler(i) ==
    /\ pc[i] # "off"
    /\ running' = [running EXCEPT ![i] = FALSE]
    /\ Goto(i, IF pc[i] = "recv" THEN "err" ELSE pc[i])
    /\ UNCHANGED <<shared, at, pid, cfg, rc, exit, starts, kills, failed>>

(* SIGKILL or a crash: the kernel closes the queue, rules and file stay.   *)
Kill(i) ==
    /\ pc[i] # "off"
    /\ kills < MaxKills
    /\ kills' = kills + 1
    /\ Goto(i, "off")
    /\ bound' = [bound EXCEPT ![i] = FALSE]
    /\ exit' = [exit EXCEPT ![i] = "killed"]
    /\ UNCHANGED <<rules, pidfile, at, running, pid, cfg, rc, starts, failed>>

-----------------------------------------------------------------------------
(* The steps main() takes by itself; only recv() waits for someone else.   *)
Step(i) ==
    \/ create_pid_file(i) \/ daemonize(i) \/ SetupDelete(i) \/ SetupInsert(i)
    \/ netfilter_init(i) \/ LoopTest(i) \/ RecvBlocks(i) \/ LoopError(i)
    \/ netfilter_cleanup(i) \/ cleanup_firewall_rules(i) \/ remove_pid_file(i)
    \/ LogStopped(i)

Next ==
    \E i \in Instances :
        \/ Start(i) \/ Step(i) \/ Traffic(i) \/ RecvFails(i)
        \/ signal_handler(i) \/ Kill(i)

Spec == Init /\ [][Next]_vars

(* A process that is not blocked is scheduled.                             *)
Scheduled == \A i \in Instances : WF_vars(Step(i))

(* Web traffic keeps coming to a queue that rules feed.                    *)
BusyHost == \A i \in Instances : WF_vars(Traffic(i))

FairSpec == Spec /\ Scheduled
BusySpec == Spec /\ Scheduled /\ BusyHost

-----------------------------------------------------------------------------
(* Properties of any number of instances.                                  *)

(* The starts that have deleted rule r and have not inserted it yet.       *)
Pending(r) ==
    {i \in Instances : \/ pc[i] = "del" /\ at[i] > r
                       \/ pc[i] = "ins" /\ at[i] <= r}

(* Crashes do not pile rules up: however often instances are killed and    *)
(* started again (Restart=always in the unit), there are never more copies *)
(* of a rule than places that run the program, because every start deletes *)
(* a copy before it inserts one.  A deletion that fails, which the code    *)
(* does not notice, leaves at most one more.                               *)
RulesDoNotPileUp == \A r \in Rules : rules[r] <= Cardinality(Instances) + failed

(* The strengthening of RulesDoNotPileUp: an insertion to come is counted. *)
PileUpInv ==
    \A r \in Rules :
        rules[r] + Cardinality(Pending(r)) <= Cardinality(Instances) + failed

(* The instances that will still run cleanup_firewall_rules() on rule r    *)
(* after having reached the command that inserts it.                       *)
Holders(r) ==
    {i \in Instances : \/ pc[i] = "ins" /\ at[i] > r
                       \/ pc[i] \in {"init", "shutdown"} \cup MainLoop
                       \/ pc[i] = "clean" /\ at[i] <= r}

(* Without a kill, every copy of a rule is some live instance's to delete, *)
(* but for one per deletion that failed.                                   *)
RulesAreHeld ==
    kills = 0 => \A r \in Rules : rules[r] <= Cardinality(Holders(r)) + failed

(* Without a kill, when every instance has ended, well or badly and at     *)
(* whatever point of its start, the chains are as they were before, but    *)
(* for one copy per deletion that failed: the error paths of main() and    *)
(* setup_firewall_rules() forget no rule.                                  *)
NoRuleOutlivesTheProgram ==
    kills = 0 /\ (\A i \in Instances : pc[i] = "off") =>
        \A r \in Rules : rules[r] <= failed

(* The same of the PID file, which instances overwrite and remove without  *)
(* looking at what it says: without a kill, when every instance has ended, *)
(* on whichever path, there is none.                                       *)
NoPidFileOutlivesTheProgram ==
    kills = 0 /\ (\A i \in Instances : pc[i] = "off") => pidfile = NoPid

-----------------------------------------------------------------------------
(* Properties of one instance that has the host to itself.                 *)

(* While packets are processed each rule is there, and exactly once unless *)
(* a deletion failed, also when earlier runs were killed half-way through  *)
(* their set-up or clean-up.                                               *)
RulesInPlace ==
    \A i \in Instances :
        pc[i] \in MainLoop => \A r \in Rules : rules[r] \in 1 .. 1 + failed

(* A main() that ran to its end leaves no PID file and no rule but those   *)
(* whose deletion failed, also when an earlier, killed run had left some.  *)
NormalExitLeavesNothing ==
    \A i \in Instances :
        pc[i] = "off" /\ exit[i] \in {"success", "segv"} =>
            pidfile = NoPid /\ \A r \in Rules : rules[r] <= failed

(* In the foreground the PID file names the process that is running, from  *)
(* the first iptables command to the last.                                 *)
ForegroundPidFile ==
    \A i \in Instances :
        pc[i] \in {"del", "ins", "init", "shutdown", "clean"} \cup MainLoop
        /\ ~cfg[i].daemon => pidfile = pid[i]

(* A stop that was asked for happens.                                      *)
StopsWhenAsked ==
    \A i \in Instances : (pc[i] # "off" /\ ~running[i]) ~> (pc[i] = "off")

-----------------------------------------------------------------------------
(* What the usage text says and the code does not do.                      *)

(* main.c:199: "--queue-num NUM  NFQUEUE number".  The queue an instance   *)
(* reads is the one its rules send packets to: it can receive traffic.     *)
ConfiguredQueueIsFed ==
    \A i \in Instances :
        pc[i] = "recv" /\ (\A r \in Rules : rules[r] > 0)
            => \E j \in Instances : bound[j] /\ cfg[j].queue = RuleQueue
=============================================================================
