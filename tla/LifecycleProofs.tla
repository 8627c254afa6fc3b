--------------------------- MODULE LifecycleProofs ---------------------------
(* Proofs about Lifecycle, for any finite set of instances, any number of  *)
(* rules, any set of configurations and any bounds.                        *)
EXTENDS Lifecycle, FiniteSetTheorems, TLAPS

(* A command list keeps its counter among the rules.                       *)
LEMMA NextRuleType ==
    ASSUME TypeOK, NEW i \in Instances, NEW l \in PCs, NextRule(i, l)
    PROVE  at' \in [Instances -> Rules] /\ pc' \in [Instances -> PCs]
<1> USE LifecycleAssumption DEF TypeOK, Rules
<1>1. CASE at[i] < NRules /\ at' = [at EXCEPT ![i] = @ + 1] /\ UNCHANGED pc
    BY <1>1
<1>2. CASE at' = [at EXCEPT ![i] = 1] /\ Goto(i, l)
    BY <1>2 DEF Goto
<1>3. QED
    BY <1>1, <1>2, Zenon DEF NextRule

(* Deleting a rule that is not there leaves a count of zero.               *)
LEMMA IptablesDeleteType ==
    ASSUME TypeOK, NEW r \in Rules, IptablesDelete(r)
    PROVE  rules' \in [Rules -> Nat] /\ failed' \in Nat
BY DEF TypeOK, IptablesDelete

(* iptables -D never adds a copy of any rule.                              *)
LEMMA IptablesDeleteShrinks ==
    ASSUME TypeOK, NEW k \in Rules, NEW r \in Rules, IptablesDelete(k)
    PROVE  rules'[r] <= rules[r]
<1>1. rules \in [Rules -> Nat]
    BY Zenon DEF TypeOK
<1>2. CASE rules' = [rules EXCEPT ![k] = IF @ > 0 THEN @ - 1 ELSE 0]
    <2>1. CASE r = k
        BY <1>1, <1>2, <2>1
    <2>2. CASE r # k
        BY <1>1, <1>2, <2>2
    <2>3. QED
        BY <2>1, <2>2, Zenon
<1>3. CASE rules' = rules
    BY <1>1, <1>3
<1>4. QED
    BY <1>2, <1>3, Zenon DEF IptablesDelete

(* Every step of the model keeps every variable in its type.               *)
LEMMA TypeInductive == TypeOK /\ [Next]_vars => TypeOK'
<1> SUFFICES ASSUME TypeOK, [Next]_vars PROVE TypeOK'
    BY Zenon
<1> USE LifecycleAssumption DEF TypeOK, Rules, Goto, Fails, shared, local, NoPid,
        PCs, MainLoop
<1>1. CASE UNCHANGED vars
    BY <1>1, Zenon DEF vars
<1>2. ASSUME NEW i \in Instances, Start(i) PROVE TypeOK'
    BY <1>2 DEF Start
<1>3. ASSUME NEW i \in Instances, create_pid_file(i) PROVE TypeOK'
    <2>1. CASE pidfile' = pid[i] /\ Goto(i, "daemonize") /\ UNCHANGED exit
        BY <1>3, <2>1, Zenon DEF create_pid_file
    <2>2. CASE /\ Goto(i, "off") /\ UNCHANGED pidfile
               /\ exit' = [exit EXCEPT ![i] = "failure"]
        BY <1>3, <2>2, Zenon DEF create_pid_file
    <2>3. QED
        BY <1>3, <2>1, <2>2, Zenon DEF create_pid_file
<1>4. ASSUME NEW i \in Instances, daemonize(i) PROVE TypeOK'
    <2>1. CASE UNCHANGED <<pid, rc>> /\ Goto(i, "del")
        BY <1>4, <2>1, Zenon DEF daemonize
    <2>2. CASE pid' = [pid EXCEPT ![i] = @ + 1] /\ UNCHANGED rc /\ Goto(i, "del")
        BY <1>4, <2>2, SMTT(30) DEF daemonize
    <2>3. CASE Fails(i) /\ UNCHANGED pid /\ Goto(i, "rm_pid")
        BY <1>4, <2>3, Zenon DEF daemonize
    <2>4. QED
        BY <1>4, <2>1, <2>2, <2>3, Zenon DEF daemonize
<1>5. ASSUME NEW i \in Instances, SetupDelete(i) PROVE TypeOK'
    <2>1. rules' \in [Rules -> Nat] /\ failed' \in Nat
        BY <1>5, IptablesDeleteType, Zenon DEF SetupDelete
    <2>2. at' \in [Instances -> Rules] /\ pc' \in [Instances -> PCs]
        BY <1>5, NextRuleType, "ins" \in PCs, Zenon DEF SetupDelete
    <2>3. QED
        BY <1>5, <2>1, <2>2, Zenon DEF SetupDelete
<1>6. ASSUME NEW i \in Instances, SetupInsert(i) PROVE TypeOK'
    <2>1. CASE rules' = [rules EXCEPT ![at[i]] = @ + 1] /\ UNCHANGED rc
               /\ NextRule(i, "init")
        <3>1. at' \in [Instances -> Rules] /\ pc' \in [Instances -> PCs]
            BY <2>1, NextRuleType, "init" \in PCs, Zenon
        <3>2. QED
            BY <1>6, <2>1, <3>1, SMTT(30) DEF SetupInsert
    <2>2. CASE UNCHANGED <<rules, rc>> /\ NextRule(i, "init")
        <3>1. at' \in [Instances -> Rules] /\ pc' \in [Instances -> PCs]
            BY <2>2, NextRuleType, "init" \in PCs, Zenon
        <3>2. QED
            BY <1>6, <2>2, <3>1, Zenon DEF SetupInsert
    <2>3. CASE /\ Fails(i) /\ Goto(i, IF at[i] = 1 THEN "rm_pid" ELSE "clean")
               /\ at' = [at EXCEPT ![i] = 1] /\ UNCHANGED rules
        BY <1>6, <2>3 DEF SetupInsert
    <2>4. QED
        BY <1>6, <2>1, <2>2, <2>3, Zenon DEF SetupInsert
<1>7. ASSUME NEW i \in Instances, netfilter_init(i) PROVE TypeOK'
    BY <1>7, Zenon DEF netfilter_init
<1>8. ASSUME NEW i \in Instances, LoopTest(i) \/ RecvBlocks(i) \/ LoopError(i)
      PROVE TypeOK'
    BY <1>8, Zenon DEF LoopTest, RecvBlocks, LoopError
<1>9. ASSUME NEW i \in Instances, Traffic(i) \/ RecvFails(i) PROVE TypeOK'
    BY <1>9, Zenon DEF Traffic, RecvFails
<1>10. ASSUME NEW i \in Instances, netfilter_cleanup(i) PROVE TypeOK'
    BY <1>10, Zenon DEF netfilter_cleanup
<1>11. ASSUME NEW i \in Instances, cleanup_firewall_rules(i) PROVE TypeOK'
    <2>1. rules' \in [Rules -> Nat] /\ failed' \in Nat
        BY <1>11, IptablesDeleteType, Zenon DEF cleanup_firewall_rules
    <2>2. at' \in [Instances -> Rules] /\ pc' \in [Instances -> PCs]
        BY <1>11, NextRuleType, "rm_pid" \in PCs, Zenon DEF cleanup_firewall_rules
    <2>3. QED
        BY <1>11, <2>1, <2>2, Zenon DEF cleanup_firewall_rules
<1>12. ASSUME NEW i \in Instances, remove_pid_file(i) PROVE TypeOK'
    BY <1>12, Zenon DEF remove_pid_file
<1>13. ASSUME NEW i \in Instances, LogStopped(i) PROVE TypeOK'
    BY <1>13, Zenon DEF LogStopped
<1>14. ASSUME NEW i \in Instances, signal_handler(i) PROVE TypeOK'
    BY <1>14, Zenon DEF signal_handler
<1>15. ASSUME NEW i \in Instances, Kill(i) PROVE TypeOK'
    BY <1>15, SMTT(30) DEF Kill
<1>16. QED
    BY <1>1, <1>2, <1>3, <1>4, <1>5, <1>6, <1>7, <1>8, <1>9, <1>10, <1>11,
       <1>12, <1>13, <1>14, <1>15, Zenon DEF Next, Step

(* The state of the program always has its type.                           *)
THEOREM TypeCorrect == Spec => []TypeOK
<1>1. Init => TypeOK
    BY LifecycleAssumption
       DEF Init, TypeOK, Rules, NoPid, PCs, MainLoop
<1>2. QED
    BY <1>1, TypeInductive, PTL DEF Spec

-----------------------------------------------------------------------------
(* Outside the lists of iptables commands the counter is at the first rule. *)
AtFirstRule ==
    \A i \in Instances :
        pc[i] \in {"create_pid", "daemonize", "init", "shutdown"} \cup MainLoop
            => at[i] = 1

(* Each list starts with its first command: no list is entered half-way.   *)
LEMMA AtFirstRuleInductive == TypeOK /\ AtFirstRule /\ [Next]_vars => AtFirstRule'
<1> USE LifecycleAssumption DEF TypeOK, AtFirstRule, MainLoop, Goto, shared, local
<1> SUFFICES ASSUME TypeOK, AtFirstRule, [Next]_vars PROVE AtFirstRule'
    BY Zenon
<1>1. CASE UNCHANGED vars
    BY <1>1, Zenon DEF vars
<1>2. ASSUME NEW i \in Instances, Start(i) PROVE AtFirstRule'
    BY <1>2, Zenon DEF Start
<1>3. ASSUME NEW i \in Instances, create_pid_file(i) \/ daemonize(i)
      PROVE AtFirstRule'
    BY <1>3, Zenon DEF create_pid_file, daemonize
<1>4. ASSUME NEW i \in Instances, SetupDelete(i) \/ cleanup_firewall_rules(i)
      PROVE AtFirstRule'
    BY <1>4, Zenon DEF SetupDelete, cleanup_firewall_rules, NextRule
<1>5. ASSUME NEW i \in Instances, SetupInsert(i) PROVE AtFirstRule'
    <2>1. CASE NextRule(i, "init")
        BY <1>5, <2>1, Zenon DEF SetupInsert, NextRule
    <2>2. CASE /\ Goto(i, IF at[i] = 1 THEN "rm_pid" ELSE "clean")
               /\ at' = [at EXCEPT ![i] = 1]
        BY <2>2, Zenon
    <2>3. QED
        BY <1>5, <2>1, <2>2, Zenon DEF SetupInsert
<1>6. ASSUME NEW i \in Instances, netfilter_init(i) \/ netfilter_cleanup(i)
      PROVE AtFirstRule'
    BY <1>6, Zenon DEF netfilter_init, netfilter_cleanup
<1>7. ASSUME NEW i \in Instances,
             LoopTest(i) \/ RecvBlocks(i) \/ LoopError(i) \/ Traffic(i) \/ RecvFails(i)
      PROVE AtFirstRule'
    BY <1>7, Zenon DEF LoopTest, RecvBlocks, LoopError, Traffic, RecvFails
<1>8. ASSUME NEW i \in Instances, remove_pid_file(i) \/ LogStopped(i) \/ Kill(i)
      PROVE AtFirstRule'
    BY <1>8, Zenon DEF remove_pid_file, LogStopped, Kill
<1>9. ASSUME NEW i \in Instances, signal_handler(i) PROVE AtFirstRule'
    BY <1>9, Zenon DEF signal_handler
<1>10. QED
    BY <1>1, <1>2, <1>3, <1>4, <1>5, <1>6, <1>7, <1>8, <1>9, Zenon DEF Next, Step

-----------------------------------------------------------------------------
(* A set of instances has a size, and a subset is not larger.              *)
LEMMA InstanceSets ==
    ASSUME NEW T \in SUBSET Instances, NEW S \in SUBSET T
    PROVE  /\ IsFiniteSet(S) /\ IsFiniteSet(T)
           /\ Cardinality(S) \in Nat /\ Cardinality(T) \in Nat
           /\ Cardinality(S) <= Cardinality(T)
<1>1. IsFiniteSet(T)
    BY LifecycleAssumption, FS_Subset, Zenon
<1>2. QED
    BY <1>1, FS_Subset, FS_CardinalityType, Zenon

(* One more element, one more in size.                                     *)
LEMMA OneMore ==
    ASSUME NEW S \in SUBSET Instances, NEW i \in Instances, i \notin S
    PROVE  Cardinality(S \cup {i}) = Cardinality(S) + 1
BY InstanceSets, FS_AddElement, Zenon

(* The arithmetic of PileUpInv: m copies, the pending instances S and u    *)
(* failed deletions become n copies, T and v.                              *)
LEMMA PileUpArithmetic ==
    ASSUME NEW m \in Nat, NEW n \in Nat, NEW u \in Nat, NEW v \in Nat, u <= v,
           NEW S \in SUBSET Instances, NEW T \in SUBSET Instances,
           m + Cardinality(S) <= Cardinality(Instances) + u,
           \/ n <= m /\ T \subseteq S
           \/ n = 0
           \/ n + u + 1 = m + v /\ \E i \in Instances : T \subseteq S \cup {i}
           \/ n = m + 1 /\ \E i \in S : T \subseteq S \ {i}
    PROVE  n + Cardinality(T) <= Cardinality(Instances) + v
<1>1. /\ Cardinality(S) \in Nat /\ Cardinality(T) \in Nat
      /\ Cardinality(Instances) \in Nat
      /\ Cardinality(T) <= Cardinality(Instances)
    BY InstanceSets, Zenon
<1>2. CASE n <= m /\ T \subseteq S
    <2>1. Cardinality(T) <= Cardinality(S)
        BY <1>2, InstanceSets, Zenon
    <2>2. QED
        BY <1>1, <1>2, <2>1
<1>3. CASE n = 0
    BY <1>1, <1>3
<1>4. CASE n + u + 1 = m + v /\ \E i \in Instances : T \subseteq S \cup {i}
    <2>1. PICK i \in Instances : T \subseteq S \cup {i}
        BY <1>4, Zenon
    <2>2. Cardinality(S \cup {i}) <= Cardinality(S) + 1
        <3>1. CASE i \in S
            <4>1. S \cup {i} = S
                BY <3>1, Zenon
            <4>2. Cardinality(S \cup {i}) = Cardinality(S)
                BY <4>1, Zenon
            <4>3. QED
                BY <4>2, <1>1
        <3>2. CASE i \notin S
            BY <3>2, <1>1, OneMore
        <3>3. QED
            BY <3>1, <3>2, Zenon
    <2>3. /\ Cardinality(S \cup {i}) \in Nat
          /\ Cardinality(T) <= Cardinality(S \cup {i})
        BY <2>1, InstanceSets, Zenon
    <2>4. QED
        BY <1>1, <1>4, <2>2, <2>3
<1>5. CASE n = m + 1 /\ \E i \in S : T \subseteq S \ {i}
    <2>1. PICK i \in S : T \subseteq S \ {i}
        BY <1>5, Zenon
    <2>2. Cardinality(T \cup {i}) = Cardinality(T) + 1
        BY <2>1, OneMore, Zenon
    <2>3. Cardinality(T \cup {i}) <= Cardinality(S)
        BY <2>1, InstanceSets, Zenon
    <2>4. QED
        BY <1>1, <1>5, <2>2, <2>3
<1>6. QED
    BY <1>2, <1>3, <1>4, <1>5, Zenon

(* A step of one instance, whoever causes it.                              *)
Acts(i) == Start(i) \/ Step(i) \/ Traffic(i) \/ RecvFails(i)
               \/ signal_handler(i) \/ Kill(i)

(* The actions a step of an instance may be, one by one, and every step of *)
(* the system is one of some instance.                                     *)
LEMMA ActsIsAnAction ==
    ASSUME NEW i \in Instances, Acts(i)
    PROVE  \/ Start(i) \/ Kill(i) \/ signal_handler(i)
           \/ create_pid_file(i) \/ daemonize(i)
           \/ SetupDelete(i) \/ SetupInsert(i) \/ cleanup_firewall_rules(i)
           \/ netfilter_init(i) \/ netfilter_cleanup(i)
           \/ LoopTest(i) \/ RecvBlocks(i) \/ LoopError(i)
           \/ Traffic(i) \/ RecvFails(i)
           \/ remove_pid_file(i) \/ LogStopped(i)
BY Zenon DEF Acts, Step

(* iptables -I leaves at least one copy of its rule.                       *)
LEMMA CopyInserted ==
    ASSUME NEW f \in [Rules -> Nat], NEW g, NEW k \in Rules,
           g = [f EXCEPT ![k] = @ + 1]
    PROVE  g[k] >= 1
OBVIOUS

(* iptables -D removes the one copy there is, or has failed once more.     *)
LEMMA CopyDeleted ==
    ASSUME NEW f \in [Rules -> Nat], NEW g, NEW k \in Rules,
           NEW m \in Nat, NEW n, NEW c \in Nat, f[k] = c, c <= 1 + m,
           \/ g = [f EXCEPT ![k] = IF @ > 0 THEN @ - 1 ELSE 0] /\ n = m
           \/ g = f /\ n = m + 1
    PROVE  g[k] <= n
<1>1. CASE g = [f EXCEPT ![k] = IF @ > 0 THEN @ - 1 ELSE 0] /\ n = m
    <2>1. g[k] = (IF c > 0 THEN c - 1 ELSE 0)
        BY <1>1, Zenon
    <2>2. (IF c > 0 THEN c - 1 ELSE 0) <= m
        OBVIOUS
    <2>3. QED
        BY <1>1, <2>1, <2>2, Zenon
<1>2. CASE g = f /\ n = m + 1
    BY <1>2
<1>3. QED
    BY <1>1, <1>2, Zenon

(* iptables -D leaves the copies of other rules alone.                     *)
LEMMA OtherCopies ==
    ASSUME NEW f \in [Rules -> Nat], NEW g, NEW k \in Rules, NEW r \in Rules, k # r,
           \/ g = [f EXCEPT ![k] = IF @ > 0 THEN @ - 1 ELSE 0]
           \/ g = f
    PROVE  g[r] <= f[r]
<1>1. f[r] \in Nat
    BY Zenon
<1>2. g[r] = f[r]
    BY Zenon
<1>3. QED
    BY <1>1, <1>2

(* iptables -D takes a copy away when there is one, or has failed once     *)
(* more.                                                                   *)
LEMMA CopyCounted ==
    ASSUME NEW f \in [Rules -> Nat], NEW g, NEW k \in Rules,
           NEW m \in Nat, NEW n,
           \/ g = [f EXCEPT ![k] = IF @ > 0 THEN @ - 1 ELSE 0] /\ n = m
           \/ g = f /\ n = m + 1
    PROVE  g[k] = 0 \/ g[k] + m + 1 = f[k] + n
<1>1. f[k] \in Nat
    BY Zenon
<1>2. CASE g = [f EXCEPT ![k] = IF @ > 0 THEN @ - 1 ELSE 0] /\ n = m
    <2>1. g[k] = (IF f[k] > 0 THEN f[k] - 1 ELSE 0)
        BY <1>2, Zenon
    <2>2. QED
        BY <1>1, <1>2, <2>1
<1>3. CASE g = f /\ n = m + 1
    BY <1>1, <1>3
<1>4. QED
    BY <1>2, <1>3, Zenon

(* What each action does to the values of the instance that takes it, and  *)
(* to what all share.  The position in a list of commands first.           *)
LEMMA NextRuleEffect ==
    ASSUME TypeOK, NEW i \in Instances, NEW l, NextRule(i, l)
    PROVE  /\ at[i] \in Nat /\ at[i] >= 1 /\ at[i] <= NRules
           /\ \/ at[i] < NRules /\ at'[i] = at[i] + 1 /\ pc'[i] = pc[i]
              \/ at[i] = NRules /\ at'[i] = 1 /\ pc'[i] = l
<1>1. /\ pc \in [Instances -> PCs] /\ at \in [Instances -> Rules]
      /\ at[i] \in Nat /\ at[i] >= 1 /\ at[i] <= NRules
    BY LifecycleAssumption DEF TypeOK, Rules
<1>2. CASE at[i] < NRules /\ at' = [at EXCEPT ![i] = @ + 1] /\ UNCHANGED pc
    BY <1>1, <1>2, Zenon
<1>3. CASE at[i] = NRules /\ at' = [at EXCEPT ![i] = 1] /\ Goto(i, l)
    BY <1>1, <1>3, Zenon DEF Goto
<1>4. QED
    BY <1>1, <1>2, <1>3, Zenon DEF NextRule

(* A start enters main() and touches nothing that is shared.               *)
LEMMA StartEffect ==
    ASSUME TypeOK, NEW i \in Instances, Start(i)
    PROVE  /\ pc[i] = "off" /\ pc'[i] = "create_pid" /\ at'[i] = 1
           /\ UNCHANGED <<rules, pidfile, failed>>
<1>1. pc \in [Instances -> PCs] /\ at \in [Instances -> Rules]
    BY Zenon DEF TypeOK
<1>2. QED
    BY <1>1, Zenon DEF Start, Goto, shared

(* A kill leaves the rules and the PID file as they are.                   *)
LEMMA KillEffect ==
    ASSUME TypeOK, NEW i \in Instances, Kill(i)
    PROVE  /\ pc'[i] = "off" /\ exit'[i] = "killed"
           /\ UNCHANGED <<rules, pidfile, failed, at>>
<1>1. /\ pc \in [Instances -> PCs]
      /\ exit \in [Instances -> {"none", "success", "failure", "killed", "segv"}]
    BY Zenon DEF TypeOK
<1>2. QED
    BY <1>1, Zenon DEF Kill, Goto, shared

(* A signal moves only an instance that waits in recv().                   *)
LEMMA SignalEffect ==
    ASSUME TypeOK, NEW i \in Instances, signal_handler(i)
    PROVE  /\ pc[i] # "off"
           /\ \/ pc'[i] = pc[i]
              \/ pc[i] = "recv" /\ pc'[i] = "err"
           /\ UNCHANGED <<rules, pidfile, failed, at, pid, cfg, rc, exit>>
<1>1. pc \in [Instances -> PCs]
    BY Zenon DEF TypeOK
<1>2. QED
    BY <1>1, Zenon DEF signal_handler, Goto, shared

(* create_pid_file() writes the PID of the process, or main() returns.     *)
LEMMA CreatePidEffect ==
    ASSUME TypeOK, NEW i \in Instances, create_pid_file(i)
    PROVE  /\ pc[i] = "create_pid"
           /\ \/ pc'[i] = "daemonize" /\ pidfile' = pid[i]
              \/ pc'[i] = "off" /\ exit'[i] = "failure" /\ pidfile' = pidfile
           /\ UNCHANGED <<rules, failed, at, pid, cfg, rc>>
<1>1. /\ pc \in [Instances -> PCs]
      /\ exit \in [Instances -> {"none", "success", "failure", "killed", "segv"}]
    BY Zenon DEF TypeOK
<1>2. QED
    BY <1>1, Zenon DEF create_pid_file, Goto

(* daemonize() keeps the PID of an instance in the foreground.             *)
LEMMA DaemonizeEffect ==
    ASSUME TypeOK, NEW i \in Instances, daemonize(i)
    PROVE  /\ pc[i] = "daemonize"
           /\ \/ pc'[i] = "del" /\ (~cfg[i].daemon => pid' = pid)
              \/ pc'[i] = "rm_pid" /\ rc'[i] = "failure"
           /\ UNCHANGED <<rules, pidfile, failed, at, cfg, exit>>
<1>1. /\ pc \in [Instances -> PCs]
      /\ rc \in [Instances -> {"success", "failure"}]
    BY Zenon DEF TypeOK
<1>2. QED
    BY <1>1, Zenon DEF daemonize, Goto, Fails, shared

(* The two lists of deletions.                                             *)
LEMMA DeleteEffect ==
    ASSUME TypeOK, NEW i \in Instances,
           SetupDelete(i) \/ cleanup_firewall_rules(i)
    PROVE  /\ at[i] \in Rules
           /\ \/ /\ rules' = [rules EXCEPT ![at[i]] = IF @ > 0 THEN @ - 1 ELSE 0]
                 /\ failed' = failed
              \/ rules' = rules /\ failed' = failed + 1
           /\ UNCHANGED <<pidfile, pid, cfg, rc, exit>>
<1>1. at[i] \in Rules
    BY Zenon DEF TypeOK
<1>2. QED
    BY <1>1, Zenon DEF SetupDelete, cleanup_firewall_rules, IptablesDelete

(* The list of insertions: a copy is added, an iptables that was killed    *)
(* added none and the list goes on, or the failure ends it.                *)
LEMMA InsertEffect ==
    ASSUME TypeOK, NEW i \in Instances, SetupInsert(i)
    PROVE  /\ pc[i] = "ins" /\ at[i] \in Rules
           /\ \/ /\ rules' = [rules EXCEPT ![at[i]] = @ + 1]
                 /\ NextRule(i, "init") /\ rc' = rc
              \/ /\ "killed" \in Faults
                 /\ rules' = rules /\ NextRule(i, "init") /\ rc' = rc
              \/ /\ pc'[i] = IF at[i] = 1 THEN "rm_pid" ELSE "clean"
                 /\ rc'[i] = "failure" /\ at'[i] = 1 /\ rules' = rules
           /\ UNCHANGED <<pidfile, failed, pid, cfg, exit>>
<1>1. /\ pc \in [Instances -> PCs] /\ at \in [Instances -> Rules]
      /\ rc \in [Instances -> {"success", "failure"}]
    BY Zenon DEF TypeOK
<1>2. UNCHANGED <<pidfile, failed, pid, cfg, exit>> /\ pc[i] = "ins"
    BY Zenon DEF SetupInsert
<1>3. CASE /\ Fails(i) /\ at' = [at EXCEPT ![i] = 1] /\ rules' = rules
           /\ Goto(i, IF at[i] = 1 THEN "rm_pid" ELSE "clean")
    BY <1>1, <1>2, <1>3, Zenon DEF Fails, Goto
<1>4. CASE rules' = [rules EXCEPT ![at[i]] = @ + 1] /\ NextRule(i, "init") /\ rc' = rc
    BY <1>1, <1>2, <1>4, Zenon
<1>5. CASE "killed" \in Faults /\ NextRule(i, "init") /\ UNCHANGED <<rules, rc>>
    BY <1>1, <1>2, <1>5, Zenon
<1>6. QED
    BY <1>3, <1>4, <1>5, Zenon DEF SetupInsert

(* netfilter_init() and netfilter_cleanup() lead to the loop and out of it. *)
LEMMA QueueEffect ==
    ASSUME TypeOK, NEW i \in Instances, netfilter_init(i) \/ netfilter_cleanup(i)
    PROVE  /\ \/ pc[i] = "init" /\ pc'[i] \in {"loop", "clean"}
              \/ pc[i] = "shutdown" /\ pc'[i] = "clean"
           /\ UNCHANGED <<rules, pidfile, failed, at, pid, cfg, exit>>
<1>1. pc \in [Instances -> PCs]
    BY Zenon DEF TypeOK
<1>2. QED
    BY <1>1, Zenon DEF netfilter_init, netfilter_cleanup, Goto, local

(* A turn of the main loop stays in it, or leaves it for the shut-down.    *)
LEMMA LoopEffect ==
    ASSUME TypeOK, NEW i \in Instances,
           LoopTest(i) \/ RecvBlocks(i) \/ LoopError(i) \/ Traffic(i) \/ RecvFails(i)
    PROVE  /\ pc[i] \in MainLoop /\ pc'[i] \in MainLoop \cup {"shutdown"}
           /\ UNCHANGED <<rules, pidfile, failed, at, pid, cfg, rc, exit>>
<1>1. pc \in [Instances -> PCs]
    BY Zenon DEF TypeOK
<1>2. QED
    BY <1>1, Zenon DEF LoopTest, RecvBlocks, LoopError, Traffic, RecvFails, Goto, MainLoop,
                shared, local

(* The end of main(): the PID file goes, and what is returned is recorded. *)
LEMMA ExitEffect ==
    ASSUME TypeOK, NEW i \in Instances, remove_pid_file(i) \/ LogStopped(i)
    PROVE  /\ \/ /\ pc[i] = "rm_pid" /\ pidfile' = NoPid
                 /\ \/ rc[i] = "success" /\ pc'[i] = "log_stop"
                    \/ pc'[i] = "off" /\ exit'[i] = "failure"
              \/ pc[i] = "log_stop" /\ pc'[i] = "off" /\ pidfile' = pidfile
           /\ UNCHANGED <<rules, failed, at, pid, cfg, rc>>
<1>1. /\ pc \in [Instances -> PCs]
      /\ exit \in [Instances -> {"none", "success", "failure", "killed", "segv"}]
    BY Zenon DEF TypeOK
<1>2. CASE remove_pid_file(i)
    BY <1>1, <1>2, Zenon DEF remove_pid_file, Goto
<1>3. CASE LogStopped(i)
    BY <1>1, <1>3, Zenon DEF LogStopped, Goto, shared
<1>4. QED
    BY <1>2, <1>3, Zenon

(* A step of an instance moves no other one.                               *)
LEMMA OthersStay ==
    ASSUME TypeOK, NEW i \in Instances, Acts(i)
    PROVE  \A j \in Instances \ {i} : pc'[j] = pc[j] /\ at'[j] = at[j]
<1> USE DEF TypeOK, Goto, local
<1>1. CASE SetupDelete(i) \/ cleanup_firewall_rules(i)
    BY <1>1, Zenon DEF SetupDelete, cleanup_firewall_rules, NextRule
<1>2. CASE SetupInsert(i)
    BY <1>2, Zenon DEF SetupInsert, NextRule
<1>3. CASE Start(i) \/ Kill(i) \/ create_pid_file(i) \/ daemonize(i)
    BY <1>3, Zenon DEF Start, Kill, create_pid_file, daemonize
<1>4. CASE netfilter_init(i) \/ netfilter_cleanup(i)
    BY <1>4, Zenon DEF netfilter_init, netfilter_cleanup
<1>5. CASE LoopTest(i) \/ RecvBlocks(i) \/ LoopError(i) \/ Traffic(i)
               \/ RecvFails(i)
    BY <1>5, Zenon DEF LoopTest, RecvBlocks, LoopError, Traffic, RecvFails
<1>6. CASE remove_pid_file(i) \/ LogStopped(i) \/ signal_handler(i)
    BY <1>6, Zenon DEF remove_pid_file, LogStopped, signal_handler
<1>7. QED
    BY <1>1, <1>2, <1>3, <1>4, <1>5, <1>6, ActsIsAnAction, Zenon

(* A step of i changes the copies of a rule r and its pending instances in *)
(* one of four ways: it deletes a copy, or fails to, and makes i pending,  *)
(* finds none to delete, inserts the copy i was pending for, or adds       *)
(* neither.                                                                *)
LEMMA PendingChange ==
    ASSUME TypeOK, AtFirstRule,
           NEW i \in Instances, NEW r \in Rules, Acts(i)
    PROVE  \/ rules'[r] <= rules[r] /\ Pending(r)' \subseteq Pending(r)
           \/ rules'[r] = 0
           \/ /\ rules'[r] + failed + 1 = rules[r] + failed'
              /\ Pending(r)' \subseteq Pending(r) \cup {i}
           \/ /\ rules'[r] = rules[r] + 1
              /\ i \in Pending(r) /\ Pending(r)' \subseteq Pending(r) \ {i}
<1> DEFINE IsPending == \/ pc[i] = "del" /\ at[i] > r
                        \/ pc[i] = "ins" /\ at[i] <= r
<1>0. /\ (IsPending' => IsPending) => Pending(r)' \subseteq Pending(r)
      /\ Pending(r)' \subseteq Pending(r) \cup {i}
      /\ IsPending => i \in Pending(r)
      /\ ~IsPending' => i \notin Pending(r)'
    BY OthersStay, Zenon DEF Pending
<1>t. /\ rules \in [Rules -> Nat] /\ rules[r] \in Nat /\ failed \in Nat
      /\ r \in Nat /\ r >= 1 /\ r <= NRules /\ at[i] \in Rules
    BY LifecycleAssumption DEF TypeOK, Rules
<1>a. ASSUME rules' = rules, IsPending' => IsPending
      PROVE  rules'[r] <= rules[r] /\ Pending(r)' \subseteq Pending(r)
    <2>1. rules'[r] <= rules[r]
        BY <1>t, <1>a
    <2>2. QED
        BY <1>0, <1>a, <2>1, Zenon
<1>1. CASE SetupDelete(i)
    <2>1. CASE at[i] = r
        <3>1. \/ rules'[r] = 0
              \/ rules'[r] + failed + 1 = rules[r] + failed'
            BY <1>1, <1>t, <2>1, DeleteEffect, CopyCounted
        <3>2. QED
            BY <1>0, <3>1, Zenon
    <2>2. CASE at[i] # r
        <3>1. pc[i] = "del" /\ NextRule(i, "ins")
            BY <1>1, Zenon DEF SetupDelete
        <3>2. IsPending' => IsPending
            BY <1>t, <2>2, <3>1, NextRuleEffect
        <3>3. rules'[r] <= rules[r]
            BY <1>1, <1>t, <2>2, DeleteEffect, OtherCopies, Zenon
        <3>4. QED
            BY <1>0, <3>2, <3>3, Zenon
    <2>3. QED
        BY <2>1, <2>2, Zenon
<1>2. CASE SetupInsert(i)
    <2>0. pc[i] = "ins"
        BY <1>2, InsertEffect, Zenon
    <2>n. ASSUME NextRule(i, "init")
          PROVE  /\ at[i] \in Nat /\ at[i] <= NRules
                 /\ \/ at[i] < NRules /\ at'[i] = at[i] + 1 /\ pc'[i] = "ins"
                    \/ at[i] = NRules /\ pc'[i] = "init"
        BY <2>0, <2>n, NextRuleEffect, Zenon
    <2>1. CASE rules' = [rules EXCEPT ![at[i]] = @ + 1] /\ NextRule(i, "init")
        <3>1. CASE at[i] = r
            <4>1. IsPending /\ ~IsPending'
                BY <1>t, <2>0, <2>1, <2>n, <3>1
            <4>2. rules'[r] = rules[r] + 1
                BY <1>t, <2>1, <3>1, Zenon
            <4>3. QED
                BY <1>0, <4>1, <4>2, Zenon
        <3>2. CASE at[i] # r
            <4>1. IsPending' => IsPending
                BY <1>t, <2>0, <2>1, <2>n, <3>2
            <4>2. rules'[r] <= rules[r]
                BY <1>t, <2>1, <3>2
            <4>3. QED
                BY <1>0, <4>1, <4>2, Zenon
        <3>3. QED
            BY <3>1, <3>2, Zenon
    <2>2. CASE rules' = rules /\ NextRule(i, "init")
        <3>1. IsPending' => IsPending
            BY <1>t, <2>0, <2>2, <2>n
        <3>2. QED
            BY <1>a, <2>2, <3>1, Zenon
    <2>3. CASE pc'[i] = (IF at[i] = 1 THEN "rm_pid" ELSE "clean") /\ rules' = rules
        <3>1. ~IsPending'
            BY <2>3, Zenon
        <3>2. QED
            BY <1>a, <2>3, <3>1, Zenon
    <2>4. QED
        BY <1>2, <2>1, <2>2, <2>3, InsertEffect, Zenon
<1>3. CASE cleanup_firewall_rules(i)
    <2>1. rules'[r] <= rules[r]
        <3>1. IptablesDelete(at[i])
            BY <1>3, Zenon DEF cleanup_firewall_rules
        <3>2. QED
            BY <1>t, <3>1, IptablesDeleteShrinks, Zenon
    <2>2. pc[i] = "clean" /\ NextRule(i, "rm_pid")
        BY <1>3, Zenon DEF cleanup_firewall_rules
    <2>3. ~IsPending'
        BY <2>2, NextRuleEffect
    <2>4. QED
        BY <1>0, <2>1, <2>3, Zenon
<1>4. CASE Start(i) \/ Kill(i)
    BY <1>4, <1>a, StartEffect, KillEffect, Zenon
<1>5. CASE create_pid_file(i) \/ daemonize(i)
    <2>1. rules' = rules /\ at' = at /\ (pc'[i] = "del" => pc[i] = "daemonize")
          /\ pc'[i] # "ins"
        BY <1>5, CreatePidEffect, DaemonizeEffect, Zenon
    <2>2. pc'[i] = "del" => at[i] = 1
        BY <2>1, Zenon DEF AtFirstRule
    <2>3. IsPending' => IsPending
        BY <1>t, <2>1, <2>2
    <2>4. QED
        BY <1>a, <2>1, <2>3, Zenon
<1>6. CASE netfilter_init(i) \/ netfilter_cleanup(i)
    BY <1>6, <1>a, QueueEffect, Zenon
<1>7. CASE LoopTest(i) \/ RecvBlocks(i) \/ LoopError(i) \/ Traffic(i)
               \/ RecvFails(i)
    BY <1>7, <1>a, LoopEffect, Zenon DEF MainLoop
<1>8. CASE remove_pid_file(i) \/ LogStopped(i)
    BY <1>8, <1>a, ExitEffect, Zenon
<1>9. CASE signal_handler(i)
    BY <1>9, <1>a, SignalEffect, Zenon
<1>10. QED
    BY <1>1, <1>2, <1>3, <1>4, <1>5, <1>6, <1>7, <1>8, <1>9, ActsIsAnAction, Zenon

(* A step can only add to the deletions that failed.                       *)
LEMMA FailedGrows ==
    ASSUME TypeOK, NEW i \in Instances, Acts(i)
    PROVE  failed' \in Nat /\ failed <= failed'
<1>1. CASE SetupDelete(i) \/ cleanup_firewall_rules(i)
    BY <1>1 DEF SetupDelete, cleanup_firewall_rules, IptablesDelete, TypeOK
<1>2. CASE UNCHANGED failed
    BY <1>2 DEF TypeOK
<1>3. QED
    BY <1>1, <1>2, Zenon DEF Acts, Step, Start, Kill, Traffic, RecvFails,
       signal_handler, create_pid_file, daemonize, SetupInsert, netfilter_init,
       LoopTest, RecvBlocks, LoopError, netfilter_cleanup, remove_pid_file,
       LogStopped

(* However often instances are killed and started again, there are never   *)
(* more copies of a rule than instances and deletions that failed.         *)
THEOREM PileUp == Spec => [](PileUpInv /\ RulesDoNotPileUp)
<1> DEFINE Inv == TypeOK /\ AtFirstRule /\ PileUpInv
<1>1. Init => Inv
    <2> SUFFICES ASSUME Init PROVE Inv
        BY Zenon
    <2>1. TypeOK /\ AtFirstRule
        BY LifecycleAssumption
           DEF Init, TypeOK, AtFirstRule, Rules, NoPid, PCs, MainLoop
    <2>2. ASSUME NEW r \in Rules
          PROVE rules[r] + Cardinality(Pending(r)) <= Cardinality(Instances) + failed
        <3>1. Pending(r) = {} /\ rules[r] = 0
            BY Zenon DEF Init, Pending
        <3>2. Cardinality(Pending(r)) = 0
            BY <3>1, FS_EmptySet, Zenon
        <3>3. Cardinality(Instances) \in Nat
            BY LifecycleAssumption, FS_CardinalityType, Zenon
        <3>4. QED
            BY <3>1, <3>2, <3>3 DEF Init
    <2>3. QED
        BY <2>1, <2>2, Zenon DEF PileUpInv
<1>2. Inv /\ [Next]_vars => Inv'
    <2> SUFFICES ASSUME Inv, [Next]_vars PROVE Inv'
        BY Zenon
    <2>1. TypeOK' /\ AtFirstRule'
        BY TypeInductive, AtFirstRuleInductive, Zenon
    <2>2. ASSUME NEW r \in Rules'
          PROVE (rules[r] + Cardinality(Pending(r)) <= Cardinality(Instances) + failed)'
        <3>0. /\ r \in Rules /\ rules[r] \in Nat /\ rules'[r] \in Nat
              /\ Pending(r) \in SUBSET Instances /\ Pending(r)' \in SUBSET Instances
              /\ rules[r] + Cardinality(Pending(r)) <= Cardinality(Instances) + failed
            BY <2>1, <2>2, Zenon DEF Rules, TypeOK, Pending, PileUpInv
        <3>1. CASE UNCHANGED vars
            <4>1. rules'[r] = rules[r] /\ Pending(r)' = Pending(r) /\ failed' = failed
                BY <3>1, Zenon DEF vars, Pending
            <4>2. QED
                BY <3>0, <4>1, Zenon
        <3>2. CASE Next
            <4>1. PICK i \in Instances : Acts(i)
                BY <3>2, Zenon DEF Next, Acts
            <4> DEFINE P == Pending(r)
                       Q == Pending(r)'
            <4>2. \/ rules'[r] <= rules[r] /\ Q \subseteq P
                  \/ rules'[r] = 0
                  \/ /\ rules'[r] + failed + 1 = rules[r] + failed'
                     /\ \E j \in Instances : Q \subseteq P \cup {j}
                  \/ rules'[r] = rules[r] + 1 /\ \E j \in P : Q \subseteq P \ {j}
                <5>1. \/ rules'[r] <= rules[r] /\ Pending(r)' \subseteq Pending(r)
                      \/ rules'[r] = 0
                      \/ /\ rules'[r] + failed + 1 = rules[r] + failed'
                         /\ Pending(r)' \subseteq Pending(r) \cup {i}
                      \/ /\ rules'[r] = rules[r] + 1
                         /\ i \in Pending(r) /\ Pending(r)' \subseteq Pending(r) \ {i}
                    BY <3>0, <4>1, PendingChange, Zenon
                <5>2. QED
                    BY <4>1, <5>1, Zenon
            <4>3. P \in SUBSET Instances /\ Q \in SUBSET Instances
                BY <3>0, Zenon
            <4>4. rules[r] + Cardinality(P) <= Cardinality(Instances) + failed
                BY <3>0, Zenon
            <4> HIDE DEF P, Q
            <4>0. failed \in Nat /\ failed' \in Nat /\ failed <= failed'
                BY <4>1, FailedGrows, Zenon DEF TypeOK
            <4>5. rules'[r] + Cardinality(Q) <= Cardinality(Instances) + failed'
                BY <3>0, <4>0, <4>2, <4>3, <4>4, PileUpArithmetic, Zenon
            <4>6. QED
                BY <4>5, Zenon DEF Q
        <3>3. QED
            BY <3>1, <3>2, Zenon
    <2>3. QED
        BY <2>1, <2>2, Zenon DEF PileUpInv
<1>3. Inv => RulesDoNotPileUp
    <2> SUFFICES ASSUME Inv, NEW r \in Rules
                 PROVE  rules[r] <= Cardinality(Instances) + failed
        BY Zenon DEF RulesDoNotPileUp
    <2>1. /\ rules[r] \in Nat /\ Pending(r) \in SUBSET Instances
          /\ rules[r] + Cardinality(Pending(r)) <= Cardinality(Instances) + failed
        BY Zenon DEF TypeOK, Pending, PileUpInv
    <2>2. /\ Cardinality(Pending(r)) \in Nat /\ Cardinality(Instances) \in Nat
          /\ failed \in Nat
        BY <2>1, InstanceSets, Zenon DEF TypeOK
    <2>3. QED
        BY <2>1, <2>2
<1>4. QED
    BY <1>1, <1>2, <1>3, PTL DEF Spec

-----------------------------------------------------------------------------
(* The arithmetic of RulesAreHeld: m copies, the holders S and u failed    *)
(* deletions become n copies, T and v.                                     *)
LEMMA HeldArithmetic ==
    ASSUME NEW m \in Nat, NEW n \in Nat, NEW u \in Nat, NEW v \in Nat, u <= v,
           NEW S \in SUBSET Instances, NEW T \in SUBSET Instances,
           m <= Cardinality(S) + u,
           \/ n <= m /\ S \subseteq T
           \/ n = 0
           \/ n + u + 1 = m + v /\ \E i \in Instances : S \ {i} \subseteq T
           \/ n = m + 1 /\ \E i \in T : S \subseteq T \ {i}
    PROVE  n <= Cardinality(T) + v
<1>1. /\ Cardinality(S) \in Nat /\ Cardinality(T) \in Nat
    BY InstanceSets, Zenon
<1>2. CASE n <= m /\ S \subseteq T
    BY <1>1, <1>2, InstanceSets
<1>3. CASE n = 0
    BY <1>1, <1>3
<1>4. CASE n + u + 1 = m + v /\ \E i \in Instances : S \ {i} \subseteq T
    <2>1. PICK i \in Instances : S \ {i} \subseteq T
        BY <1>4, Zenon
    <2>2. /\ Cardinality(S \ {i}) \in Nat
          /\ Cardinality(S \ {i}) <= Cardinality(T)
        BY <2>1, InstanceSets, Zenon
    <2>3. Cardinality((S \ {i}) \cup {i}) = Cardinality(S \ {i}) + 1
        BY OneMore, Zenon
    <2>4. /\ Cardinality((S \ {i}) \cup {i}) \in Nat
          /\ Cardinality(S) <= Cardinality((S \ {i}) \cup {i})
        BY InstanceSets, S \subseteq (S \ {i}) \cup {i},
           (S \ {i}) \cup {i} \in SUBSET Instances, Zenon
    <2>5. QED
        BY <1>1, <1>4, <2>2, <2>3, <2>4
<1>5. CASE n = m + 1 /\ \E i \in T : S \subseteq T \ {i}
    <2>1. PICK i \in T : S \subseteq T \ {i}
        BY <1>5, Zenon
    <2>2. Cardinality(S \cup {i}) = Cardinality(S) + 1
        BY <2>1, OneMore, Zenon
    <2>3. Cardinality(S \cup {i}) <= Cardinality(T)
        BY <2>1, InstanceSets, Zenon
    <2>4. QED
        BY <1>1, <1>5, <2>2, <2>3
<1>6. QED
    BY <1>2, <1>3, <1>4, <1>5, Zenon

(* A step of i that is not a kill changes the copies of a rule r and its   *)
(* holders in one of four ways: i deletes the copy it held, or fails to,   *)
(* finds none to delete, inserts a copy and becomes a holder, or inserts   *)
(* none and stays one if it was.                                           *)
LEMMA HoldersChange ==
    ASSUME TypeOK, AtFirstRule,
           NEW i \in Instances, NEW r \in Rules, Acts(i), ~Kill(i)
    PROVE  \/ rules'[r] <= rules[r] /\ Holders(r) \subseteq Holders(r)'
           \/ rules'[r] = 0
           \/ /\ rules'[r] + failed + 1 = rules[r] + failed'
              /\ Holders(r) \ {i} \subseteq Holders(r)'
           \/ /\ rules'[r] = rules[r] + 1
              /\ i \in Holders(r)' /\ Holders(r) \subseteq Holders(r)' \ {i}
<1> DEFINE IsHolder == \/ pc[i] = "ins" /\ at[i] > r
                       \/ pc[i] \in {"init", "shutdown"} \cup MainLoop
                       \/ pc[i] = "clean" /\ at[i] <= r
<1>0. /\ (IsHolder => IsHolder') => Holders(r) \subseteq Holders(r)'
      /\ Holders(r) \ {i} \subseteq Holders(r)'
      /\ IsHolder' => i \in Holders(r)'
      /\ ~IsHolder => i \notin Holders(r)
    BY OthersStay, Zenon DEF Holders
<1>t. /\ rules \in [Rules -> Nat] /\ rules[r] \in Nat /\ failed \in Nat
      /\ r \in Nat /\ r >= 1 /\ r <= NRules /\ at[i] \in Rules
    BY LifecycleAssumption DEF TypeOK, Rules
<1>a. ASSUME rules' = rules, IsHolder => IsHolder'
      PROVE  rules'[r] <= rules[r] /\ Holders(r) \subseteq Holders(r)'
    <2>1. rules'[r] <= rules[r]
        BY <1>t, <1>a
    <2>2. QED
        BY <1>0, <1>a, <2>1, Zenon
<1>1. CASE SetupDelete(i)
    <2>1. rules'[r] <= rules[r]
        <3>1. IptablesDelete(at[i])
            BY <1>1, Zenon DEF SetupDelete
        <3>2. QED
            BY <1>t, <3>1, IptablesDeleteShrinks, Zenon
    <2>2. ~IsHolder
        BY <1>1, Zenon DEF SetupDelete, MainLoop
    <2>3. QED
        BY <1>0, <2>1, <2>2, Zenon
<1>2. CASE SetupInsert(i)
    <2>0. pc[i] = "ins"
        BY <1>2, InsertEffect, Zenon
    <2>n. ASSUME NextRule(i, "init")
          PROVE  /\ at[i] \in Nat /\ at[i] <= NRules
                 /\ \/ at[i] < NRules /\ at'[i] = at[i] + 1 /\ pc'[i] = "ins"
                    \/ at[i] = NRules /\ pc'[i] = "init"
        BY <2>0, <2>n, NextRuleEffect, Zenon
    <2>1. CASE rules' = [rules EXCEPT ![at[i]] = @ + 1] /\ NextRule(i, "init")
        <3>1. CASE at[i] = r
            <4>1. IsHolder' /\ ~IsHolder
                BY <1>t, <2>0, <2>1, <2>n, <3>1 DEF MainLoop
            <4>2. rules'[r] = rules[r] + 1
                BY <1>t, <2>1, <3>1, Zenon
            <4>3. QED
                BY <1>0, <4>1, <4>2, Zenon
        <3>2. CASE at[i] # r
            <4>1. IsHolder => IsHolder'
                BY <1>t, <2>0, <2>1, <2>n, <3>2 DEF MainLoop
            <4>2. rules'[r] <= rules[r]
                BY <1>t, <2>1, <3>2
            <4>3. QED
                BY <1>0, <4>1, <4>2, Zenon
        <3>3. QED
            BY <3>1, <3>2, Zenon
    <2>2. CASE rules' = rules /\ NextRule(i, "init")
        <3>1. IsHolder => IsHolder'
            BY <1>t, <2>0, <2>2, <2>n DEF MainLoop
        <3>2. QED
            BY <1>a, <2>2, <3>1, Zenon
    <2>3. CASE /\ pc'[i] = (IF at[i] = 1 THEN "rm_pid" ELSE "clean") /\ at'[i] = 1
               /\ rules' = rules
        <3>1. IsHolder => IsHolder'
            BY <1>t, <2>0, <2>3 DEF MainLoop
        <3>2. QED
            BY <1>a, <2>3, <3>1, Zenon
    <2>4. QED
        BY <1>2, <2>1, <2>2, <2>3, InsertEffect, Zenon
<1>3. CASE cleanup_firewall_rules(i)
    <2>1. CASE at[i] = r
        <3>1. \/ rules'[r] = 0
              \/ rules'[r] + failed + 1 = rules[r] + failed'
            BY <1>3, <1>t, <2>1, DeleteEffect, CopyCounted
        <3>2. QED
            BY <1>0, <3>1, Zenon
    <2>2. CASE at[i] # r
        <3>1. pc[i] = "clean" /\ NextRule(i, "rm_pid")
            BY <1>3, Zenon DEF cleanup_firewall_rules
        <3>2. IsHolder => IsHolder'
            BY <1>t, <2>2, <3>1, NextRuleEffect DEF MainLoop
        <3>3. rules'[r] <= rules[r]
            BY <1>3, <1>t, <2>2, DeleteEffect, OtherCopies, Zenon
        <3>4. QED
            BY <1>0, <3>2, <3>3, Zenon
    <2>3. QED
        BY <2>1, <2>2, Zenon
<1>4. CASE Start(i)
    BY <1>4, <1>a, StartEffect, Zenon DEF MainLoop
<1>5. CASE create_pid_file(i) \/ daemonize(i)
    BY <1>5, <1>a, CreatePidEffect, DaemonizeEffect, Zenon DEF MainLoop
<1>6. CASE netfilter_init(i) \/ netfilter_cleanup(i)
    <2>1. /\ rules' = rules /\ at' = at
          /\ pc[i] \in {"init", "shutdown"} /\ pc'[i] \in {"loop", "clean"}
        BY <1>6, QueueEffect, Zenon
    <2>2. at[i] = 1
        BY <2>1, Zenon DEF AtFirstRule
    <2>3. IsHolder'
        BY <1>t, <2>1, <2>2, Zenon DEF MainLoop
    <2>4. QED
        BY <1>a, <2>1, <2>3, Zenon
<1>7. CASE LoopTest(i) \/ RecvBlocks(i) \/ LoopError(i) \/ Traffic(i)
               \/ RecvFails(i)
    BY <1>7, <1>a, LoopEffect, Zenon DEF MainLoop
<1>8. CASE remove_pid_file(i) \/ LogStopped(i)
    BY <1>8, <1>a, ExitEffect, Zenon DEF MainLoop
<1>9. CASE signal_handler(i)
    BY <1>9, <1>a, SignalEffect, Zenon DEF MainLoop
<1>10. QED
    BY <1>1, <1>2, <1>3, <1>4, <1>5, <1>6, <1>7, <1>8, <1>9, ActsIsAnAction, Zenon

(* When nothing is killed, every copy of a rule is held by an instance     *)
(* that is going to delete it, but for one per deletion that failed, so    *)
(* that no other is left when all instances have ended: on every path out  *)
(* of main(), for any number of instances that start and stop as they      *)
(* like.                                                                   *)
THEOREM NoRuleLeft == Spec => [](RulesAreHeld /\ NoRuleOutlivesTheProgram)
<1> DEFINE Inv == TypeOK /\ AtFirstRule /\ RulesAreHeld
<1>1. Init => Inv
    <2> SUFFICES ASSUME Init PROVE Inv
        BY Zenon
    <2>1. TypeOK /\ AtFirstRule
        BY LifecycleAssumption
           DEF Init, TypeOK, AtFirstRule, Rules, NoPid, PCs, MainLoop
    <2>2. ASSUME NEW r \in Rules PROVE rules[r] <= Cardinality(Holders(r)) + failed
        <3>1. rules[r] = 0 /\ Holders(r) \in SUBSET Instances
            BY Zenon DEF Init, Holders
        <3>2. Cardinality(Holders(r)) \in Nat
            BY <3>1, InstanceSets, Zenon
        <3>3. QED
            BY <3>1, <3>2 DEF Init
    <2>3. QED
        BY <2>1, <2>2, Zenon DEF RulesAreHeld
<1>2. Inv /\ [Next]_vars => Inv'
    <2> SUFFICES ASSUME Inv, [Next]_vars PROVE Inv'
        BY Zenon
    <2>1. TypeOK' /\ AtFirstRule'
        BY TypeInductive, AtFirstRuleInductive, Zenon
    <2>2. ASSUME kills' = 0, NEW r \in Rules'
          PROVE (rules[r] <= Cardinality(Holders(r)) + failed)'
        <3>0. /\ r \in Rules /\ rules[r] \in Nat /\ rules'[r] \in Nat
              /\ Holders(r) \in SUBSET Instances /\ Holders(r)' \in SUBSET Instances
            BY <2>1, <2>2, ZenonT(40) DEF Rules, TypeOK, Holders
        <3>1. CASE UNCHANGED vars
            <4>1. /\ rules'[r] = rules[r] /\ Holders(r)' = Holders(r)
                  /\ failed' = failed /\ kills = 0
                BY <2>2, <3>1, Zenon DEF vars, Holders
            <4>2. QED
                BY <3>0, <4>1, Zenon DEF RulesAreHeld
        <3>2. CASE Next
            <4>1. PICK i \in Instances : Acts(i)
                BY <3>2, Zenon DEF Next, Acts
            <4>2. kills = 0 /\ ~Kill(i)
                <5>1. ~Kill(i)
                    BY <2>2, SMTT(30) DEF Kill, TypeOK
                <5>2. kills' = kills
                    BY <4>1, <5>1, Zenon DEF Acts, Step, Start, Traffic, RecvFails,
                       signal_handler, create_pid_file, daemonize, SetupDelete,
                       SetupInsert, netfilter_init, LoopTest, RecvBlocks,
                       LoopError, netfilter_cleanup, cleanup_firewall_rules,
                       remove_pid_file, LogStopped
                <5>3. QED
                    BY <2>2, <5>1, <5>2, Zenon
            <4> DEFINE H == Holders(r)
                       G == Holders(r)'
            <4>3. \/ rules'[r] <= rules[r] /\ H \subseteq G
                  \/ rules'[r] = 0
                  \/ /\ rules'[r] + failed + 1 = rules[r] + failed'
                     /\ \E j \in Instances : H \ {j} \subseteq G
                  \/ rules'[r] = rules[r] + 1 /\ \E j \in G : H \subseteq G \ {j}
                <5>1. \/ rules'[r] <= rules[r] /\ Holders(r) \subseteq Holders(r)'
                      \/ rules'[r] = 0
                      \/ /\ rules'[r] + failed + 1 = rules[r] + failed'
                         /\ Holders(r) \ {i} \subseteq Holders(r)'
                      \/ /\ rules'[r] = rules[r] + 1
                         /\ i \in Holders(r)' /\ Holders(r) \subseteq Holders(r)' \ {i}
                    BY <3>0, <4>1, <4>2, HoldersChange, ZenonT(40)
                <5>2. QED
                    BY <4>1, <5>1, Zenon
            <4>4. /\ H \in SUBSET Instances /\ G \in SUBSET Instances
                  /\ rules[r] <= Cardinality(H) + failed
                BY <3>0, <4>2, Zenon DEF RulesAreHeld
            <4> HIDE DEF H, G
            <4>0. failed \in Nat /\ failed' \in Nat /\ failed <= failed'
                BY <4>1, FailedGrows, Zenon DEF TypeOK
            <4>5. rules'[r] <= Cardinality(G) + failed'
                BY <3>0, <4>0, <4>3, <4>4, HeldArithmetic, Zenon
            <4>6. QED
                BY <4>5, Zenon DEF G
        <3>3. QED
            BY <3>1, <3>2, Zenon
    <2>3. QED
        BY <2>1, <2>2, Zenon DEF RulesAreHeld
<1>3. Inv => NoRuleOutlivesTheProgram
    <2> SUFFICES ASSUME Inv, kills = 0, \A i \in Instances : pc[i] = "off",
                        NEW r \in Rules
                 PROVE  rules[r] <= failed
        BY Zenon DEF NoRuleOutlivesTheProgram
    <2>1. Holders(r) = {}
        BY Zenon DEF Holders, MainLoop
    <2>2. Cardinality(Holders(r)) = 0
        BY <2>1, FS_EmptySet, Zenon
    <2>3. QED
        BY <2>2 DEF RulesAreHeld, TypeOK
<1>4. QED
    BY <1>1, <1>2, <1>3, PTL DEF Spec

(* The instances that will still run remove_pid_file(), once they have     *)
(* written the file.                                                       *)
Removers == {i \in Instances : pc[i] \notin {"off", "create_pid", "log_stop"}}

(* A PID file is some live instance's to remove, if nothing was killed.    *)
PidFileIsHeld == kills = 0 /\ pidfile # NoPid => Removers # {}

(* Only remove_pid_file() makes an instance stop being a remover.          *)
LEMMA PidFileIsHeldInductive ==
    TypeOK /\ PidFileIsHeld /\ [Next]_vars => PidFileIsHeld'
<1> SUFFICES ASSUME TypeOK, PidFileIsHeld, [Next]_vars, kills' = 0, pidfile' # NoPid
             PROVE  Removers' # {}
    BY Zenon DEF PidFileIsHeld
<1> USE DEF Removers
<1>1. CASE UNCHANGED vars
    BY <1>1, Zenon DEF vars, PidFileIsHeld
<1>2. ASSUME kills' = kills, pidfile' = pidfile, Removers \subseteq Removers'
      PROVE  Removers' # {}
    BY <1>2, Zenon DEF PidFileIsHeld
<1> USE DEF Goto, PCs, MainLoop, shared, local
<1>3. ASSUME NEW i \in Instances, Start(i) PROVE Removers' # {}
    BY <1>2, <1>3, Zenon DEF Start, TypeOK
<1>4. ASSUME NEW i \in Instances, create_pid_file(i) PROVE Removers' # {}
    <2>1. CASE pidfile' = pid[i] /\ Goto(i, "daemonize")
        BY <2>1, Zenon DEF TypeOK
    <2>2. CASE Goto(i, "off") /\ UNCHANGED pidfile
        BY <1>2, <1>4, <2>2, Zenon DEF create_pid_file, TypeOK
    <2>3. QED
        BY <1>4, <2>1, <2>2, Zenon DEF create_pid_file
<1>5. ASSUME NEW i \in Instances, daemonize(i) PROVE Removers' # {}
    BY <1>2, <1>5, Zenon DEF daemonize, TypeOK
<1>6. ASSUME NEW i \in Instances, SetupDelete(i) \/ cleanup_firewall_rules(i)
      PROVE  Removers' # {}
    BY <1>2, <1>6, Zenon DEF SetupDelete, cleanup_firewall_rules, NextRule, TypeOK
<1>7. ASSUME NEW i \in Instances, SetupInsert(i) PROVE Removers' # {}
    BY <1>2, <1>7, Zenon DEF SetupInsert, NextRule, TypeOK
<1>8. ASSUME NEW i \in Instances, netfilter_init(i) \/ netfilter_cleanup(i)
       PROVE  Removers' # {}
    BY <1>2, <1>8, Zenon DEF netfilter_init, netfilter_cleanup, TypeOK
<1>9. ASSUME NEW i \in Instances,
              LoopTest(i) \/ RecvBlocks(i) \/ LoopError(i) \/ Traffic(i) \/ RecvFails(i)
       PROVE  Removers' # {}
    <2>1. CASE LoopTest(i) \/ LoopError(i)
        BY <1>2, <2>1, Zenon DEF LoopTest, LoopError, TypeOK
    <2>2. CASE RecvBlocks(i) \/ Traffic(i) \/ RecvFails(i)
        BY <1>2, <2>2, Zenon DEF RecvBlocks, Traffic, RecvFails, TypeOK
    <2>3. QED
        BY <1>9, <2>1, <2>2, Zenon
<1>10. ASSUME NEW i \in Instances, remove_pid_file(i) PROVE Removers' # {}
    BY <1>10, Zenon DEF remove_pid_file
<1>11. ASSUME NEW i \in Instances, LogStopped(i) PROVE Removers' # {}
    BY <1>2, <1>11, Zenon DEF LogStopped, TypeOK
<1>12. ASSUME NEW i \in Instances, signal_handler(i) PROVE Removers' # {}
    BY <1>2, <1>12, Zenon DEF signal_handler, TypeOK
<1>13. ASSUME NEW i \in Instances, Kill(i) PROVE Removers' # {}
    BY <1>13 DEF Kill, TypeOK
<1>14. QED
    BY <1>1, <1>3, <1>4, <1>5, <1>6, <1>7, <1>8, <1>9, <1>10, <1>11, <1>12,
       <1>13, Zenon DEF Next, Step

(* However instances overwrite and remove each other's PID file, none is   *)
(* left when all have ended, if nothing was killed: every main() that got  *)
(* past create_pid_file() returns through remove_pid_file().               *)
THEOREM NoPidFileLeft == Spec => []NoPidFileOutlivesTheProgram
<1>1. Init => PidFileIsHeld
    BY Zenon DEF Init, PidFileIsHeld
<1>2. PidFileIsHeld => NoPidFileOutlivesTheProgram
    BY Zenon DEF PidFileIsHeld, NoPidFileOutlivesTheProgram, Removers
<1>3. QED
    BY <1>1, <1>2, TypeCorrect, PidFileIsHeldInductive, PTL DEF Spec

-----------------------------------------------------------------------------
(* One instance that has the host to itself.                               *)

(* What has been inserted and not deleted is there, ...                    *)
Placed(i) ==
    \A r \in Rules :
        (\/ pc[i] = "ins" /\ at[i] > r
         \/ pc[i] \in {"init"} \cup MainLoop)
            => rules[r] >= 1

(* ... what has been deleted on the way out is not, ...                    *)
Gone(i) ==
    \A r \in Rules :
        (\/ pc[i] = "clean" /\ at[i] > r
         \/ pc[i] \in {"rm_pid", "log_stop"} /\ rc[i] = "success"
         \/ pc[i] = "off" /\ exit[i] \in {"success", "segv"})
            => rules[r] <= failed

(* ... and the PID file comes and goes with the process.                   *)
PidKept(i) ==
    /\ pc[i] \in {"daemonize", "del", "ins", "init", "shutdown", "clean"} \cup MainLoop
       /\ ~cfg[i].daemon => pidfile = pid[i]
    /\ pc[i] = "log_stop" => rc[i] = "success" /\ pidfile = NoPid
    /\ pc[i] = "off" /\ exit[i] \in {"success", "segv"} => pidfile = NoPid

(* When no iptables is killed, an instance that has inserted a rule finds  *)
(* it in place until its clean-up.                                         *)
LEMMA PlacedInductive ==
    ASSUME "killed" \notin Faults, TypeOK, NEW i \in Instances, Acts(i), Placed(i)
    PROVE  Placed(i)'
<1> SUFFICES ASSUME NEW r \in Rules,
                    ((pc[i] = "ins" /\ at[i] > r) \/ pc[i] \in {"init"} \cup MainLoop)'
             PROVE  rules'[r] >= 1
    BY Zenon DEF Placed, Rules
<1>t. /\ rules \in [Rules -> Nat] /\ at[i] \in Rules
      /\ r \in Nat /\ r >= 1 /\ r <= NRules
    BY LifecycleAssumption DEF TypeOK, Rules
<1>1. CASE SetupInsert(i)
    <2>1. /\ rules' = [rules EXCEPT ![at[i]] = @ + 1] /\ NextRule(i, "init")
          /\ pc[i] = "ins"
        BY <1>1, InsertEffect, Zenon DEF MainLoop
    <2>2. CASE at[i] = r
        BY <1>t, <2>1, <2>2, CopyInserted, Zenon
    <2>3. CASE at[i] # r
        <3>1. \/ at[i] < NRules /\ at'[i] = at[i] + 1 /\ pc'[i] = "ins"
              \/ at[i] = NRules
            BY <2>1, NextRuleEffect, Zenon
        <3>2. at[i] \in Nat /\ at[i] <= NRules /\ NRules \in Nat
            BY LifecycleAssumption, <1>t DEF Rules
        <3>3. at[i] > r
            BY <1>t, <2>3, <3>1, <3>2 DEF MainLoop
        <3>4. rules[r] >= 1
            BY <2>1, <3>3, Zenon DEF Placed
        <3>5. QED
            BY <1>t, <2>1, <2>3, <3>4, Zenon
    <2>4. QED
        BY <2>2, <2>3, Zenon
<1>2. CASE SetupDelete(i) \/ cleanup_firewall_rules(i)
    <2>1. \/ pc[i] = "del" /\ NextRule(i, "ins")
          \/ pc[i] = "clean" /\ NextRule(i, "rm_pid")
        BY <1>2, Zenon DEF SetupDelete, cleanup_firewall_rules
    <2>2. QED
        BY <1>t, <2>1, NextRuleEffect DEF MainLoop
<1>3. CASE create_pid_file(i) \/ daemonize(i)
    BY <1>3, CreatePidEffect, DaemonizeEffect, Zenon DEF MainLoop
<1>4. CASE netfilter_init(i) \/ netfilter_cleanup(i)
    BY <1>4, QueueEffect, Zenon DEF Placed, MainLoop
<1>5. CASE LoopTest(i) \/ RecvBlocks(i) \/ LoopError(i) \/ Traffic(i) \/ RecvFails(i)
    BY <1>5, LoopEffect, Zenon DEF Placed
<1>6. CASE remove_pid_file(i) \/ LogStopped(i)
    BY <1>6, ExitEffect, Zenon DEF MainLoop
<1>7. CASE Start(i) \/ Kill(i)
    BY <1>7, StartEffect, KillEffect, Zenon DEF MainLoop
<1>8. CASE signal_handler(i)
    BY <1>8, SignalEffect, Zenon DEF Placed, MainLoop
<1>9. QED
    BY <1>1, <1>2, <1>3, <1>4, <1>5, <1>6, <1>7, <1>8, ActsIsAnAction, Zenon

(* What an instance alone on the host has deleted stays deleted.           *)
LEMMA GoneInductive ==
    ASSUME TypeOK, AtFirstRule, NEW i \in Instances, Acts(i), Gone(i), PidKept(i),
           \A r \in Rules : rules[r] <= 1 + failed
    PROVE  Gone(i)'
<1> SUFFICES ASSUME NEW r \in Rules,
                    (\/ pc[i] = "clean" /\ at[i] > r
                     \/ pc[i] \in {"rm_pid", "log_stop"} /\ rc[i] = "success"
                     \/ pc[i] = "off" /\ exit[i] \in {"success", "segv"})'
             PROVE  rules'[r] <= failed'
    BY Zenon DEF Gone, Rules
<1>t. /\ rules \in [Rules -> Nat] /\ failed \in Nat /\ at[i] \in Rules
      /\ rules[r] \in Nat /\ rules[r] <= 1 + failed
      /\ r \in Nat /\ r >= 1 /\ r <= NRules
    <2>1. rules \in [Rules -> Nat] /\ failed \in Nat /\ at[i] \in Rules
        BY Zenon DEF TypeOK
    <2>2. rules[r] <= 1 + failed
        BY Zenon
    <2>3. r \in Nat /\ r >= 1 /\ r <= NRules
        BY LifecycleAssumption DEF Rules
    <2>4. QED
        BY <2>1, <2>2, <2>3, Zenon
<1>1. CASE cleanup_firewall_rules(i)
    <2>1. CASE at[i] = r
        BY <1>1, <1>t, <2>1, DeleteEffect, CopyDeleted, Zenon
    <2>2. CASE at[i] # r
        <3>1. pc[i] = "clean" /\ NextRule(i, "rm_pid")
            BY <1>1, Zenon DEF cleanup_firewall_rules
        <3>2. at[i] > r
            BY <1>t, <2>2, <3>1, NextRuleEffect
        <3>3. rules[r] <= failed
            BY <3>1, <3>2, Zenon DEF Gone
        <3>4. rules'[r] <= rules[r] /\ rules'[r] \in Nat
            BY <1>1, <1>t, <2>2, DeleteEffect, OtherCopies, Zenon
        <3>5. failed' \in Nat /\ failed <= failed'
            BY <1>1, <1>t, DeleteEffect
        <3>6. QED
            BY <1>t, <3>3, <3>4, <3>5
    <2>3. QED
        BY <2>1, <2>2, Zenon
<1>2. CASE SetupDelete(i)
    <2>1. pc[i] = "del" /\ NextRule(i, "ins")
        BY <1>2, Zenon DEF SetupDelete
    <2>2. QED
        BY <2>1, NextRuleEffect
<1>3. CASE create_pid_file(i) \/ daemonize(i)
    BY <1>3, CreatePidEffect, DaemonizeEffect, Zenon
<1>4. CASE netfilter_init(i) \/ netfilter_cleanup(i)
    <2>1. at[i] = 1
        BY <1>4, QueueEffect, Zenon DEF AtFirstRule
    <2>2. QED
        BY <1>4, <1>t, <2>1, QueueEffect
<1>5. CASE LoopTest(i) \/ RecvBlocks(i) \/ LoopError(i) \/ Traffic(i) \/ RecvFails(i)
    BY <1>5, LoopEffect, Zenon DEF MainLoop
<1>6. CASE remove_pid_file(i) \/ LogStopped(i)
    <2>1. pc[i] \in {"rm_pid", "log_stop"} /\ rc[i] = "success"
        BY <1>6, ExitEffect, Zenon DEF PidKept
    <2>2. QED
        BY <1>6, <2>1, ExitEffect, Zenon DEF Gone
<1>7. CASE Start(i) \/ Kill(i)
    BY <1>7, StartEffect, KillEffect, Zenon
<1>8. CASE signal_handler(i)
    BY <1>8, SignalEffect, Zenon DEF Gone
<1>9. CASE SetupInsert(i)
    <2>1. CASE NextRule(i, "init")
        <3>1. pc[i] = "ins"
            BY <1>9, InsertEffect, Zenon
        <3>2. pc'[i] \in {"ins", "init"}
            BY <2>1, <3>1, NextRuleEffect, Zenon
        <3>3. QED
            BY <3>2, Zenon
    <2>2. CASE /\ pc'[i] = (IF at[i] = 1 THEN "rm_pid" ELSE "clean")
               /\ rc'[i] = "failure" /\ at'[i] = 1
        <3>1. ~(at'[i] > r)
            BY <1>t, <2>2
        <3>2. pc'[i] \in {"rm_pid", "clean"} /\ rc'[i] # "success"
            BY <2>2, Zenon
        <3>3. QED
            BY <3>1, <3>2, Zenon
    <2>3. QED
        BY <1>9, <2>1, <2>2, InsertEffect, Zenon
<1>10. QED
    BY <1>1, <1>2, <1>3, <1>4, <1>5, <1>6, <1>7, <1>8, <1>9, ActsIsAnAction, Zenon

(* The PID file of an instance alone on the host is its own.               *)
LEMMA PidKeptInductive ==
    ASSUME TypeOK, NEW i \in Instances, Acts(i), PidKept(i)
    PROVE  PidKept(i)'
<1>1. CASE SetupInsert(i)
    <2>1. /\ pc[i] = "ins" /\ pc'[i] \in {"ins", "init", "rm_pid", "clean"}
          /\ UNCHANGED <<pidfile, pid, cfg>>
        BY <1>1, NextRuleEffect, InsertEffect, Zenon
    <2>2. QED
        BY <2>1, Zenon DEF PidKept, MainLoop
<1>2. CASE SetupDelete(i) \/ cleanup_firewall_rules(i)
    <2>1. /\ \/ pc[i] = "del" /\ NextRule(i, "ins")
             \/ pc[i] = "clean" /\ NextRule(i, "rm_pid")
          /\ UNCHANGED <<pidfile, pid, cfg>>
        BY <1>2, Zenon DEF SetupDelete, cleanup_firewall_rules
    <2>2. \/ pc[i] = "del" /\ pc'[i] \in {"del", "ins"}
          \/ pc[i] = "clean" /\ pc'[i] \in {"clean", "rm_pid"}
        BY <2>1, NextRuleEffect, Zenon
    <2>3. QED
        BY <2>1, <2>2, Zenon DEF PidKept, MainLoop
<1>3. CASE create_pid_file(i)
    BY <1>3, CreatePidEffect, Zenon DEF PidKept, MainLoop
<1>4. CASE daemonize(i)
    BY <1>4, DaemonizeEffect, Zenon DEF PidKept, MainLoop
<1>5. CASE netfilter_init(i) \/ netfilter_cleanup(i)
    BY <1>5, QueueEffect, Zenon DEF PidKept, MainLoop
<1>6. CASE LoopTest(i) \/ RecvBlocks(i) \/ LoopError(i) \/ Traffic(i) \/ RecvFails(i)
    BY <1>6, LoopEffect, Zenon DEF PidKept, MainLoop
<1>7. CASE remove_pid_file(i) \/ LogStopped(i)
    BY <1>7, ExitEffect, Zenon DEF PidKept, MainLoop
<1>8. CASE Start(i) \/ Kill(i)
    BY <1>8, StartEffect, KillEffect, Zenon DEF PidKept, MainLoop
<1>9. CASE signal_handler(i)
    BY <1>9, SignalEffect, Zenon DEF PidKept, MainLoop
<1>10. QED
    BY <1>1, <1>2, <1>3, <1>4, <1>5, <1>6, <1>7, <1>8, <1>9, ActsIsAnAction, Zenon

(* The invariant of an instance that is alone, with what it says of it.    *)
AloneInv ==
    \A i \in Instances :
        ("killed" \notin Faults => Placed(i)) /\ Gone(i) /\ PidKept(i)

(* The three facts, and the counts of copies, hold of an instance alone.   *)
LEMMA AloneInvariant ==
    ASSUME NEW a, Instances = {a}
    PROVE  Spec => [](TypeOK /\ RulesDoNotPileUp /\ AloneInv)
<1> DEFINE Bound == \A r \in Rules : rules[r] <= 1 + failed
           Inv == TypeOK /\ AtFirstRule /\ AloneInv
<1>1. Init => Inv
    <2> SUFFICES ASSUME Init PROVE Inv
        BY Zenon
    <2>1. TypeOK /\ AtFirstRule
        BY LifecycleAssumption
           DEF Init, TypeOK, AtFirstRule, Rules, NoPid, PCs, MainLoop
    <2>2. AloneInv
        BY Zenon DEF Init, AloneInv, Placed, Gone, PidKept, MainLoop
    <2>3. QED
        BY <2>1, <2>2, Zenon
<1>2. RulesDoNotPileUp /\ TypeOK => Bound
    <2>1. Cardinality(Instances) = 1
        BY FS_Singleton, Zenon
    <2>2. QED
        BY <2>1, Zenon DEF RulesDoNotPileUp, TypeOK
<1>3. Inv /\ RulesDoNotPileUp /\ [Next]_vars => Inv'
    <2> SUFFICES ASSUME Inv, RulesDoNotPileUp, [Next]_vars PROVE Inv'
        BY Zenon
    <2>1. TypeOK' /\ AtFirstRule'
        BY TypeInductive, AtFirstRuleInductive, Zenon
    <2>2. CASE UNCHANGED vars
        BY <2>1, <2>2, Zenon DEF vars, AloneInv, Placed, Gone, PidKept
    <2>3. CASE Next
        <3>1. PICK i \in Instances : Acts(i)
            BY <2>3, Zenon DEF Next, Acts
        <3>2. ("killed" \notin Faults => Placed(i)) /\ Gone(i) /\ PidKept(i) /\ Bound
            BY <1>2, Zenon DEF AloneInv
        <3>3. ("killed" \notin Faults => Placed(i)') /\ Gone(i)' /\ PidKept(i)'
            BY <3>1, <3>2, PlacedInductive, GoneInductive, PidKeptInductive, Zenon
        <3>4. AloneInv'
            BY <3>1, <3>3, Zenon DEF AloneInv
        <3>5. QED
            BY <2>1, <3>4, Zenon
    <2>4. QED
        BY <2>2, <2>3, Zenon
<1>4. Inv => TypeOK /\ AloneInv
    BY Zenon
<1>5. QED
    BY <1>1, <1>3, <1>4, PileUp, PTL DEF Spec

(* An instance that has the host to itself, with no iptables killed under  *)
(* it, processes packets only while each of its rules is there, once plus  *)
(* at most once per failed deletion, whatever earlier runs left behind.    *)
THEOREM AloneRulesInPlace ==
    ASSUME NEW a, Instances = {a}, "killed" \notin Faults
    PROVE  Spec => []RulesInPlace
<1>1. TypeOK /\ RulesDoNotPileUp /\ AloneInv => RulesInPlace
    <2> SUFFICES ASSUME TypeOK, RulesDoNotPileUp, AloneInv,
                        NEW i \in Instances, pc[i] \in MainLoop, NEW r \in Rules
                 PROVE  rules[r] \in 1 .. 1 + failed
        BY Zenon DEF RulesInPlace
    <2>1. Cardinality(Instances) = 1
        BY FS_Singleton, Zenon
    <2>2. rules[r] \in Nat /\ failed \in Nat /\ rules[r] <= 1 + failed
        BY <2>1, Zenon DEF TypeOK, RulesDoNotPileUp
    <2>3. rules[r] >= 1
        BY Zenon DEF AloneInv, Placed
    <2>4. QED
        BY <2>2, <2>3
<1>2. QED
    BY <1>1, AloneInvariant, PTL

(* A main() of an instance that is alone and that ran to its end has       *)
(* removed the PID file and every rule, but one copy per deletion that     *)
(* failed.                                                                 *)
THEOREM AloneLeavesNothing ==
    ASSUME NEW a, Instances = {a}
    PROVE  Spec => []NormalExitLeavesNothing
<1>1. AloneInv => NormalExitLeavesNothing
    BY Zenon DEF AloneInv, Gone, PidKept, NormalExitLeavesNothing
<1>2. QED
    BY <1>1, AloneInvariant, PTL

(* In the foreground its PID file names it from the first iptables command *)
(* to the last.                                                            *)
THEOREM AlonePidFile ==
    ASSUME NEW a, Instances = {a}
    PROVE  Spec => []ForegroundPidFile
<1>1. AloneInv => ForegroundPidFile
    BY Zenon DEF AloneInv, PidKept, ForegroundPidFile
<1>2. QED
    BY <1>1, AloneInvariant, PTL
=============================================================================
