---------------------------- MODULE ConfigProofs ----------------------------
(* Proofs about Config, for any set of options, any files and command lines *)
(* of any length.                                                           *)
EXTENDS Config, NaturalsInduction, WellFoundedInduction, TLAPS

(* What belongs to an option, by its kind.                                 *)
LEMMA OptionFields ==
    ASSUME NEW o \in Options
    PROVE  /\ o.opt = "flag" => o.field \in CommandFlags
           /\ o.opt = "number" => o.field \in Numbers /\ o.number \in Int
           /\ o.opt = "path" => o.field \in Paths
           /\ o.opt = "redirect" => o.field \in Servers /\ o.address \in Addresses
           /\ o.opt = "mode" => o.mode \in 1..9
           /\ o.opt = "load" => o.lines \in Seq(Lines)
<1>1. o \in AllOptions
    BY ConfigAssumption
<1>2. QED
    BY <1>1, Zenon DEF AllOptions

(* What belongs to a line that sets a value.                               *)
LEMMA LineFields ==
    ASSUME NEW l \in Lines, l.kind = "set"
    PROVE  /\ l.key \in Keys /\ l.spaced \in BOOLEAN /\ KeyOf(l) \in Keys
           /\ l.value.is_true \in BOOLEAN /\ l.value.number \in Int
           /\ l.value.address \in Addresses
           /\ KeyOf(l) \in {l.key, "unknown"}
<1>1. l.key \in Keys /\ l.spaced \in BOOLEAN /\ l.value \in Texts
    BY Zenon DEF Lines
<1>2. "unknown" \in Keys
    BY Zenon DEF Keys
<1>3. QED
    BY <1>1, <1>2, Zenon DEF Texts, KeyOf

(* A configuration of which one value is another.                          *)
WithFlag(c, f, b) == [c EXCEPT !.flag[f] = b]
WithNumber(c, n, x) == [c EXCEPT !.number[n] = x]
WithServer(c, s, a) == [c EXCEPT !.server[s] = a]
WithPath(c, p) == [c EXCEPT !.path[p] = "given"]

(* d is c but for a flag; for a number; for neither of the two.            *)
FlagSet(d, c, f, b) ==
    /\ d \in Configs /\ d.number = c.number
    /\ \A g \in Flags : d.flag[g] = IF g = f THEN b ELSE c.flag[g]
NumberSet(d, c, n, x) ==
    /\ d \in Configs /\ d.flag = c.flag
    /\ \A m \in Numbers : d.number[m] = IF m = n THEN x ELSE c.number[m]
OtherSet(d, c) == d \in Configs /\ d.flag = c.flag /\ d.number = c.number

(* Replacing a flag leaves the other flags and the other parts.            *)
LEMMA FlagReplaced ==
    ASSUME NEW c \in Configs, NEW f \in Flags, NEW b \in BOOLEAN
    PROVE  FlagSet(WithFlag(c, f, b), c, f, b)
BY Zenon DEF Configs, WithFlag, FlagSet

(* The same, for a number.                                                 *)
LEMMA NumberReplaced ==
    ASSUME NEW c \in Configs, NEW n \in Numbers, NEW x \in 0..(UintRange - 1)
    PROVE  NumberSet(WithNumber(c, n, x), c, n, x)
BY Zenon DEF Configs, WithNumber, NumberSet

(* The same, for an address.                                               *)
LEMMA ServerReplaced ==
    ASSUME NEW c \in Configs, NEW s \in Servers, NEW a \in Addresses
    PROVE  OtherSet(WithServer(c, s, a), c)
BY Zenon DEF Configs, WithServer, OtherSet

(* The same, for a path.                                                   *)
LEMMA PathReplaced ==
    ASSUME NEW c \in Configs, NEW p \in Paths
    PROVE  OtherSet(WithPath(c, p), c)
BY Zenon DEF Configs, WithPath, OtherSet

(* A legacy mode switches flags on, reverse fragmentation possibly off,    *)
(* and sets the two sizes.                                                 *)
Moded(c, d) ==
    /\ d \in Configs
    /\ \A f \in Flags : c.flag[f] /\ ~d.flag[f] => f = "reverse_fragmentation"
    /\ \A n \in Numbers : d.number[n] # c.number[n] => n \in Sizes /\ d.number[n] \in {2, 40}

(* config_apply_legacy_mode() does that and no more.                       *)
LEMMA ModeApplied ==
    ASSUME NEW c \in Configs, NEW m \in 1..9
    PROVE  Moded(c, config_apply_legacy_mode(m, c))
<1> DEFINE G == [f \in Flags |-> \/ f \in ModeSets(m)
                                 \/ c.flag[f] /\ ~(m \in {1, 2} /\ f = "reverse_fragmentation")]
           size == IF m = 2 THEN 40 ELSE 2
           N == [c.number EXCEPT !["http_fragment_size"] = 2, !["https_fragment_size"] = size]
           d == [c EXCEPT !.flag = G, !.number = N]
<1>1. CASE m \in {3, 4, 8}
    <2>1. config_apply_legacy_mode(m, c) = c
        BY <1>1, Zenon DEF config_apply_legacy_mode
    <2>2. Moded(c, c)
        BY Zenon DEF Moded
    <2>3. QED
        BY <2>1, <2>2, Zenon
<1>2. CASE m \notin {3, 4, 8}
    <2>1. config_apply_legacy_mode(m, c) = d
        BY <1>2, Zenon DEF config_apply_legacy_mode
    <2>2. G \in [Flags -> BOOLEAN]
        BY Zenon
    <2>3. \A f \in Flags : c.flag[f] /\ ~G[f] => f = "reverse_fragmentation"
        BY Zenon
    <2>4. 2 \in 0..(UintRange - 1) /\ size \in 0..(UintRange - 1) /\ size \in {2, 40}
        BY ConfigAssumption
    <2> HIDE DEF G, size
    <2>5. c.number \in [Numbers -> 0..(UintRange - 1)]
        BY Zenon DEF Configs
    <2> DEFINE U == 0..(UintRange - 1)
    <2> HIDE DEF U
    <2>6. N \in [Numbers -> U]
        BY <2>4, <2>5, Zenon DEF U
    <2>7. \A n \in Numbers : N[n] = IF n = "https_fragment_size" THEN size
                                    ELSE IF n = "http_fragment_size" THEN 2 ELSE c.number[n]
        BY <2>5, Zenon
    <2> HIDE DEF N
    <2>8. \A n \in Numbers : N[n] # c.number[n] => n \in Sizes /\ N[n] \in {2, 40}
        BY <2>4, <2>7, Zenon DEF Sizes
    <2>9. d \in Configs /\ d.flag = G /\ d.number = N
        BY <2>2, <2>6, Zenon DEF Configs, U
    <2> HIDE DEF d
    <2>10. Moded(c, d)
        BY <2>3, <2>8, <2>9, Zenon DEF Moded
    <2>11. QED
        BY <2>1, <2>10, Zenon
<1>3. QED
    BY <1>1, <1>2, Zenon

(* d is c with another value of at most one setting k of a file.           *)
Loaded(c, d, k) ==
    /\ d \in Configs
    /\ \A f \in Flags : c.flag[f] /\ ~d.flag[f] => f = k
    /\ \A n \in Numbers : d.number[n] # c.number[n] => n \in Sizes

(* The keys of a file are of three disjoint kinds.                         *)
LEMMA KindsOfKeys ==
    /\ FileFlags \subseteq Flags /\ Sizes \subseteq Numbers
    /\ \A k \in FileFlags : k \notin Sizes /\ k \notin Servers
    /\ \A k \in Sizes : k \notin FileFlags /\ k \notin Servers
    /\ \A k \in Servers : k \notin FileFlags /\ k \notin Sizes
BY Zenon DEF Flags, Numbers, Sizes, Servers, FileFlags, CommandFlags

(* config_set_value() sets one flag, one size or one address, or nothing.  *)
LEMMA ValueSet ==
    ASSUME NEW c \in Configs, NEW k \in Keys, NEW v,
           v.is_true \in BOOLEAN, v.number \in Int, v.address \in Addresses
    PROVE  Loaded(c, config_set_value(c, k, v), k)
<1> DEFINE x == v.number % UintRange
           d == config_set_value(c, k, v)
<1>1. x \in 0..(UintRange - 1)
    BY ConfigAssumption
<1>2. /\ k \in FileFlags => d = WithFlag(c, k, v.is_true)
      /\ k \in Sizes => d = WithNumber(c, k, x)
      /\ k \in Servers => d = WithServer(c, k, v.address)
      /\ k \notin FileFlags /\ k \notin Sizes /\ k \notin Servers => d = c
    BY KindsOfKeys, Zenon DEF config_set_value, WithFlag, WithNumber, WithServer
<1> SUFFICES Loaded(c, d, k)
    OBVIOUS
<1> HIDE DEF x, d
<1>3. CASE k \in FileFlags
    <2>1. k \in Flags
        BY <1>3, KindsOfKeys, Zenon
    <2>2. FlagSet(d, c, k, v.is_true)
        BY <1>2, <1>3, <2>1, FlagReplaced, Zenon
    <2>3. QED
        BY <2>2, Zenon DEF Loaded, FlagSet
<1>4. CASE k \in Sizes
    <2>1. k \in Numbers
        BY <1>4, KindsOfKeys, Zenon
    <2>2. NumberSet(d, c, k, x)
        BY <1>1, <1>2, <1>4, <2>1, NumberReplaced, Zenon
    <2>3. QED
        BY <1>4, <2>2, Zenon DEF Loaded, NumberSet
<1>5. CASE k \in Servers
    <2>1. OtherSet(d, c)
        BY <1>2, <1>5, ServerReplaced, Zenon
    <2>2. QED
        BY <2>1, Zenon DEF Loaded, OtherSet
<1>6. CASE k \notin FileFlags /\ k \notin Sizes /\ k \notin Servers
    BY <1>2, <1>6, Zenon DEF Loaded
<1>7. QED
    BY <1>3, <1>4, <1>5, <1>6, Zenon

-----------------------------------------------------------------------------
(* The three ways parse_arguments() deals with an option: it takes it, it  *)
(* begins to read a file, or it gives up.                                  *)
Accepted(o) ==
    /\ pc' = "args" /\ file' = file /\ cfg' \in Configs
    /\ o.opt \in {"flag", "number", "path", "redirect", "mode"}
    /\ \A f \in Flags : cfg.flag[f] /\ ~cfg'.flag[f] =>
           f = "reverse_fragmentation" /\ o.opt = "mode"
    /\ \A n \in Numbers :
           IF o.opt = "number" /\ o.field = n
           THEN cfg'.number[n] = o.number /\ InRange(n, o.number)
           ELSE cfg'.number[n] # cfg.number[n] => n \in Sizes /\ cfg'.number[n] \in {2, 40}
Opened(o) == o.opt = "load" /\ pc' = "file" /\ file' = o.lines /\ cfg' = cfg
Refused == pc' \in {"failed", "usage"} /\ cfg' = cfg /\ file' = file

(* An option without an argument is taken.                                 *)
LEMMA FlagEffect ==
    ASSUME TypeOK, NEW o \in Options, pc = "args", ParseFlag(o)
    PROVE  Accepted(o)
<1>1. o.opt = "flag" /\ o.field \in Flags /\ cfg \in Configs
    BY OptionFields, Zenon DEF ParseFlag, TypeOK, Flags
<1>2. cfg' = WithFlag(cfg, o.field, TRUE) /\ pc' = "args" /\ file' = file
    BY Zenon DEF ParseFlag, Accept, WithFlag
<1>3. FlagSet(cfg', cfg, o.field, TRUE)
    BY <1>1, <1>2, FlagReplaced, Zenon
<1>4. QED
    BY <1>1, <1>2, <1>3, Zenon DEF Accepted, FlagSet

(* A number is taken when it is in the range of its setting.               *)
LEMMA NumberEffect ==
    ASSUME TypeOK, NEW o \in Options, pc = "args", ParseNumber(o)
    PROVE  Accepted(o) \/ Refused
<1>1. /\ o.opt = "number" /\ o.field \in Numbers /\ o.number \in Int /\ cfg \in Configs
    BY OptionFields, Zenon DEF ParseNumber, TypeOK
<1>2. CASE Reject
    BY <1>2, Zenon DEF Reject, Refused
<1>3. CASE InRange(o.field, o.number) /\ Accept([cfg EXCEPT !.number[o.field] = o.number])
    <2>1. o.number \in 0..(UintRange - 1)
        BY <1>1, <1>3, ConfigAssumption DEF InRange
    <2>2. cfg' = WithNumber(cfg, o.field, o.number) /\ pc' = "args" /\ file' = file
        BY <1>3, Zenon DEF Accept, WithNumber
    <2>3. NumberSet(cfg', cfg, o.field, o.number)
        BY <1>1, <2>1, <2>2, NumberReplaced, Zenon
    <2>4. QED
        BY <1>1, <1>3, <2>2, <2>3, Zenon DEF Accepted, NumberSet
<1>4. QED
    BY <1>2, <1>3, Zenon DEF ParseNumber

(* A path is taken when it fits.                                           *)
LEMMA PathEffect ==
    ASSUME TypeOK, NEW o \in Options, pc = "args", ParsePath(o)
    PROVE  Accepted(o) \/ Refused
<1>1. /\ o.opt = "path" /\ o.field \in Paths /\ cfg \in Configs
    BY OptionFields, Zenon DEF ParsePath, TypeOK
<1>2. CASE Reject
    BY <1>2, Zenon DEF Reject, Refused
<1>3. CASE Accept([cfg EXCEPT !.path[o.field] = "given"])
    <2>1. cfg' = WithPath(cfg, o.field) /\ pc' = "args" /\ file' = file
        BY <1>3, Zenon DEF Accept, WithPath
    <2>2. OtherSet(cfg', cfg)
        BY <1>1, <2>1, PathReplaced, Zenon
    <2>3. QED
        BY <1>1, <2>1, <2>2, Zenon DEF Accepted, OtherSet
<1>4. QED
    BY <1>2, <1>3, Zenon DEF ParsePath

(* An address is taken when it fits, and switches its redirection on.      *)
LEMMA RedirectEffect ==
    ASSUME TypeOK, NEW o \in Options, pc = "args", ParseRedirect(o)
    PROVE  Accepted(o) \/ Refused
<1> DEFINE r == RedirectFlag(o.field)
           d == WithFlag(cfg, r, TRUE)
<1>1. /\ o.opt = "redirect" /\ o.field \in Servers /\ o.address \in Addresses
      /\ cfg \in Configs
    BY OptionFields, Zenon DEF ParseRedirect, TypeOK
<1>2. r \in Flags
    BY Zenon DEF RedirectFlag, Flags, FileFlags
<1>3. CASE Reject
    BY <1>3, Zenon DEF Reject, Refused
<1>4. CASE Accept([cfg EXCEPT !.flag[r] = TRUE, !.server[o.field] = o.address])
    <2> HIDE DEF r
    <2>1. cfg' = WithServer(d, o.field, o.address) /\ pc' = "args" /\ file' = file
        BY <1>1, <1>4, Zenon DEF Accept, WithServer, WithFlag, Configs
    <2>2. FlagSet(d, cfg, r, TRUE)
        BY <1>1, <1>2, FlagReplaced, Zenon
    <2> HIDE DEF d
    <2>3. OtherSet(cfg', d)
        BY <1>1, <2>1, <2>2, ServerReplaced, Zenon DEF FlagSet
    <2>4. QED
        BY <1>1, <2>1, <2>2, <2>3, Zenon DEF Accepted, FlagSet, OtherSet
<1>5. QED
    BY <1>3, <1>4, Zenon DEF ParseRedirect

(* A mode is taken.                                                        *)
LEMMA ModeEffect ==
    ASSUME TypeOK, NEW o \in Options, pc = "args", ParseMode(o)
    PROVE  Accepted(o)
<1>1. o.opt = "mode" /\ o.mode \in 1..9 /\ cfg \in Configs
    BY OptionFields, Zenon DEF ParseMode, TypeOK
<1>2. cfg' = config_apply_legacy_mode(o.mode, cfg) /\ pc' = "args" /\ file' = file
    BY Zenon DEF ParseMode, Accept
<1>3. Moded(cfg, cfg')
    BY <1>1, <1>2, ModeApplied, Zenon
<1>4. QED
    BY <1>1, <1>2, <1>3, Zenon DEF Accepted, Moded

(* Every option is taken, opens a file or ends the parsing.                *)
LEMMA ParseEffect ==
    ASSUME TypeOK, NEW o \in Options, parse_arguments(o)
    PROVE  /\ pc = "args" /\ given' = Append(given, o) /\ Len(given) < MaxOptions
           /\ Accepted(o) \/ Opened(o) \/ Refused
<1>1. pc = "args" /\ given' = Append(given, o) /\ Len(given) < MaxOptions
    BY Zenon DEF parse_arguments
<1>2. CASE ParseLoad(o)
    BY <1>1, <1>2, Zenon DEF ParseLoad, Opened
<1>3. CASE ParseHelp(o) \/ ParseUnknown(o)
    BY <1>1, <1>3, Zenon DEF ParseHelp, ParseUnknown, Reject, Refused
<1>4. QED
    BY <1>1, <1>2, <1>3, FlagEffect, NumberEffect, PathEffect, RedirectEffect, ModeEffect,
       Zenon DEF parse_arguments

(* The three ways config_load_file() goes on: it applies the next line,    *)
(* it is at the end of the file, or it gives up.                           *)
Applied ==
    /\ file # <<>> /\ Head(file).kind # "bad" /\ file' = Tail(file) /\ pc' = "file"
    /\ cfg' \in Configs
    /\ \A f \in Flags : cfg.flag[f] /\ ~cfg'.flag[f] =>
           Head(file).kind = "set" /\ Head(file).key = f
    /\ \A n \in Numbers : cfg'.number[n] # cfg.number[n] => n \in Sizes
Finished == file = <<>> /\ pc' = "args" /\ cfg' = cfg /\ file' = file

(* Every line is applied or ends the program.                              *)
LEMMA LoadEffect ==
    ASSUME TypeOK, config_load_file
    PROVE  /\ pc = "file" /\ given' = given
           /\ Applied \/ Finished \/ Refused
<1>1. pc = "file" /\ given' = given
    BY Zenon DEF config_load_file
<1>2. CASE /\ file # <<>> /\ Head(file).kind = "skip"
           /\ file' = Tail(file) /\ UNCHANGED <<pc, cfg>>
    BY <1>1, <1>2, Zenon DEF Applied, TypeOK
<1>3. CASE /\ file # <<>> /\ Head(file).kind = "set"
           /\ cfg' = config_set_value(cfg, KeyOf(Head(file)), Head(file).value)
           /\ file' = Tail(file) /\ UNCHANGED pc
    <2> DEFINE l == Head(file)
    <2>1. l \in Lines
        BY <1>3 DEF TypeOK
    <2>2. cfg \in Configs
        BY Zenon DEF TypeOK
    <2> HIDE DEF l
    <2>3. l.kind = "set"
        BY <1>3, Zenon DEF l
    <2>4. Loaded(cfg, config_set_value(cfg, KeyOf(l), l.value), KeyOf(l))
        <3>1. /\ KeyOf(l) \in Keys /\ l.value.is_true \in BOOLEAN
              /\ l.value.number \in Int /\ l.value.address \in Addresses
            BY <2>1, <2>3, LineFields, Zenon
        <3>2. QED
            BY <2>2, <3>1, ValueSet
    <2>5. Loaded(cfg, cfg', KeyOf(l))
        BY <1>3, <2>4, Zenon DEF l
    <2>6. \A f \in Flags : f = KeyOf(l) => l.key = f
        <3>1. "unknown" \notin Flags
            BY Zenon DEF Flags, CommandFlags, FileFlags, ModeFlags
        <3>2. QED
            BY <2>1, <2>3, <3>1, LineFields, Zenon
    <2>7. QED
        BY <1>1, <1>3, <2>3, <2>5, <2>6, Zenon DEF Applied, Loaded, l
<1>4. CASE Reject
    BY <1>1, <1>4, Zenon DEF Reject, Refused
<1>5. CASE file = <<>> /\ pc' = "args" /\ UNCHANGED <<cfg, file>>
    BY <1>1, <1>5, Zenon DEF Finished
<1>6. QED
    BY <1>1, <1>2, <1>3, <1>4, <1>5, Zenon DEF config_load_file

(* The steps of the program, one by one.                                   *)
LEMMA StepIsAnAction ==
    ASSUME [Next]_vars,
           NEW P,
           \A o \in Options : parse_arguments(o) => P,
           config_load_file => P, EndOfArguments => P, config_validate => P,
           UNCHANGED vars => P
    PROVE  P
BY Zenon DEF Next

-----------------------------------------------------------------------------
(* The program has not given up.                                           *)
Going == pc \in {"args", "file", "validate", "run"}

(* A line that cannot be read is still ahead of config_load_file().        *)
Understood ==
    Going => /\ \A i \in DOMAIN given : given[i].opt \notin {"unknown", "no_file", "help"}
             /\ \A i \in Loads : \A j \in DOMAIN given[i].lines :
                    given[i].lines[j].kind = "bad" =>
                        pc = "file" /\ \E k \in DOMAIN file : file[k].kind = "bad"

(* A size that parse_arguments() allows.                                   *)
Sized(n) == n \in Int /\ 1 <= n /\ n <= 65535

(* Without a file the sizes are ones parse_arguments() or a mode allows.   *)
SizesGiven ==
    /\ pc = "file" => Loads # {}
    /\ Going /\ Loads = {} => \A s \in Sizes : Sized(cfg.number[s])
    /\ pc = "run" => Valid(cfg)

(* The options among gs that give the number n, and what they leave it at. *)
Givers(gs, n) == {i \in DOMAIN gs : gs[i].opt = "number" /\ gs[i].field = n}
LastGiven(gs, n) ==
    IF Givers(gs, n) = {} THEN config_init.number[n]
    ELSE gs[CHOOSE i \in Givers(gs, n) : \A j \in Givers(gs, n) : j <= i].number

NumbersGiven ==
    Going => \A n \in {"nfqueue_num", "dns_port"} : cfg.number[n] = LastGiven(given, n)

Inv == TypeOK /\ Understood /\ SizesGiven /\ NumbersGiven

(* The options after another one has been given.                           *)
LEMMA Given ==
    ASSUME TypeOK, NEW o \in Options, given' = Append(given, o), Len(given) < MaxOptions
    PROVE  /\ given' \in Seq(Options) /\ Len(given') <= MaxOptions
           /\ Len(given') = Len(given) + 1 /\ given'[Len(given) + 1] = o
           /\ DOMAIN given' = DOMAIN given \cup {Len(given) + 1}
           /\ \A i \in DOMAIN given : given'[i] = given[i]
           /\ Len(given) + 1 \notin DOMAIN given
           /\ given'[Len(given')] = o
BY ConfigAssumption DEF TypeOK

(* Types are kept by every step.                                           *)
LEMMA TypeInductive == TypeOK /\ [Next]_vars => TypeOK'
<1> SUFFICES ASSUME TypeOK, [Next]_vars PROVE TypeOK'
    OBVIOUS
<1>0. /\ pc \in {"args", "file", "validate", "run", "usage", "failed"}
      /\ cfg \in Configs /\ file \in Seq(Lines) /\ (file # <<>> => pc \in {"file", "failed"})
      /\ given \in Seq(Options) /\ Len(given) <= MaxOptions
    BY Zenon DEF TypeOK
<1>1. ASSUME NEW o \in Options, parse_arguments(o) PROVE TypeOK'
    <2>1. given' \in Seq(Options) /\ Len(given') <= MaxOptions
        BY <1>1, ParseEffect, Given, Zenon
    <2>2. pc = "args" /\ file = <<>>
        BY <1>0, <1>1, ParseEffect, Zenon
    <2>3. CASE Accepted(o)
        BY <1>0, <2>1, <2>2, <2>3, Zenon DEF TypeOK, Accepted
    <2>4. CASE Opened(o)
        BY <1>0, <2>1, <2>4, OptionFields, Zenon DEF TypeOK, Opened
    <2>5. CASE Refused
        BY <1>0, <2>1, <2>2, <2>5, Zenon DEF TypeOK, Refused
    <2>6. QED
        BY <1>1, <2>3, <2>4, <2>5, ParseEffect, Zenon
<1>2. CASE config_load_file
    <2>1. pc = "file" /\ given' = given
        BY <1>2, LoadEffect, Zenon
    <2>2. CASE Applied
        <3>1. Tail(file) \in Seq(Lines)
            BY <1>0, <2>2 DEF Applied
        <3>2. QED
            BY <1>0, <2>1, <2>2, <3>1, Zenon DEF TypeOK, Applied
    <2>3. CASE Finished
        BY <1>0, <2>1, <2>3, Zenon DEF TypeOK, Finished
    <2>4. CASE Refused
        <3>1. pc' \in {"failed", "usage"} /\ cfg' = cfg /\ file' = file
            BY <2>4, Zenon DEF Refused
        <3>2. pc' = "usage" => FALSE
            BY <1>2, <2>1, Zenon DEF config_load_file, Reject
        <3>3. QED
            BY <1>0, <2>1, <3>1, <3>2, Zenon DEF TypeOK
    <2>5. QED
        BY <1>2, <2>2, <2>3, <2>4, LoadEffect, Zenon
<1>3. CASE EndOfArguments
    BY <1>0, <1>3, Zenon DEF EndOfArguments, TypeOK
<1>4. CASE config_validate
    BY <1>0, <1>4, Zenon DEF config_validate, TypeOK
<1>5. CASE UNCHANGED vars
    BY <1>0, <1>5, Zenon DEF vars, TypeOK
<1>6. QED
    BY <1>1, <1>2, <1>3, <1>4, <1>5, StepIsAnAction, Zenon

(* The loads after another option.                                         *)
LEMMA LoadsAfter ==
    ASSUME TypeOK, NEW o \in Options, given' = Append(given, o), Len(given) < MaxOptions
    PROVE  Loads' = IF o.opt = "load" THEN Loads \cup {Len(given) + 1} ELSE Loads
<1>1. /\ given'[Len(given) + 1] = o /\ DOMAIN given' = DOMAIN given \cup {Len(given) + 1}
      /\ \A i \in DOMAIN given : given'[i] = given[i]
      /\ Len(given) + 1 \notin DOMAIN given
    BY Given, Zenon
<1> DEFINE new == Len(given) + 1
<1> HIDE DEF new
<1>2. /\ given'[new] = o /\ DOMAIN given' = DOMAIN given \cup {new}
      /\ \A i \in DOMAIN given : given'[i] = given[i]
      /\ new \notin DOMAIN given
    BY <1>1, Zenon DEF new
<1>3. Loads' = IF o.opt = "load" THEN Loads \cup {new} ELSE Loads
    BY <1>2 DEF Loads
<1>4. QED
    BY <1>3, Zenon DEF new

(* Nothing that cannot be read is forgotten.                               *)
LEMMA UnderstoodInductive == TypeOK /\ Understood /\ [Next]_vars => Understood'
<1> SUFFICES ASSUME TypeOK, Understood, [Next]_vars PROVE Understood'
    OBVIOUS
<1> DEFINE Good(i) == given[i].opt \notin {"unknown", "no_file", "help"}
           BadLine(i) == \E j \in DOMAIN given[i].lines : given[i].lines[j].kind = "bad"
           Ahead == \E k \in DOMAIN file : file[k].kind = "bad"
<1>0. Understood <=> (Going => /\ \A i \in DOMAIN given : Good(i)
                               /\ \A i \in Loads : BadLine(i) => pc = "file" /\ Ahead)
    BY Zenon DEF Understood
<1>00. Understood' <=> (Going' => /\ \A i \in DOMAIN given' : Good(i)'
                                  /\ \A i \in Loads' : BadLine(i)' => pc' = "file" /\ Ahead')
    BY Zenon DEF Understood
<1>1. ASSUME NEW o \in Options, parse_arguments(o) PROVE Understood'
    <2>1. PICK new :
             /\ given'[new] = o /\ DOMAIN given' = DOMAIN given \cup {new}
             /\ \A i \in DOMAIN given : given'[i] = given[i]
             /\ Loads' = IF o.opt = "load" THEN Loads \cup {new} ELSE Loads
        BY <1>1, ParseEffect, Given, LoadsAfter, Zenon
    <2>2. pc = "args" /\ Going
        BY <1>1, ParseEffect, Zenon DEF Going
    <2>3. \A i \in DOMAIN given : Good(i)
        BY <1>0, <2>2, Zenon
    <2>4. \A i \in Loads : ~BadLine(i)
        BY <1>0, <2>2, Zenon
    <2>5. \A i \in DOMAIN given : Good(i)'
        BY <2>1, <2>3, Zenon
    <2>6. \A i \in Loads : ~BadLine(i)'
        BY <2>1, <2>4, Zenon DEF Loads
    <2>7. CASE Accepted(o)
        <3>1. Loads' = Loads /\ Good(new)'
            BY <2>1, <2>7, Zenon DEF Accepted
        <3>2. QED
            BY <1>00, <2>1, <2>5, <2>6, <3>1, Zenon
    <2>8. CASE Opened(o)
        <3>1. file' = o.lines /\ pc' = "file" /\ o.opt = "load"
            BY <2>8, Zenon DEF Opened
        <3>2. BadLine(new)' => Ahead'
            BY <2>1, <3>1, Zenon
        <3>3. Good(new)'
            BY <2>1, <3>1, Zenon
        <3>4. QED
            BY <1>00, <2>1, <2>5, <2>6, <3>1, <3>2, <3>3, Zenon
    <2>9. CASE Refused
        BY <1>00, <2>9, Zenon DEF Refused, Going
    <2>10. QED
        BY <1>1, <2>7, <2>8, <2>9, ParseEffect, Zenon
<1>2. CASE config_load_file
    <2>1. pc = "file" /\ given' = given /\ Loads' = Loads /\ Going
        BY <1>2, LoadEffect, Zenon DEF Loads, Going
    <2>2. CASE Applied
        <3>1. Ahead => Ahead'
            <4>1. /\ file \in Seq(Lines) /\ file # <<>> /\ Head(file).kind # "bad"
                  /\ file' = Tail(file)
                BY <2>2, Zenon DEF Applied, TypeOK
            <4>2. ASSUME NEW k \in DOMAIN file, file[k].kind = "bad" PROVE Ahead'
                <5>1. k # 1 /\ k - 1 \in DOMAIN file' /\ file'[k - 1] = file[k]
                    BY <4>1, <4>2
                <5>2. QED
                    BY <4>2, <5>1
            <4>3. QED
                BY <4>2, Zenon
        <3>2. pc' = "file"
            BY <2>2, Zenon DEF Applied
        <3>3. QED
            BY <1>0, <1>00, <2>1, <3>1, <3>2, Zenon
    <2>3. CASE Finished
        <3>1. ~Ahead
            BY <2>3 DEF Finished
        <3>2. QED
            BY <1>0, <1>00, <2>1, <3>1, Zenon
    <2>4. CASE Refused
        BY <1>00, <2>4, Zenon DEF Refused, Going
    <2>5. QED
        BY <1>2, <2>2, <2>3, <2>4, LoadEffect, Zenon
<1>3. CASE EndOfArguments \/ config_validate
    <2>1. /\ pc \in {"args", "validate"} /\ given' = given /\ Loads' = Loads
        BY <1>3, Zenon DEF EndOfArguments, config_validate, Loads
    <2>2. QED
        BY <1>0, <1>00, <2>1, Zenon DEF Going
<1>4. CASE UNCHANGED vars
    <2>1. pc' = pc /\ file' = file /\ given' = given /\ Loads' = Loads
        BY <1>4, Zenon DEF vars, Loads
    <2>2. QED
        BY <1>0, <1>00, <2>1, Zenon DEF Going
<1>5. QED
    BY <1>1, <1>2, <1>3, <1>4, StepIsAnAction, Zenon

(* Without a file, a size is never given a value out of range.             *)
LEMMA SizesInductive == TypeOK /\ SizesGiven /\ [Next]_vars => SizesGiven'
<1> SUFFICES ASSUME TypeOK, SizesGiven, [Next]_vars PROVE SizesGiven'
    OBVIOUS
<1>0. /\ pc = "file" => Loads # {}
      /\ Going /\ Loads = {} => \A s \in Sizes : Sized(cfg.number[s])
      /\ pc = "run" => Valid(cfg)
    BY Zenon DEF SizesGiven
<1>1. ASSUME NEW o \in Options, parse_arguments(o) PROVE SizesGiven'
    <2>1. /\ pc = "args" /\ Going
          /\ Loads' = IF o.opt = "load" THEN Loads \cup {Len(given) + 1} ELSE Loads
        BY <1>1, ParseEffect, LoadsAfter, Zenon DEF Going
    <2>2. CASE Accepted(o)
        <3>1. ASSUME Loads = {}, NEW s \in Sizes PROVE Sized(cfg'.number[s])
            <4>1. Sized(cfg.number[s]) /\ s \in Numbers /\ s # "nfqueue_num"
                BY <1>0, <2>1, <3>1, Zenon DEF Numbers, Sizes
            <4>2. \/ cfg'.number[s] = o.number /\ InRange(s, o.number) /\ o.opt = "number"
                  \/ cfg'.number[s] = cfg.number[s] \/ cfg'.number[s] \in {2, 40}
                BY <2>2, <4>1, Zenon DEF Accepted
            <4>3. o.opt = "number" => o.number \in Int
                BY OptionFields, Zenon
            <4>4. QED
                <5> DEFINE x == cfg'.number[s]
                <5>1. CASE x = o.number /\ InRange(s, o.number) /\ o.opt = "number"
                    BY <4>1, <4>3, <5>1, SMT DEF InRange, Sized
                <5>2. CASE x = cfg.number[s]
                    BY <4>1, <5>2, Zenon
                <5>3. CASE x \in {2, 40}
                    BY <5>3, SMT DEF Sized
                <5>4. QED
                    BY <4>2, <5>1, <5>2, <5>3, Zenon
        <3>2. Loads' = Loads /\ pc' = "args"
            BY <2>1, <2>2, Zenon DEF Accepted
        <3>3. QED
            BY <3>1, <3>2, Zenon DEF SizesGiven
    <2>3. CASE Opened(o)
        <3>1. pc' = "file" /\ Loads' # {}
            BY <2>1, <2>3, Zenon DEF Opened
        <3>2. QED
            BY <3>1, Zenon DEF SizesGiven
    <2>4. CASE Refused
        BY <2>4, Zenon DEF Refused, SizesGiven, Going
    <2>5. QED
        BY <1>1, <2>2, <2>3, <2>4, ParseEffect, Zenon
<1>2. CASE config_load_file
    <2>1. pc = "file" /\ given' = given /\ Loads' = Loads
        BY <1>2, LoadEffect, Zenon DEF Loads
    <2>2. pc' # "run"
        BY <1>2, LoadEffect, Zenon DEF Applied, Finished, Refused
    <2>3. QED
        BY <1>0, <2>1, <2>2, Zenon DEF SizesGiven
<1>3. CASE EndOfArguments \/ config_validate
    <2>1. /\ pc \in {"args", "validate"} /\ cfg' = cfg /\ Loads' = Loads /\ pc' # "file"
          /\ pc' = "run" => Valid(cfg)
        BY <1>3, Zenon DEF EndOfArguments, config_validate, Loads
    <2>2. Valid(cfg) => Valid(cfg')
        BY <2>1, Zenon
    <2>3. QED
        BY <1>0, <2>1, <2>2, Zenon DEF SizesGiven, Going
<1>4. CASE UNCHANGED vars
    BY <1>0, <1>4, Zenon DEF SizesGiven, Going, vars, Loads
<1>5. QED
    BY <1>1, <1>2, <1>3, <1>4, StepIsAnAction, Zenon

(* Of the options that give a number, one is the last.                     *)
LEMMA GreatestGiver ==
    ASSUME NEW gs \in Seq(Options), NEW n, Givers(gs, n) # {}
    PROVE  \E i \in Givers(gs, n) : \A j \in Givers(gs, n) : j <= i
<1> DEFINE A == Givers(gs, n)
           L == Len(gs)
           S == {k \in Nat : L - k \in A}
<1>1. L \in Nat /\ A \subseteq 1..L
    BY DEF Givers
<1> HIDE DEF A, L
<1>2. \A i \in A : L - i \in Nat /\ L - (L - i) = i
    BY <1>1
<1>3. S # {} /\ S \subseteq Nat
    BY <1>2 DEF A
<1> HIDE DEF S
<1>4. PICK m \in S : \A k \in S : <<k, m>> \notin OpToRel(<, Nat)
    BY <1>3, NatLessThanWellFounded, WFMin, Zenon
<1>5. \A k \in S : ~(k < m)
    BY <1>3, <1>4, Zenon DEF OpToRel
<1>6. L - m \in A /\ m \in Nat
    BY <1>4, Zenon DEF S
<1>7. ASSUME NEW j \in A PROVE j <= L - m
    <2>1. L - j \in S
        BY <1>2 DEF S
    <2>2. QED
        BY <1>1, <1>2, <1>5, <1>6, <2>1
<1>8. QED
    BY <1>6, <1>7, Zenon DEF A

(* What an option adds to the numbers given.                               *)
LEMMA LastGivenAfter ==
    ASSUME NEW gs \in Seq(Options), NEW o \in Options, NEW n
    PROVE  LastGiven(Append(gs, o), n)
               = IF o.opt = "number" /\ o.field = n THEN o.number ELSE LastGiven(gs, n)
<1> DEFINE hs == Append(gs, o)
           new == Len(gs) + 1
           A == Givers(gs, n)
           B == Givers(hs, n)
<1>1. /\ hs[new] = o /\ DOMAIN hs = DOMAIN gs \cup {new} /\ new \notin DOMAIN gs
      /\ \A i \in DOMAIN gs : hs[i] = gs[i] /\ i \in Nat /\ i <= new
      /\ new \in Nat /\ new <= new
    OBVIOUS
<1> HIDE DEF hs, new
<1>2. CASE o.opt = "number" /\ o.field = n
    <2>1. B = A \cup {new}
        BY <1>1, <1>2 DEF Givers
    <2> HIDE DEF B
    <2>2. new \in B /\ \A j \in B : j <= new
        BY <1>1, <2>1 DEF Givers
    <2>3. B \subseteq Nat
        BY <1>1, <2>1 DEF Givers
    <2>4. ASSUME NEW i \in B, \A j \in B : j <= i PROVE i = new
        BY <2>2, <2>3, <2>4
    <2>5. LastGiven(hs, n) = hs[new].number
        BY <2>2, <2>4, Zenon DEF LastGiven, B
    <2>6. QED
        BY <1>1, <1>2, <2>5, Zenon DEF hs
<1>3. CASE ~(o.opt = "number" /\ o.field = n)
    <2>1. B = A
        BY <1>1, <1>3 DEF Givers
    <2>2. A = {} => LastGiven(hs, n) = LastGiven(gs, n)
        BY <2>1, Zenon DEF LastGiven
    <2>3. ASSUME A # {} PROVE LastGiven(hs, n) = LastGiven(gs, n)
        <3> DEFINE c == CHOOSE i \in A : \A j \in A : j <= i
        <3>1. LastGiven(hs, n) = hs[c].number /\ LastGiven(gs, n) = gs[c].number
            BY <2>1, <2>3, Zenon DEF LastGiven
        <3>2. \E i \in A : \A j \in A : j <= i
            BY <2>3, GreatestGiver
        <3>3. c \in A
            BY <3>2, Zenon
        <3> HIDE DEF c
        <3>4. hs[c] = gs[c]
            BY <1>1, <3>3, Zenon DEF Givers
        <3>5. QED
            BY <3>1, <3>4, Zenon
    <2>4. QED
        BY <1>3, <2>2, <2>3, Zenon DEF hs
<1>4. QED
    BY <1>2, <1>3, Zenon

(* What only the command line sets follows the options.                    *)
LEMMA NumbersInductive == TypeOK /\ NumbersGiven /\ [Next]_vars => NumbersGiven'
<1> SUFFICES ASSUME TypeOK, NumbersGiven, [Next]_vars PROVE NumbersGiven'
    OBVIOUS
<1> DEFINE Own == {"nfqueue_num", "dns_port"}
<1>0. Own \subseteq Numbers /\ \A n \in Own : n \notin Sizes
    BY Zenon DEF Numbers, Sizes
<1>00. /\ Going => \A n \in Own : cfg.number[n] = LastGiven(given, n)
       /\ (Going' => \A n \in Own : cfg'.number[n] = LastGiven(given', n)) => NumbersGiven'
    BY Zenon DEF NumbersGiven
<1> HIDE DEF Own
<1>1. ASSUME NEW o \in Options, parse_arguments(o) PROVE NumbersGiven'
    <2>1. /\ pc = "args" /\ Going /\ given' = Append(given, o) /\ given \in Seq(Options)
        BY <1>1, ParseEffect, Zenon DEF Going, TypeOK
    <2>2. ASSUME NEW n \in Own
          PROVE  /\ cfg.number[n] = LastGiven(given, n)
                 /\ LastGiven(given', n) = IF o.opt = "number" /\ o.field = n
                                           THEN o.number ELSE LastGiven(given, n)
        <3>1. cfg.number[n] = LastGiven(given, n)
            BY <1>00, <2>1, Zenon
        <3>2. QED
            BY <2>1, <3>1, LastGivenAfter, Zenon
    <2>3. CASE Accepted(o)
        <3>1. ASSUME NEW n \in Own PROVE cfg'.number[n] = LastGiven(given', n)
            BY <1>0, <2>2, <2>3, Zenon DEF Accepted
        <3>2. QED
            BY <1>00, <3>1, Zenon
    <2>4. CASE Opened(o)
        BY <1>00, <2>2, <2>4, Zenon DEF Opened
    <2>5. CASE Refused
        BY <1>00, <2>5, Zenon DEF Refused, Going
    <2>6. QED
        BY <1>1, <2>3, <2>4, <2>5, ParseEffect, Zenon
<1>2. CASE config_load_file
    <2>1. pc = "file" /\ given' = given /\ Going
        BY <1>2, LoadEffect, Zenon DEF Going
    <2>2. CASE Applied
        BY <1>0, <1>00, <2>1, <2>2, Zenon DEF Applied
    <2>3. CASE Finished
        BY <1>00, <2>1, <2>3, Zenon DEF Finished
    <2>4. CASE Refused
        BY <1>00, <2>4, Zenon DEF Refused, Going
    <2>5. QED
        BY <1>2, <2>2, <2>3, <2>4, LoadEffect, Zenon
<1>3. CASE EndOfArguments \/ config_validate
    BY <1>00, <1>3, Zenon DEF EndOfArguments, config_validate, Going
<1>4. CASE UNCHANGED vars
    BY <1>00, <1>4, Zenon DEF vars, Going
<1>5. QED
    BY <1>1, <1>2, <1>3, <1>4, StepIsAnAction, Zenon

(* config_init() is a configuration.                                       *)
LEMMA DefaultsType ==
    /\ config_init \in Configs
    /\ \A s \in Sizes : config_init.number[s] = 2
<1> DEFINE G == [f \in Flags |-> f = "native_fragmentation"]
           v(n) == CASE n \in Sizes -> 2
                     [] n = "dns_port" -> 53
                     [] n = "nfqueue_num" -> 0
           N == [n \in Numbers |-> v(n)]
<1>1. G \in [Flags -> BOOLEAN]
    BY Zenon
<1>2. 2 \in 0..(UintRange - 1) /\ 53 \in 0..(UintRange - 1) /\ 0 \in 0..(UintRange - 1)
    BY ConfigAssumption
<1>3. \A n \in Numbers : \/ n \in Sizes /\ v(n) = 2
                         \/ n = "dns_port" /\ v(n) = 53
                         \/ n = "nfqueue_num" /\ v(n) = 0
    BY DEF Numbers, Sizes
<1>4. Sizes \subseteq Numbers /\ "dns_port" \notin Sizes /\ "nfqueue_num" \notin Sizes
    BY Zenon DEF Numbers, Sizes
<1> HIDE DEF G, v
<1>5. \A n \in Numbers : v(n) \in 0..(UintRange - 1)
    BY <1>2, <1>3
<1>6. N \in [Numbers -> 0..(UintRange - 1)] /\ \A n \in Numbers : N[n] = v(n)
    BY <1>5, Zenon
<1> HIDE DEF N
<1>7. config_init = [flag |-> G, number |-> N, server |-> [s \in Servers |-> "addr"],
                     path |-> [p \in Paths |-> "default"]]
    BY Zenon DEF config_init, G, N, v
<1>8. config_init \in Configs /\ config_init.number = N
    BY <1>1, <1>6, <1>7, Zenon DEF Configs, Addresses
<1>9. QED
    BY <1>3, <1>4, <1>6, <1>8, Zenon

(* The invariant holds of every command line.                              *)
THEOREM Invariance == Spec => []Inv
<1>1. ASSUME Init PROVE Inv
    <2>1. pc = "args" /\ cfg = config_init /\ file = <<>> /\ given = <<>>
        BY <1>1, Zenon DEF Init
    <2>2. TypeOK
        BY <2>1, DefaultsType, ConfigAssumption DEF TypeOK
    <2>3. DOMAIN given = {}
        BY <2>1
    <2>4. Loads = {} /\ \A n : Givers(given, n) = {}
        BY <2>3, Zenon DEF Loads, Givers
    <2>5. Understood
        BY <2>3, <2>4, Zenon DEF Understood
    <2>6. Sized(2)
        BY DEF Sized
    <2>7. SizesGiven
        BY <2>1, <2>6, DefaultsType, Zenon DEF SizesGiven
    <2>8. NumbersGiven
        BY <2>1, <2>4, Zenon DEF NumbersGiven, LastGiven
    <2>9. QED
        BY <2>2, <2>5, <2>7, <2>8, Zenon DEF Inv
<1>2. Inv /\ [Next]_vars => Inv'
    BY TypeInductive, UnderstoodInductive, SizesInductive, NumbersInductive, Zenon DEF Inv
<1>3. QED
    BY <1>1, <1>2, PTL DEF Spec

(* Types: every setting has a value of its type at every moment, whatever  *)
(* the options and the files say.                                          *)
THEOREM TypeCorrect == Spec => []TypeOK
<1>1. Inv => TypeOK
    BY DEF Inv
<1>2. QED
    BY <1>1, Invariance, PTL

(* However many options and files there are, a program that runs has       *)
(* understood every one of them to the last line.                          *)
THEOREM WholeOrNothing == Spec => []NothingRunsHalfConfigured
<1>1. ASSUME Inv PROVE NothingRunsHalfConfigured
    <2>1. ASSUME pc = "run", NEW l \in LinesRead PROVE l.kind # "bad"
        <3>1. PICK i \in Loads : \E j \in DOMAIN given[i].lines : l = given[i].lines[j]
            BY <2>1, Zenon DEF LinesRead
        <3>2. QED
            BY <1>1, <2>1, <3>1, Zenon DEF Inv, Understood, Going
    <2>2. QED
        BY <1>1, <2>1, Zenon DEF NothingRunsHalfConfigured, Inv, Understood, Going
<1>2. QED
    BY <1>1, Invariance, PTL

(* Whatever the options, only a file can switch fragmentation off.         *)
THEOREM Fragments == Spec => []CommandLineFragments
<1>1. ASSUME Inv PROVE CommandLineFragments
    <2>1. ASSUME pc = "run", Loads = {}, NEW s \in Sizes
          PROVE  cfg.number[s] > 0 /\ cfg.number[s] <= 1500
        <3>1. Sized(cfg.number[s]) /\ Valid(cfg)
            BY <1>1, <2>1, Zenon DEF Inv, SizesGiven, Going
        <3>2. cfg.number[s] <= 1500
            BY <2>1, <3>1, SMT DEF Valid
        <3>3. QED
            BY <3>1, <3>2, SMT DEF Sized
    <2>2. QED
        BY <2>1, SMT DEF CommandLineFragments
<1>2. QED
    BY <1>1, Invariance, PTL

(* Whatever comes after it, the last option for the queue number or the    *)
(* DNS port decides.                                                       *)
THEOREM LastWins == Spec => []LastOptionWins
<1>1. ASSUME Inv PROVE LastOptionWins
    BY <1>1, Zenon DEF Inv, NumbersGiven, Going, LastOptionWins, LastGiven, Givers
<1>2. QED
    BY <1>1, Invariance, PTL

(* Flags go off for the reasons given only, for any options and files.     *)
THEOREM FlagsStay == Spec => FlagsStayOn
<1> DEFINE Why(f) == \/ pc = "file" /\ Head(file).kind = "set" /\ Head(file).key = f
                     \/ f = "reverse_fragmentation" /\ given'[Len(given')].opt = "mode"
<1>1. ASSUME Inv, [Next]_vars, NEW f \in Flags, cfg.flag[f], ~cfg'.flag[f] PROVE Why(f)
    <2>0. TypeOK
        BY <1>1, Zenon DEF Inv
    <2>1. CASE cfg' = cfg
        BY <1>1, <2>1, Zenon
    <2>2. ASSUME NEW o \in Options, parse_arguments(o) PROVE Why(f)
        <3>1. given'[Len(given')] = o
            BY <2>0, <2>2, ParseEffect, Given, Zenon
        <3>2. QED
            BY <1>1, <2>0, <2>1, <2>2, <3>1, ParseEffect, Zenon DEF Accepted, Opened, Refused
    <2>3. CASE config_load_file
        BY <1>1, <2>0, <2>1, <2>3, LoadEffect, Zenon DEF Applied, Finished, Refused
    <2>4. CASE EndOfArguments \/ config_validate \/ UNCHANGED vars
        BY <2>1, <2>4, Zenon DEF EndOfArguments, config_validate, vars
    <2>5. QED
        BY <1>1, <2>2, <2>3, <2>4, Zenon DEF Next
<1>2. Inv /\ [Next]_vars =>
        [\A f \in Flags : cfg.flag[f] /\ ~cfg'.flag[f] =>
             \/ pc = "file" /\ Head(file).kind = "set" /\ Head(file).key = f
             \/ f = "reverse_fragmentation" /\ given'[Len(given')].opt = "mode"]_vars
    BY <1>1, Zenon
<1>3. QED
    BY <1>2, Invariance, PTL DEF Spec, FlagsStayOn
=============================================================================
