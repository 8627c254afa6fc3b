------------------------------- MODULE Config -------------------------------
(***************************************************************************)
(* How main() arrives at its configuration: defaults (config_init()), the  *)
(* options of the command line one after the other (parse_arguments()),    *)
(* the lines of every file named by -c (config_load_file()) at the place   *)
(* of the option, and config_validate() at the end.                        *)
(*                                                                         *)
(* An option is a record that says what getopt_long() returned.  A text is *)
(* given by what the code makes of it: whether it is "true" or "1", what   *)
(* atoi() returns, and, as an address, whether anything is in it.  A       *)
(* numeric argument strtol() does not accept is NotANumber.  Settings that *)
(* no option, file or mode changes are left out; the two persistent-       *)
(* connection flags, always set together, are one.                         *)
(***************************************************************************)
EXTENDS Integers, Sequences

CONSTANTS
    Options,     \* the options that can be given
    UintRange,   \* unsigned int is 0 .. UintRange - 1 (2^32 in the build)
    MaxOptions   \* bound: options on one command line

NotANumber == -1

(* What an option with no argument sets.                                   *)
CommandFlags == {"daemon_mode", "verbose_mode", "debug_mode", "systemd_mode",
                 "native_fragmentation", "reverse_fragmentation",
                 "host_mixedcase", "additional_space", "host_removespace"}
FileFlags == (CommandFlags \ {"systemd_mode"}) \cup
             {"wrong_checksum", "wrong_sequence", "auto_ttl", "fake_packet",
              "dns_redirect_ipv4", "dns_redirect_ipv6"}
ModeFlags == {"fragment_http_persistent", "block_quic"}
Flags == CommandFlags \cup FileFlags \cup ModeFlags
Sizes == {"http_fragment_size", "https_fragment_size"}
Servers == {"dns_server_v4", "dns_server_v6"}
Paths == {"pid_file", "log_file"}
Numbers == Sizes \cup {"dns_port", "nfqueue_num"}

Addresses == {"addr", "blank", "empty", "too_long"}
Texts == [is_true : BOOLEAN, number : Int, address : Addresses]
Keys == FileFlags \cup Sizes \cup Servers \cup {"unknown"}
Lines == [kind : {"skip", "bad"}] \cup
         [kind : {"set"}, key : Keys, spaced : BOOLEAN, value : Texts]

AllOptions ==
    [opt : {"help", "unknown", "no_file"}] \cup
    [opt : {"flag"}, field : CommandFlags] \cup
    [opt : {"number"}, field : Numbers, number : Int] \cup
    [opt : {"path"}, field : Paths, too_long : BOOLEAN] \cup
    [opt : {"redirect"}, field : Servers, address : Addresses] \cup
    [opt : {"mode"}, mode : 1..9] \cup
    [opt : {"load"}, lines : Seq(Lines)]

ASSUME ConfigAssumption ==
    /\ \A o \in Options : o \in AllOptions
    /\ UintRange \in Nat /\ UintRange > 65536
    /\ MaxOptions \in Nat

VARIABLES
    pc,      \* "args", "file", "validate"; "run", "usage", "failed"
    cfg,     \* the configuration
    file,    \* the lines config_load_file() has not read yet
    given    \* the options looked at so far

vars == <<pc, cfg, file, given>>

(* A configuration is flags, numbers, addresses and paths.                 *)
Configs ==
    [flag : [Flags -> BOOLEAN], number : [Numbers -> 0..(UintRange - 1)],
     server : [Servers -> Addresses], path : [Paths -> {"default", "given"}]]

TypeOK ==
    /\ pc \in {"args", "file", "validate", "run", "usage", "failed"}
    /\ cfg \in Configs
    /\ file \in Seq(Lines) /\ (file # <<>> => pc \in {"file", "failed"})
    /\ given \in Seq(Options) /\ Len(given) <= MaxOptions

config_init ==
    [flag |-> [f \in Flags |-> f = "native_fragmentation"],
     number |-> [n \in Numbers |-> CASE n \in Sizes -> 2
                                     [] n = "dns_port" -> 53
                                     [] n = "nfqueue_num" -> 0],
     server |-> [s \in Servers |-> "addr"],
     path |-> [p \in Paths |-> "default"]]

Init == pc = "args" /\ cfg = config_init /\ file = <<>> /\ given = <<>>

-----------------------------------------------------------------------------
Accept(c) == cfg' = c /\ UNCHANGED <<pc, file>>
Reject == pc' = "failed" /\ UNCHANGED <<cfg, file>>

ParseFlag(o) == o.opt = "flag" /\ Accept([cfg EXCEPT !.flag[o.field] = TRUE])

(* A slip: zero is let through, as it is for the queue number.             *)
InRange_Zero(field, n) == 0 <= n /\ n <= 65535

InRange(field, n) == (IF field = "nfqueue_num" THEN 0 ELSE 1) <= n /\ n <= 65535

ParseNumber(o) ==
    /\ o.opt = "number"
    /\ \/ InRange(o.field, o.number) /\ Accept([cfg EXCEPT !.number[o.field] = o.number])
       \/ ~InRange(o.field, o.number) /\ Reject

ParsePath(o) ==
    /\ o.opt = "path"
    /\ \/ ~o.too_long /\ Accept([cfg EXCEPT !.path[o.field] = "given"])
       \/ o.too_long /\ Reject

RedirectFlag(server) == IF server = "dns_server_v4" THEN "dns_redirect_ipv4"
                                                    ELSE "dns_redirect_ipv6"

ParseRedirect(o) ==
    /\ o.opt = "redirect"
    /\ \/ /\ o.address # "too_long"
          /\ Accept([cfg EXCEPT !.flag[RedirectFlag(o.field)] = TRUE,
                                !.server[o.field] = o.address])
       \/ o.address = "too_long" /\ Reject

(* The flags that a mode switches on.                                      *)
ModeSets(m) ==
    {"native_fragmentation"} \cup
    (IF m \in {1, 2} THEN {"host_mixedcase", "host_removespace",
                           "fragment_http_persistent"}
                     ELSE {"reverse_fragmentation", "fake_packet"}) \cup
    (IF m = 5 THEN {"auto_ttl"} ELSE {}) \cup
    (IF m \in {6, 9} THEN {"wrong_sequence"} ELSE {}) \cup
    (IF m \in {7, 9} THEN {"wrong_checksum"} ELSE {}) \cup
    (IF m = 9 THEN {"block_quic"} ELSE {})

(* A slip: a mode starts from the defaults.                                *)
config_apply_legacy_mode_Fresh(m, c) ==
    [config_init EXCEPT !.flag = [f \in Flags |-> f \in ModeSets(m) \/ config_init.flag[f]]]

(* Modes 1 and 2 also switch reverse fragmentation off; 3, 4 and 8 are not *)
(* known and are passed over.                                              *)
config_apply_legacy_mode(m, c) ==
    IF m \in {3, 4, 8} THEN c ELSE
    [c EXCEPT
        !.flag = [f \in Flags |-> \/ f \in ModeSets(m)
                                  \/ c.flag[f] /\ ~(m \in {1, 2} /\ f = "reverse_fragmentation")],
        !.number = [c.number EXCEPT !["http_fragment_size"] = 2,
                                    !["https_fragment_size"] = IF m = 2 THEN 40 ELSE 2]]

ParseMode(o) == o.opt = "mode" /\ Accept(config_apply_legacy_mode(o.mode, cfg))

ParseLoad(o) ==
    /\ o.opt = "load"
    /\ pc' = "file" /\ file' = o.lines
    /\ UNCHANGED cfg

(* -h and -V end the program.                                              *)
ParseHelp(o) == o.opt = "help" /\ pc' = "usage" /\ UNCHANGED <<cfg, file>>

(* An option getopt_long() does not know, or a file that does not open.    *)
ParseUnknown(o) == o.opt \in {"unknown", "no_file"} /\ Reject

parse_arguments(o) ==
    /\ pc = "args" /\ Len(given) < MaxOptions
    /\ given' = Append(given, o)
    /\ \/ ParseFlag(o) \/ ParseNumber(o) \/ ParsePath(o) \/ ParseRedirect(o)
       \/ ParseMode(o) \/ ParseLoad(o) \/ ParseHelp(o) \/ ParseUnknown(o)

-----------------------------------------------------------------------------
(* A slip: the number is not converted to unsigned.                        *)
config_set_value_Signed(c, key, v) ==
    CASE key \in FileFlags -> [c EXCEPT !.flag[key] = v.is_true]
      [] key \in Sizes -> [c EXCEPT !.number[key] = v.number]
      [] key \in Servers -> [c EXCEPT !.server[key] = v.address]
      [] OTHER -> c

(* A flag is set or cleared, a size is atoi() as unsigned, an address is   *)
(* copied; another key is passed over.                                     *)
config_set_value(c, key, v) ==
    CASE key \in FileFlags -> [c EXCEPT !.flag[key] = v.is_true]
      [] key \in Sizes -> [c EXCEPT !.number[key] = v.number % UintRange]
      [] key \in Servers -> [c EXCEPT !.server[key] = v.address]
      [] OTHER -> c

(* config_parse_line() keeps a blank in front of '=' as part of the key.   *)
KeyOf(line) == IF line.spaced THEN "unknown" ELSE line.key

(* A slip: a line that does not parse is passed over.                      *)
config_load_file_Lenient ==
    /\ pc = "file"
    /\ \/ /\ file # <<>>
          /\ cfg' = IF Head(file).kind = "set"
                    THEN config_set_value(cfg, KeyOf(Head(file)), Head(file).value) ELSE cfg
          /\ file' = Tail(file)
          /\ UNCHANGED pc
       \/ file = <<>> /\ pc' = "args" /\ UNCHANGED <<cfg, file>>
    /\ UNCHANGED given

(* One line, or the end of the file.  The lines in front of one that does  *)
(* not parse have been applied.                                            *)
config_load_file ==
    /\ pc = "file"
    /\ \/ /\ file # <<>> /\ Head(file).kind = "skip"
          /\ file' = Tail(file) /\ UNCHANGED <<pc, cfg>>
       \/ /\ file # <<>> /\ Head(file).kind = "set"
          /\ cfg' = config_set_value(cfg, KeyOf(Head(file)), Head(file).value)
          /\ file' = Tail(file) /\ UNCHANGED pc
       \/ file # <<>> /\ Head(file).kind = "bad" /\ Reject
       \/ file = <<>> /\ pc' = "args" /\ UNCHANGED <<cfg, file>>
    /\ UNCHANGED given

EndOfArguments ==
    /\ pc = "args"
    /\ pc' = "validate"
    /\ UNCHANGED <<cfg, file, given>>

Valid(c) ==
    /\ \A s \in Sizes : c.number[s] <= 1500
    /\ \A s \in Servers : c.flag[RedirectFlag(s)] => c.server[s] # "empty"
    /\ c.number["dns_port"] > 0 /\ c.number["dns_port"] <= 65535

config_validate ==
    /\ pc = "validate"
    /\ pc' = IF Valid(cfg) THEN "run" ELSE "failed"
    /\ UNCHANGED <<cfg, file, given>>

Next ==
    \/ \E o \in Options : parse_arguments(o)
    \/ config_load_file \/ EndOfArguments \/ config_validate

Spec == Init /\ [][Next]_vars

-----------------------------------------------------------------------------
Loads == {i \in DOMAIN given : given[i].opt = "load"}
LinesRead == UNION {{given[i].lines[j] : j \in DOMAIN given[i].lines} : i \in Loads}

(* A program that runs has read its whole command line and all its files   *)
(* without meeting anything it does not understand: a load that stops half *)
(* way, with the first half applied, never gets to run.                    *)
NothingRunsHalfConfigured ==
    pc = "run" =>
        /\ \A l \in LinesRead : l.kind # "bad"
        /\ \A i \in DOMAIN given : given[i].opt \notin {"unknown", "no_file", "help"}

(* Fragmentation can be switched off (a size of 0) by a file only: the     *)
(* checks of parse_arguments(), the modes and config_validate() together   *)
(* leave sizes of 1 to 1500 to every other command line.                   *)
CommandLineFragments ==
    pc = "run" /\ Loads = {} =>
        \A s \in Sizes : cfg.number[s] > 0 /\ cfg.number[s] <= 1500

(* What only the command line can set has the value of the last option for *)
(* it, whatever modes and files come after that option.                    *)
LastOptionWins ==
    pc = "run" => \A n \in {"nfqueue_num", "dns_port"} :
        LET At == {i \in DOMAIN given : given[i].opt = "number" /\ given[i].field = n}
        IN  cfg.number[n] = IF At = {} THEN config_init.number[n]
                            ELSE given[CHOOSE i \in At : \A j \in At : j <= i].number

(* A flag that is on goes off by a line of a file only, except reverse     *)
(* fragmentation, which modes 1 and 2 switch off as well.                  *)
FlagsStayOn ==
    [][\A f \in Flags : cfg.flag[f] /\ ~cfg'.flag[f] =>
           \/ pc = "file" /\ Head(file).kind = "set" /\ Head(file).key = f
           \/ f = "reverse_fragmentation" /\ given'[Len(given')].opt = "mode"]_vars
=============================================================================
