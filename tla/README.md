# A TLA+ model of goodbyedpi-linux

goodbyedpi is a Linux program that has iptables send web traffic to an NFQUEUE,
looks at each packet, applies evasion techniques to some and gives the packets
back to the kernel with a verdict. This directory models it from its C source
(`src/src`), checks the models with TLC and proves the central properties with
TLAPS.

## The system and its parts

`main()` reads defaults, options and files (*configuration*), opens the log,
writes a PID file, may fork into the background, inserts four *firewall rules*
with iptables, opens the *netfilter queue* and loops over packets until a signal
clears a flag; then it undoes these steps. For each packet the queue calls back
into `main.c`, which *parses* it, *processes* it (Host header edits,
*fragmentation*, *fake packets* through *raw sockets*) and sends the verdict.

| Part | Source | Module | Status |
|---|---|---|---|
| Life cycle, firewall rules | main.c, service/daemon_funcs.c | Lifecycle | modelled, proved about |
| Netfilter queue, callback | capture/netfilter_capture.c, main.c | PacketPath, Verdicts | modelled, proved about |
| Parsing, classification | capture/packet_utils.c | Packets | partly: what the callback uses |
| Processing, fragmentation | core/packet_processor.c, evasion/fragmentation.c | Packets | modelled |
| Fake packets | evasion/fake_packets.c | Packets, Injection | modelled, proved about |
| Raw sockets | capture/raw_socket.c | RawSocket, Injection | modelled, proved about |
| Privileges | service/privileges.c | Privileges, Injection | modelled, proved about |
| Configuration | core/config.c, main.c | Config | modelled, proved about |
| Connection tracking | tracking/conntrack.c | Conntrack | modelled, proved about |
| TTL tracking | tracking/ttl_tracker.c | TtlTracker | modelled, proved about |
| DNS tracking | tracking/dns_tracker.c | DnsTracker | modelled, proved about |
| uthash | utils/uthash.h | Uthash | partly: what the DNS tracker uses; proved about |
| Logging, signal handler | core/logging.c, service/daemon_funcs.c | Logging | partly: two setters without a caller are left out |
| Header mangling, SNI, Turkey profile | evasion/*.c | | not modelled |
| systemd, daemon.c | service/*.c | | not modelled |
| hash, net and string utilities | utils/ | | not modelled |

The three trackers, the raw sockets and the privileges are compiled, but nothing
in the program calls them (of fake_packets.c it calls one function, which then
finds no socket). They are modelled as components with an interface, called in any
order, with one exception: `setup_raw_socket()`, see Injection below.

## Modules

**Lifecycle** models several instances of the program on one host. Shared state:
`rules` (copies of each rule, because `iptables -I` adds one and `-D` removes
one), `pidfile`, `bound` (queue numbers taken). Per instance: a program counter
over the system calls of `main()`, the flag `running`, the configuration, the
value to return. One action is one system call that touches shared state:
`create_pid_file`, `daemonize`, `SetupDelete`/`SetupInsert` (one iptables command
each), `netfilter_init`, the loop (`LoopTest`, `RecvBlocks`, `Traffic`,
`RecvFails`, `LoopError`), `netfilter_cleanup`, `cleanup_firewall_rules`,
`remove_pid_file`, `LogStopped`. `signal_handler` and `Kill` can happen between
any two of them. `Faults` says which calls may fail; `failed` counts the
deletions that did, because the code cannot tell and the rules can.

**Packets** has the functions of one packet: `packet_parse`, the `packet_is_*`
tests, the techniques, and what `packet_process()` leaves and returns. A packet
is described by the answers the code's tests get from its bytes.

**PacketPath** puts them between the kernel's queue and the main loop. The kernel
holds a packet until a verdict names its id; messages wait in a socket that can
overflow. `netfilter_receive_packet` is recv() and, through
`packet_process_callback`, the callback up to the parser; `packet_process`,
`netfilter_send_verdict` and `packet_free` are the rest of it. The kernel and
libnetfilter_queue are modelled from how the code uses them.

**Verdicts** is what the traffic of the host is promised, without netlink, the
callback or packet_t: packets wait in line, the first is accepted or given up,
and what is held when the service ends is dropped. PacketPath implements it; the
line is the packet in hand followed by the messages in the socket, and the service
is what the program counter says of it.

**Config** takes one option, or one line of a file, per step.

**Conntrack**, **TtlTracker** and **DnsTracker** have one action per function of
the tracker and a clock that moves forward. TtlTracker also has
`ttl_get_auto_ttl()`, the TTL of a fake packet, in 8-bit arithmetic.

**Uthash** is the hash table under DnsTracker: the list of elements in the order
they came and the buckets with their chains, counts and multipliers, the
operations the program uses and the doubling of the buckets, with the ideal chain
length and the count of useless doublings that end it. The tracker's table
is such a table over addresses in `mem`; keys that are equal can both be in it,
and which one is found depends on the chains. The loops of the code, over a chain
that is rehashed and over the list that HASH_ITER walks, are recursive functions of
the position (`Rehashed`, `HASH_ITER_DEL`), one application of the loop's body
(`Visit`, `DeleteIf`) per element.

**Logging** is log_message() as a sequence of steps that take and release the
locks of the C library, and a signal handler that may interrupt it anywhere and
calls it again. `calls` is the stack of calls in progress. Locks in localtime()
and vsyslog() are not recursive; the one in stdio is, for the thread that has it.

**Privileges** has the process's identity and the three system calls of
drop_privileges(); **RawSocket** the two socket variables over the kernel's
descriptor table, which gives out the lowest free number, also to other files;
**Injection** composes both with fake_packets.c. It assumes that `setup_raw_socket`
is called only when the sockets are not ready. The code does not test this: a second
call would overwrite the numbers of two open sockets. SocketsAreOwned, and its
theorem, rest on the assumption.

`MC*` modules give the constants values; `*Proofs` modules hold the proofs.
Operators whose comment starts with "A slip" are wrong versions of the definition
that follows. No specification uses them; they show that each property can fail.

## What is checked

Passing runs:

| Run | Shows | Bounds |
|---|---|---|
| lifecycle_single | each rule is there while the program works, once unless a deletion failed; a normal end leaves nothing that could be deleted, also after kills; in the foreground the PID file names the running process; a stop that was asked for happens, given traffic | 1 instance, 4 rules, 4 starts, 2 kills, 4 failed deletions, every fault but a killed iptables |
| lifecycle_pair | copies of a rule never exceed instances and failed deletions; without kills no other copy, and no PID file, outlives the programs | 2 instances, 2 rules, 4 starts, 2 kills, 1 failed deletion, every fault |
| packet_path | the path implements Verdicts; the kernel holds exactly the unread, current and stranded packets; the counters add up; nothing stays allocated; accepted packets leave in order; a queued packet is released or stranded for a named reason | 3 packets of 9 kinds, 3 configurations, queue of 2, socket that may overflow from its second message, faults |
| config | no half-read configuration runs; sizes, last option and flags are as the code's order of checks implies | 3 options of 44 |
| conntrack | entries are where lookups search; no connection is mistaken for another; every loss is explained | 3 slots, 5 packets, clock to 3 |
| ttl_tracker | one entry per connection; the learnt range is consistent and only widens; the fake TTL stays in its window; established entries are frozen; evictions are justified | 2 entries, 3 connections, TTLs 0, 64, 128, 3 settings |
| dns_tracker | the table's two structures stay in step and find what is there while buckets double; chains stay within the limit of their bucket or the ideal length; lookups name the server rightly; updates alone keep one entry per exchange; a live exchange is not forgotten; the sweep agrees with the statistics | 5 entries, 5 packets, timeout 0, clock to 1, buckets from 1, doubling at chains of 2, at most 128 buckets (never reached) |
| injection | a process that gave up root is one user altogether and was told so; the socket variables name exactly the open raw sockets; a fake packet leaves through the socket of its family | 3 users and an unknown one, 3 descriptors, 8 packets |

The type invariants of Lifecycle, PacketPath, Conntrack, TtlTracker and Injection,
and the strengthenings the proofs use, are proved for all values of the constants
and not repeated in the runs.

The fault that is left out of lifecycle_single is the one RulesInPlace does not
survive: an iptables that is killed counts as done, so the program can run without
a rule.

The bounds make each interesting case happen: two kills leave two copies of a
rule; two queue places and three packets fill the queue with stranded packets
and the second message may overflow the socket; three connections compete for two
TTL entries; five DNS entries, with equal and with colliding keys, make doublings
that help, doublings that do not, the `noexpand` that follows two of these, and
ideal chains that reach the limit (with four entries or fewer the last two do not
happen); three descriptors are two sockets and a file that can take the number of
either; every number on the command line is taken at both sides of its limits.
In Config the unsigned range is 2^20 instead of 2^32, which
is above every number compared.

CHECK_DEADLOCK is off where the system may stop: nobody has to start the program
again, recv() waits without traffic, a process has ended, and the configuration
model ends where `main()` goes on.

Runs that show a disagreement between the code and what it says of itself:

| Run | What happens |
|---|---|
| packet_verdict | packets a technique applied to, or that do not parse, get no verdict |
| lifecycle_queue_num | with --queue-num the rules still feed queue 0 |
| lifecycle_stop_idle | a signal between is_running() and recv() is not acted on while there is no traffic |
| logging_signal | a signal that interrupts a message makes its handler wait for the lock of localtime() or vsyslog(), which the same thread holds: the program does not stop |

## Fairness

`Scheduled` is weak fairness of the steps `main()` takes by itself: a process that
is not blocked runs. `BusyHost` adds that traffic arrives at a queue some rule
feeds; it is an assumption about the host, and lifecycle_stop_idle shows that it
is needed. `FairSpec` of PacketPath is weak fairness of the program's work, that
of Logging weak fairness of the one thread's next step. No fairness is assumed of
signals, kills, starts, faults or arrivals.

## What is proved

For all values of the constants that satisfy the named assumptions of the modules:

- `LifecycleProofs!TypeCorrect`.
- `LifecycleProofs!PileUp`: copies of a rule never exceed the number of instances
  and failed deletions together. The bound is not inductive: an instance that has
  deleted a rule and not yet inserted it must be counted. `PileUpInv` adds these
  (`Pending`), and `AtFirstRule` says each list of commands starts at its first.
  Every step changes copies and pending instances in one of a few ways
  (`PendingChange`), and simple arithmetic does the rest.
- `LifecycleProofs!NoRuleLeft`: without kills, no rule but one copy per failed
  deletion remains when all instances have ended. The invariant `RulesAreHeld`
  gives each other copy a live instance that will still delete it
  (`HoldersChange`).
- `LifecycleProofs!NoPidFileLeft`: the same of the PID file, which some live
  instance will still remove (`PidFileIsHeld`).
- `LifecycleProofs!AloneRulesInPlace`, `AloneLeavesNothing`, `AlonePidFile`: the
  properties of a single instance, from PileUp for one instance and three facts
  about where it is: what it has inserted is there (`Placed`), what it has deleted
  is gone (`Gone`), the PID file is its own (`PidKept`). The first assumes that no
  iptables is killed.
- `PacketPathProofs!TypeCorrect`, `Accounting` and `AcceptedInOrder`: the
  invariant adds that the socket holds increasing ids above all that were handled
  and that what the program did with a packet agrees with where the kernel has it.
- `PacketPathProofs!VerdictsImplemented`: initial states map to initial states of
  Verdicts and every step to a step or a stutter, from the same invariant.
- `PacketPathProofs!NoLeak` and `CountersCorrect`: memory follows the program
  counter; the counters are the sizes of two sets of packets, which each step
  changes by the packet in hand.
- `ConfigProofs`: the invariant ties the configuration to the options given so far.
  While the program has not given up, everything it was given is understood
  (`Understood`), sizes are in range unless a file was loaded (`SizesGiven`), and
  what only options set has the value of the last one (`NumbersGiven`). From it
  `TypeCorrect`, `WholeOrNothing`, `Fragments` and `LastWins`; `FlagsStay` looks at
  each kind of option and of line.
- `ConntrackProofs!TableCorrect` and `Reachability`: type, placement and exactness
  are inductive together. `Losses`, of steps, follows from them.
- `TtlTrackerProofs!TypeCorrect`, `OneEntry`, `LearntIsConsistent`, `LearningEnds`,
  `FakeTtl`: one inductive invariant of the table, with the arithmetic of bytes in
  lemmas of its own. That a connection has one entry needs that a packet which
  matches no entry belongs to no connection of the table, in either direction.
- `TtlTrackerProofs!Frozen`, `Widening`, `Forgetting`: an eviction and a sweep move
  entries to other positions, so these follow a connection rather than a position.
  The lemmas say where the entry of each connection is after the step.
- `InjectionProofs!DropIsAllOrNothing`, `DropIsTruthful`, `SocketsOwned`,
  `SentCorrectly`, `TypeCorrect`: that a descriptor is owned needs that the kernel's
  lowest free number is a free one, which is a fact about finite sets of numbers.
- `UthashProofs`: a table is `Intact` for a set of elements when its list has each of
  them once and each chain has, once, those whose hash leads to its bucket, with the
  counts right; it is `Short` when no chain exceeds the limit of its bucket or its
  share of ideal chains, unless doubling was given up. `AddIntact`: HASH_ADD() keeps
  both and adds its element, also when it doubles the buckets. `IterIntact`: a loop
  that deletes what it selects keeps both and removes just that. `FindFacts`:
  HASH_FIND() finds an element with the key when there is one. Each loop is followed
  from one position to the next: if a position were bad there would be a first one,
  and the loop's body does not turn a good position into a bad one. That doubling
  moves every element to the right place rests on `Halving`: a number modulo n is its
  value modulo 2n, taken modulo n. Any hash function into the naturals, any limit and
  any number of buckets to start with are covered (`UthashAssumption`, and
  `HashAssumption` of DnsTracker: the keys of the packets have hash values).
- `DnsTrackerProofs`: the inductive invariant says that the table is Intact for
  exactly the allocated entries, and Short, that each entry names the ends of its key
  with the server at port 53 (`Named`), and OneEntryPerExchange. It gives
  `TypeCorrect`, `TableStaysIntact`, `FindIsExact`, `ChainsAreShort`,
  `LookupIsRight` and `OneEntry`; the step properties `LiveIsKept` and `SweepIsExact`
  need besides that what is deleted is what has expired, and, for the second, that
  the positions of the active entries in the list are as many as the entries left.

So every safety invariant and every action property of the passing runs is proved.
RulesInPlace, NormalExitLeavesNothing and ForegroundPidFile are proved, like they are
checked, for one instance; with two they fail, see below.

Only model-checked: liveness (StopsWhenAsked, Served), which is out of the prover's
reach, and the four disagreements, which are counterexamples. The theorems take
the bounds of the models (MaxEntries, MaxTime and the like) as arbitrary numbers.

## Abstractions and what is left out

- An iptables child that outlives its killed parent; a failing unlink().
- In Logging: signals before the handlers are installed, which end the process;
  recv() as a place where the loop waits (Lifecycle has it).
- In Injection: receive_raw_packet(), the getters and the functions that report
  privileges, which change nothing; the bytes of a forgery, and packets without
  headers; which errors send() returns on a socket that is not connected (the
  kernel may refuse or accept). Root stands for the right to open raw sockets.
- In Uthash: out of memory, which is exit(-1); the hash function, a parameter.
- The branch of netfilter_callback() for empty packets, which the kernel does not
  deliver, and the failures of the two getters, which need a null argument or an
  empty packet.
- Bytes: string functions that read past a payload that is not terminated, writes
  of the extra blank past its end, and lengths computed from header fields.
- fgets() splitting lines over 511 characters; values too long for their field.
- IPv6: the parser is a placeholder that leaves addresses and ports zero, so the
  IPv6 packets TtlTracker accepts are more than the program produces.

## Seen while modelling, without a run of its own

The models contain this behaviour; no property claims the contrary.

- packets_modified (main.c:109) counts the packets that were not modified.
- "Remove any existing rules" (main.c:130) removes one copy of each: after two
  instances were killed together, a copy survives the next start.
- A second instance deletes the rules of the first (main.c:131), finds the queue
  taken and deletes its own, and it removes the PID file they share.
- With -d the PID file names the parent, which has exited (main.c:564, 571).
- The last message (main.c:634) goes to a log file that is already closed.
- Fragment sizes from 1501 are documented (main.c:201) and refused (config.c:231).
- The example file does not load: its section headers have no '=' (config.c:96).
- In `key = value` the blank in front of '=' stays in the key, which is then
  unknown and ignored (config.c:107).
- An empty server address in a file is read as a newline and passes validation
  (config.c:124, 248).
- A TCP packet finds the conntrack entry of a UDP flow with the same addresses and
  ports (conntrack.c:85).
- With default sizes of 2 every packet to port 443 counts as evaded.
- -f and -e are in the usage text and not in the option string; modes 3, 4 and 8
  are accepted and ignored.
- Edits of the payload copy never reach the packet that is sent back.

## Not modelled

- Header mangling (evasion/header_mangle.c), SNI extraction
  (evasion/sni_extractor.c), the Turkey profile (evasion/turkey_specific.c) and the
  string, net and hash utilities: functions from byte buffers to byte buffers or
  answers, without state. Only stristr() and mix_case() are reached from main();
  Packets has what they find and do as fields of a packet. The behaviour of the
  others is all in the bytes, which the models abstract; they are better tested
  than model-checked.
- dns_should_redirect() and dns_get_configured_server(), which only read the
  configuration, and the operations of uthash.h the program does not use.
- packet_copy, packet_set_ttl and the checksums of packet_utils.c: not reached from
  main().
- service/systemd.c: messages to systemd, no state, no caller, optional in the build.
- service/daemon.c: not compiled; daemon_funcs.c is, and is in Lifecycle.
- create_fake_http_response(), logging_set_level(), logging_set_debug(): no caller.
- Lengths in the parser, as numbers; the protocol that conntrack stores and does
  not compare; the blank server address a file can set; edits of the payload copy;
  a second setup_raw_socket(). PROJECT.json lists these hazards with a note on why
  no property covers them.
