------------------------------- MODULE Logging -------------------------------
(***************************************************************************)
(* core/logging.c and the signal handler of service/daemon_funcs.c.  The   *)
(* program has one thread, but a signal runs its handler between any two   *)
(* instructions of that thread, and the handler logs too: log_message()    *)
(* can be interrupted by itself.  A call of it goes through localtime(),   *)
(* which the C library guards with a lock that is not recursive, the       *)
(* comparison of levels, and vsyslog(), with a lock of the same sort, or   *)
(* fprintf(), whose lock a thread may take again.                          *)
(*                                                                         *)
(* main() is reduced to what matters here: it initialises logging, installs*)
(* the handlers, logs while it works, and when running is cleared closes   *)
(* the log and says good-bye.                                              *)
(***************************************************************************)
EXTENDS Naturals, Sequences, SequencesExt

CONSTANTS
    Configs,      \* [level, use_syslog, use_file]: arguments of logging_init()
    MaxMessages   \* bound: messages main() logs while it works

LOG_LEVEL_ERR == 3
LOG_LEVEL_INFO == 6
LOG_LEVEL_DEBUG == 7
Signals == {"SIGINT", "SIGTERM"}

VARIABLES
    conf,      \* logging_config, with log_fp as "open", "closed" or "unset"
    at,        \* where main() is, outside its calls of log_message()
    calls,     \* the calls of log_message() in progress, the innermost last
    tz_lock,   \* the lock of localtime() is taken
    sys_lock,  \* the lock of vsyslog() is taken
    running,   \* the flag of daemon_funcs.c
    asked,     \* a signal has been delivered
    messages,  \* messages main() has logged while it worked
    exit       \* how the process ended, or "no"

vars == <<conf, at, calls, tz_lock, sys_lock, running, asked, messages, exit>>

Init ==
    /\ \E c \in Configs :
           conf = [level |-> c.level, use_syslog |-> c.use_syslog,
                   use_file |-> c.use_file, log_fp |-> "unset",
                   debug_enabled |-> (c.level >= LOG_LEVEL_DEBUG)]
    /\ at = "init"
    /\ calls = <<>> /\ tz_lock = FALSE /\ sys_lock = FALSE
    /\ running = TRUE /\ asked = FALSE /\ messages = 0
    /\ exit = "no"

Alive == exit = "no"
Call(by, prio) == calls' = Append(calls, [by |-> by, prio |-> prio, at |-> "localtime"])

-----------------------------------------------------------------------------
(* main().                                                                 *)

(* logging_init(): the configuration, the log file, a message.             *)
logging_init ==
    /\ at = "init" /\ Alive
    /\ \/ /\ conf' = [conf EXCEPT !.log_fp = IF conf.use_file THEN "open" ELSE @]
          /\ Call("main", LOG_LEVEL_INFO)
          /\ at' = "install"
          /\ UNCHANGED exit
       \/ /\ conf.use_file
          /\ exit' = "failure"
          /\ UNCHANGED <<conf, calls, at>>
    /\ UNCHANGED <<tz_lock, sys_lock, running, asked, messages>>

(* From here on signals are handled; before, they end the process.         *)
install_signal_handlers ==
    /\ at = "install" /\ Alive /\ calls = <<>>
    /\ at' = "work"
    /\ UNCHANGED <<conf, calls, tz_lock, sys_lock, running, asked, messages, exit>>

(* A message of main() while it works; log_debug() looks at the flag first.*)
Log(prio) ==
    /\ at = "work" /\ Alive /\ calls = <<>> /\ running
    /\ messages < MaxMessages
    /\ prio = LOG_LEVEL_DEBUG => conf.debug_enabled
    /\ messages' = messages + 1
    /\ Call("main", prio)
    /\ UNCHANGED <<conf, at, tz_lock, sys_lock, running, asked, exit>>

(* while (is_running()); a signal interrupts recv().                       *)
LeaveLoop ==
    /\ at = "work" /\ Alive /\ calls = <<>> /\ ~running
    /\ at' = "cleanup"
    /\ UNCHANGED <<conf, calls, tz_lock, sys_lock, running, asked, messages, exit>>

(* logging_cleanup(), and the message main() logs after it.                *)
logging_cleanup ==
    /\ at = "cleanup" /\ Alive /\ calls = <<>>
    /\ conf' = [conf EXCEPT !.log_fp = IF conf.use_file THEN "closed" ELSE @]
    /\ at' = "stopped"
    /\ Call("main", LOG_LEVEL_INFO)
    /\ UNCHANGED <<tz_lock, sys_lock, running, asked, messages, exit>>

Return ==
    /\ at = "stopped" /\ Alive /\ calls = <<>>
    /\ exit' = "success"
    /\ UNCHANGED <<conf, at, calls, tz_lock, sys_lock, running, asked, messages>>

-----------------------------------------------------------------------------
(* log_message(): the steps of the innermost call.                         *)

Top == Last(calls)
Advance(l) == calls' = [calls EXCEPT ![Len(calls)].at = l]

(* The call returns; a handler then clears the flag and returns as well.   *)
Leave ==
    /\ calls' = Front(calls)
    /\ running' = (running /\ Top.by = "main")

LocaltimeEnter ==
    /\ Top.at = "localtime" /\ ~tz_lock
    /\ tz_lock' = TRUE
    /\ Advance("convert")
    /\ UNCHANGED <<running, sys_lock, exit>>

LocaltimeLeave ==
    /\ Top.at = "convert"
    /\ tz_lock' = FALSE
    /\ Advance("check")
    /\ UNCHANGED <<running, sys_lock, exit>>

CheckLevel ==
    /\ Top.at = "check"
    /\ \/ Top.prio > conf.level /\ Leave
       \/ /\ Top.prio <= conf.level
          /\ Advance(IF conf.use_syslog THEN "vsyslog" ELSE "fprintf")
          /\ UNCHANGED running
    /\ UNCHANGED <<tz_lock, sys_lock, exit>>

SyslogEnter ==
    /\ Top.at = "vsyslog" /\ ~sys_lock
    /\ sys_lock' = TRUE
    /\ Advance("send")
    /\ UNCHANGED <<running, tz_lock, exit>>

SyslogLeave ==
    /\ Top.at = "send"
    /\ sys_lock' = FALSE
    /\ Leave
    /\ UNCHANGED <<tz_lock, exit>>

(* A closed log file is a null FILE pointer: fprintf() may die of it.      *)
WriteFile ==
    /\ Top.at = "fprintf"
    /\ \/ Leave /\ UNCHANGED exit
       \/ /\ conf.use_file /\ conf.log_fp = "closed"
          /\ exit' = "segv"
          /\ UNCHANGED <<calls, running>>
    /\ UNCHANGED <<tz_lock, sys_lock>>

log_message ==
    /\ Alive /\ calls # <<>>
    /\ \/ LocaltimeEnter \/ LocaltimeLeave \/ CheckLevel
       \/ SyslogEnter \/ SyslogLeave \/ WriteFile
    /\ UNCHANGED <<conf, at, asked, messages>>

-----------------------------------------------------------------------------
(* The handler logs first.  sa_mask is empty: only the signal itself is    *)
(* blocked meanwhile, the other one can interrupt the handler.             *)
signal_handler(sig) ==
    /\ Alive /\ at \in {"work", "cleanup", "stopped"}
    /\ \A i \in DOMAIN calls : calls[i].by # sig
    /\ asked' = TRUE
    /\ Call(sig, LOG_LEVEL_INFO)
    /\ UNCHANGED <<conf, at, tz_lock, sys_lock, running, messages, exit>>

Proceed ==
    \/ logging_init \/ install_signal_handlers \/ LeaveLoop
    \/ logging_cleanup \/ Return \/ log_message

Next ==
    \/ Proceed
    \/ \E prio \in {LOG_LEVEL_ERR, LOG_LEVEL_INFO, LOG_LEVEL_DEBUG} : Log(prio)
    \/ \E sig \in Signals : signal_handler(sig)

(* A process that is not blocked is scheduled.                             *)
FairSpec == Init /\ [][Next]_vars /\ WF_vars(Proceed)

-----------------------------------------------------------------------------
(* daemon_funcs.c:18: "Signal handler for graceful shutdown".  A process   *)
(* that was asked to stop comes to an end.                                 *)
GracefulShutdown == asked ~> (exit # "no")
=============================================================================
