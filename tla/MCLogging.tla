------------------------------ MODULE MCLogging ------------------------------
(* The quiet default with a log file, verbose to a file, debug to syslog.  *)
EXTENDS Logging

Conf(level, syslog) == [level |-> level, use_syslog |-> syslog, use_file |-> ~syslog]
MCConfigs == {Conf(5, FALSE), Conf(6, FALSE), Conf(7, TRUE)}
=============================================================================
