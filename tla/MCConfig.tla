------------------------------ MODULE MCConfig ------------------------------
(* Options at the edges of every range, one of every mode, and files that  *)
(* set, clear, misspell, leave blank and break off.                        *)
EXTENDS Config

Flag(f) == [opt |-> "flag", field |-> f]
Number(f, n) == [opt |-> "number", field |-> f, number |-> n]
Path(f, long) == [opt |-> "path", field |-> f, too_long |-> long]
Redirect(s, a) == [opt |-> "redirect", field |-> s, address |-> a]
Mode(m) == [opt |-> "mode", mode |-> m]
Load(ls) == [opt |-> "load", lines |-> ls]
Other(o) == [opt |-> o]

Text(b, n, a) == [is_true |-> b, number |-> n, address |-> a]
True == Text(TRUE, 0, "addr")
False == Text(FALSE, 0, "addr")
Num(n) == Text(n = 1, n, "addr")
Blank == Text(FALSE, 0, "blank")
NoText == Text(FALSE, 0, "empty")

Skip == [kind |-> "skip"]
Bad == [kind |-> "bad"]
Set(k, v) == [kind |-> "set", key |-> k, spaced |-> FALSE, value |-> v]
SetSpaced(k, v) == [kind |-> "set", key |-> k, spaced |-> TRUE, value |-> v]

MCUintRange == 2^20

MCOptions ==
    {Other(o) : o \in {"help", "unknown", "no_file"}} \cup
    {Flag(f) : f \in {"daemon_mode", "systemd_mode", "reverse_fragmentation"}} \cup
    {Number(f, n) : f \in Sizes, n \in {0, 1, 1500, 1501, 65536}} \cup
    {Number("dns_port", n) : n \in {0, 1, 65535, 65536}} \cup
    {Number("nfqueue_num", n) : n \in {NotANumber, 0, 65535, 65536}} \cup
    {Path("pid_file", TRUE), Path("log_file", FALSE)} \cup
    {Redirect("dns_server_v4", a) : a \in {"addr", "empty", "too_long"}} \cup
    {Mode(m) : m \in 1..9} \cup
    {Load(<<Skip, Set("http_fragment_size", Num(0)), Set("daemon_mode", False)>>),
     Load(<<Set("https_fragment_size", Num(-1))>>),
     Load(<<Set("dns_redirect_ipv4", True), Set("dns_server_v4", Blank)>>),
     Load(<<Set("dns_redirect_ipv6", True), Set("dns_server_v6", NoText)>>),
     Load(<<Skip, SetSpaced("host_mixedcase", True)>>),
     Load(<<Set("unknown", True), Set("fake_packet", Num(1)), Bad>>)}
=============================================================================
