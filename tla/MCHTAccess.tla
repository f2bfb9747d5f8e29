------------------------------ MODULE MCHTAccess -------------------------------
(* Small instances of HTAccess: one or two FTP hosts, a news server.       *)
EXTENDS HTAccess

Plain(access, host, kind) ==
  [ access |-> access, host |-> host, kind |-> kind, binary |-> FALSE,
    inside |-> FALSE, rule |-> "none" ]

Files(host) ==
  { [ Plain("ftp", host, "file") EXCEPT !.binary = b ] : b \in BOOLEAN }

MCRequests ==
  Files("info") \cup
  { Plain("file", "here", "file"), [ Plain("file", "here", "file") EXCEPT !.inside = TRUE ],
    Plain("news", "news", "list"), Plain("news", "news", "group"),
    Plain("http", "info", "file"),
    [ Plain("http", "info", "file") EXCEPT !.rule = "forbidden" ],
    Plain("gopher", "info", "menu"), Plain("gopher", "info", "index"),
    Plain("gopher", "info", "cso"), Plain("gopher", "info", "file"),
    Plain("telnet", "info", "file"), Plain("unknown", "info", "file") }

MCRequestsOfHosts == UNION { Files(host) : host \in FtpHosts }

=============================================================================
