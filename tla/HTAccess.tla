------------------------------- MODULE HTAccess --------------------------------
(***************************************************************************)
(* HTAccess.c: a document is asked for, the protocol module for its        *)
(* address loads it, and what the module returns is judged.  The protocol  *)
(* modules are composed here over the sockets and the input buffer they    *)
(* share; loads follow one another, and in between servers close           *)
(* connections that were kept.                                             *)
(***************************************************************************)
EXTENDS HTInput

CONSTANTS FtpHosts, ConnectionIds,   \* see HTFTP
          NewsHost, MaxArticles,     \* see HTNews
          MaxLines,                  \* see HTGopher
          ThisHost,                  \* see HTFile
          Requests,                  \* what may be asked for, see Load
          MaxUnread,                 \* bound: replies unread when a load starts
          Mixed                      \* may the input be shared, see WithinBounds

VARIABLES ftp, news, http, gopher, pc, request, status, text

vars == << net, ftp, news, http, gopher, pc, request, status, text >>

FTP    == INSTANCE HTFTP
News   == INSTANCE HTNews
Web    == INSTANCE HTTP
Gopher == INSTANCE HTGopher
File   == INSTANCE HTFile

HT_LOADED    == 29999
HT_NO_ACCESS == -10
HT_NO_DATA   == -9999
LoadError    == -500

(* `rule' is what the rules and the gateway variables make of the address. *)
(* `inside': the destination is an anchor inside the document.  `open' is  *)
(* history: the sockets open when the load began.                          *)
RequestSet ==
  [ access : { "ftp", "file", "news", "http", "gopher", "telnet", "wais", "unknown" },
    host : STRING, kind : STRING, binary : BOOLEAN, inside : BOOLEAN,
    rule : { "none", "forbidden", "gateway" } ]

Hosts == FtpHosts \cup { NewsHost } \cup { r.host : r \in Requests }

(* What is asked for by FTP is a host with a server for it. *)
ASSUME RequestAssumption ==
  /\ Requests \subseteq RequestSet
  /\ \A r \in Requests : r.access \in { "ftp", "file" } => r.host \in FtpHosts \cup { ThisHost }

(* A host stands for its FTP server, NewsHost for the news server. *)
ASSUME HostAssumption ==
  /\ Hosts \cap Nobodies = { } /\ NewsHost \notin FtpHosts
  /\ IsFiniteSet(FtpHosts) /\ IsFiniteSet(ConnectionIds)
  /\ ConnectionIds \subseteq Nat \ { Null }
  /\ Cardinality(FtpHosts) < Cardinality(ConnectionIds)

ASSUME BoundAssumption ==
  MaxUnread \in Nat /\ MaxArticles \in Nat /\ MaxLines \in Nat /\ Mixed \in BOOLEAN

NoRequest == [ access |-> "none", open |-> { } ]

Protocols == { "ftp", "file", "news", "http", "gopher", "telnet" }

(* HTLoadFile serves both. *)
LoadRoutine(access) == IF access = "ftp" THEN "file" ELSE access

Init ==
  /\ net = InitialNet /\ ftp = FTP!InitialFtp /\ news = News!InitialNews
  /\ http = Web!InitialHttp /\ gopher = Gopher!InitialGopher
  /\ pc = "idle" /\ request = NoRequest /\ status = 0 /\ text = FALSE

KeepsFtp  == Range(ftp.connections) # { }
KeepsNews == news.s # Null

Kept == { ftp.cons[c] : c \in Range(ftp.connections) }

(* What a read from a connection has still to bring, and the replies in it *)
(* that the loads before have left.                                        *)
Pending(n, fd) == (IF n.fd = fd THEN n.buffer ELSE << >>) \o n.sockets[fd].wire
Unread(fd) ==
  LET rest == Pending(net, fd) IN { i \in DOMAIN rest : rest[i] # Notice }

(* Bounds: how many replies loads may have left unread; and, unless        *)
(* Mixed, that the input is not used by one protocol while another keeps a *)
(* connection that reads from it.                                          *)
WithinBounds(r) ==
  /\ \A fd \in { k.socket : k \in Kept } \cup { news.s } :
       fd # Null => Cardinality(Unread(fd)) <= MaxUnread
  /\ Mixed \/ /\ KeepsFtp  => r.access \notin { "news", "gopher" }
              /\ KeepsNews => r.access \notin { "ftp", "file", "gopher" }

-----------------------------------------------------------------------------
(* HTLoadAnchor, HTLoadDocument *)
Load ==
  /\ pc = "idle"
  /\ \E r \in Requests :
       /\ WithinBounds(r)
       /\ request' = [ access |-> r.access, host |-> r.host, kind |-> r.kind,
                       binary |-> r.binary, inside |-> r.inside, rule |-> r.rule,
                       open |-> OpenSockets(net) ]
  /\ pc' = "load" /\ UNCHANGED << net, ftp, news, http, gopher, status, text >>

AlreadyLoaded ==
  /\ pc = "load"
  /\ pc' = "return" /\ status' = HT_LOADED /\ text' = TRUE
  /\ UNCHANGED << net, ftp, news, http, gopher, request >>

(* get_physical, and HTLoad's call of what was found.  The address of a    *)
(* gateway is an http one; "wais" has one by default.                      *)
Access ==
  IF request.rule = "gateway" \/ request.access = "wais" THEN "http" ELSE request.access

Forbidden ==
  /\ pc = "load" /\ request.rule = "forbidden"
  /\ pc' = "return" /\ status' = LoadError
  /\ UNCHANGED << net, ftp, news, http, gopher, request, text >>

NoProtocol ==
  /\ pc = "load" /\ request.rule # "forbidden" /\ Access \notin Protocols
  /\ pc' = "return" /\ status' = HT_NO_ACCESS
  /\ UNCHANGED << net, ftp, news, http, gopher, request, text >>

CallProtocol ==
  /\ pc = "load" /\ request.rule # "forbidden" /\ Access \in Protocols
  /\ pc' = LoadRoutine(Access)
  /\ ftp' = FTP!FtpCalled(ftp) /\ http' = Web!HttpCalled(http)
  /\ UNCHANGED << net, news, gopher, request, status, text >>

LoadByProtocol ==
  \/ FTP!HTFTPLoad /\ UNCHANGED << news, http, gopher >>
  \/ News!HTLoadNews /\ UNCHANGED << ftp, http, gopher >>
  \/ Web!HTLoadHTTP /\ UNCHANGED << ftp, news, gopher >>
  \/ Gopher!HTLoadGopher /\ UNCHANGED << ftp, news, http >>
  \/ File!HTLoadFile /\ UNCHANGED << ftp, news, http, gopher >>
  \/ File!HTLoadTelnet /\ UNCHANGED << ftp, news, http, gopher >>

(* What the protocol module has returned: loaded, no data and failed are   *)
(* known, anything else ends the program.  An anchor inside a document is  *)
(* looked for in its text.                                                 *)
Finish ==
  /\ pc = "return"
  /\ pc' = IF status >= 0 /\ status # HT_LOADED THEN "exit"
           ELSE IF status = HT_LOADED /\ request.inside /\ ~ text THEN "null text"
           ELSE "idle"
  /\ request' = NoRequest /\ status' = 0 /\ text' = FALSE
  /\ ftp' = FTP!FtpCalled(ftp) /\ http' = Web!HttpCalled(http)
  /\ UNCHANGED << net, news, gopher >>

(* A server closes a connection that is not in use, an FTP server perhaps  *)
(* with a notice.                                                          *)
ServerCloses ==
  /\ pc = "idle"
  /\ \E fd \in OpenSockets(net) :
       /\ net.sockets[fd].up
       /\ net.sockets[fd].session # "none" \/ fd = news.s
       /\ \E last \in IF net.sockets[fd].peer \in FtpHosts THEN { << >>, << Notice >> } ELSE { << >> } :
            net' = With(net, fd, [ net.sockets[fd] EXCEPT !.up = FALSE, !.wire = @ \o last ])
  /\ UNCHANGED << ftp, news, http, gopher, pc, request, status, text >>

HTLoadAnchor ==
  \/ Load \/ AlreadyLoaded \/ Forbidden \/ NoProtocol \/ CallProtocol
  \/ LoadByProtocol \/ Finish

Next == HTLoadAnchor \/ ServerCloses

(* Once a load is under way the program goes on with it as long as it can. *)
Fairness == WF_vars(pc # "idle" /\ HTLoadAnchor)

Spec == Init /\ [][Next]_vars /\ Fairness

-----------------------------------------------------------------------------
(* Where the program reads, and waits when nothing has come; and where     *)
(* else it may be.                                                         *)
Reading ==
  { "greeting", "user", "pass", "acct", "port", "type", "retr", "cwd", "nlst",
    "final file", "final directory", "news greeting", "news command", "news body",
    "news head reply", "news head", "gopher menu", "gopher cso" }

Stopped == { "idle", "exit", "double free", "null text", "null pointer" }

Labels ==
  Reading \cup Stopped \cup
  { "load", "return", "ftp", "listen", "accept file", "accept directory", "file",
    "news", "news try", "http", "http send", "http reply", "gopher", "gopher send",
    "gopher file", "telnet" }

TypeOK ==
  /\ net \in Nets(Hosts) /\ FTP!FtpOK /\ News!NewsOK /\ Web!HttpOK /\ Gopher!GopherOK
  /\ pc \in Labels /\ status \in Int /\ text \in BOOLEAN

(* Between loads the connections on the list are open, each to its host,   *)
(* one to a host, and with the type of transfer that the connection's flag *)
(* says: the close of a connection, from any of the places that find it    *)
(* lost, and the list never disagree.                                      *)
KeptConnectionsAreTheirOwn ==
  pc = "idle" =>
    /\ \A k \in Kept :
         /\ IsOpen(net, k.socket) /\ net.sockets[k.socket].peer = k.host
         /\ k.owes \/ net.sockets[k.socket].session = FTP!ModeOf(k.binary)
    /\ \A i, j \in DOMAIN ftp.connections :
         ftp.cons[ftp.connections[i]].host = ftp.cons[ftp.connections[j]].host => i = j
    /\ news.s # Null => IsOpen(net, news.s) /\ net.sockets[news.s].peer = NewsHost

(* Between loads every reply to a command of an earlier load has been      *)
(* taken from a kept connection, unless a transfer was abandoned.          *)
RepliesAreAllRead ==
  pc = "idle" =>
    /\ \A k \in Kept : k.owes \/ net.sockets[k.socket].wire \in { << >>, << Notice >> }
    /\ news.s # Null => net.sockets[news.s].wire = << >>

(* A document loaded by FTP comes from the host that was asked for it.     *)
DocumentsComeFromTheirHost ==
  pc = "return" /\ status = HT_LOADED /\ ftp.source # "nobody"
    => ftp.source = request.host

(* A kept connection that was lost is no reason for an FTP load to fail at *)
(* the port command: only one that this load has made itself is.           *)
IdleLossIsRetried ==
  [][ pc = "port" /\ pc' = "return" /\ status' = FTP!Failed => ftp.fresh ]_vars

(* A load that succeeds leaves no socket open that was not open before,    *)
(* except for the connections its protocol keeps and FTP's listening       *)
(* socket; a directory's data socket is the exception.                     *)
SuccessLeaksNoSocket ==
  pc = "return" /\ status = HT_LOADED =>
    OpenSockets(net) \subseteq
      request.open \cup { k.socket : k \in Kept } \cup { news.s, ftp.master_socket }
        \cup { fd \in Fds : net.sockets[fd].peer = "data" }

(* A menu's link is of its line, name and address both. *)
MenuAnchorsAreOfTheirLine ==
  gopher.link.by = "other" =>
    gopher.link.text = "this line" /\ gopher.link.address = "this line"

Blocked == pc \in Reading /\ ~ ftp.lost /\ ~ news.lost /\ HTGetChararcter(net) = { }

(* A load ends, in one way or another, or waits for a server for ever: the *)
(* loops that try again come to an end.                                    *)
LoadsEndOrWait ==
  pc # "idle" ~> pc \in Stopped \/ Blocked

(* With servers that answer each command, or close, a load waits for ever  *)
(* only at the end of a file's transfer, where the reply it waits for has  *)
(* been thrown away: nowhere else does it read what nobody was asked for,  *)
(* over kept and new connections, repetitions, lists and groups.           *)
NoOtherWaitIsInVain == Blocked => pc = "final file"

(* What the loader does not know of, so that the program ends, is no       *)
(* refusal by a server: it is the loss of the control connection in an FTP *)
(* load, -1, negated.                                                      *)
OnlyLossesEndTheProgram ==
  pc = "return" /\ status >= 0 /\ status # HT_LOADED =>
    /\ status = 1 /\ LoadRoutine(Access) = "file"
    /\ ftp.control # Null => ~ IsOpen(net, FTP!Control(ftp).socket)

=============================================================================
