--------------------------------- MODULE HTFTP ---------------------------------
(***************************************************************************)
(* HTFTP.c: loading a file or a directory over a control connection that   *)
(* is kept for the next load, data coming over a second connection the     *)
(* server makes to a socket this side listens on.                          *)
(*                                                                         *)
(* `pc' names the reply awaited; a step takes the reply and, as the code   *)
(* does before it waits again, sends the next command.                     *)
(***************************************************************************)
EXTENDS HTInput

CONSTANTS FtpHosts,   \* hosts with an FTP server
          ConnectionIds   \* memory for a connection to each host, and one more

VARIABLES ftp,        \* the module's static variables, see InitialFtp
          pc,         \* what the program is waiting for or doing next
          request,    \* the load under way
          status,     \* what the protocol module has returned
          text        \* whether the document has a text to select

(* `cons' holds the connections ever linked on the list `connections'; one *)
(* that was closed stays in memory, and `control' may still point to it.   *)
(* `lost': the last command could not be written.  `fresh', `owes' and     *)
(* `source' are history: whether this load made the connection, whether a  *)
(* reply of an abandoned transfer is still to come on it, and the host the *)
(* last document came from.                                                *)
HT_LOADED == 29999
LoadError == -500     \* what HTLoadError returns: its number, negated
Failed    == -99      \* any of -1, -99 and a negated errno

Connection(fd, host) ==
  [ socket |-> fd, host |-> host, binary |-> FALSE, owes |-> FALSE ]

InitialFtp ==
  [ connections |-> << >>, cons |-> [ c \in ConnectionIds |-> Connection(Null, "nobody") ],
    control |-> Null, master_socket |-> Null,
    retry |-> 0, lost |-> FALSE, fresh |-> FALSE, source |-> "nobody" ]

Connections ==
  [ socket : Fds \cup { Null }, host : FtpHosts \cup { "nobody" },
    binary : BOOLEAN, owes : BOOLEAN ]

FtpOK ==
  ftp \in [ connections : Seq(ConnectionIds), cons : [ ConnectionIds -> Connections ],
            control : ConnectionIds \cup { Null }, master_socket : Fds \cup { Null },
            retry : 0 .. 1, lost : BOOLEAN, fresh : BOOLEAN,
            source : FtpHosts \cup { "nobody" } ]

Control(f) == f.cons[f.control]

(* Slip: the connection is closed but stays on the list. *)
close_connection_listed(n, f) ==
  [ net |-> Close(n, Control(f).socket), ftp |-> f ]

(* Only the connection in use is ever closed; when it heads the list the   *)
(* routine returns before it is forgotten.                                 *)
close_connection(n, f) ==
  [ net |-> Close(n, Control(f).socket),
    ftp |-> IF f.connections # << >> /\ Head(f.connections) = f.control
            THEN [ f EXCEPT !.connections = Tail(@) ]
            ELSE IF f.control \in Range(f.connections)
            THEN [ f EXCEPT !.connections = RemoveFirst(@, f.control),
                            !.control = Null ]
            ELSE f ]

(***************************************************************************)
(* The server: what it may answer to a command, or it closes, with or      *)
(* without the notice.  A transfer's final reply follows the first, and a  *)
(* read may bring both.                                                    *)
(***************************************************************************)
FtpServer(cmd, peer, session) ==
  LET answer(wire, s) == [ wire |-> wire, up |-> TRUE, session |-> s ]
      gone(wire)      == [ wire |-> wire, up |-> FALSE, session |-> session ]
      refusal == { answer(<< 5 >>, session) }
      served  ==
        CASE cmd = "USER" -> { answer(<< 3 >>, "none"), answer(<< 2 >>, "A") }
          [] cmd = "PASS" -> { answer(<< 3 >>, "none"), answer(<< 2 >>, "A") }
          [] cmd = "ACCT" -> { answer(<< 2 >>, "A") }
          [] cmd \in { "PORT", "CWD" } -> { answer(<< 2 >>, session) }
          [] cmd \in { "A", "I" } -> { answer(<< 2 >>, cmd) }
          [] cmd \in { "RETR", "NLST" } ->
               { answer(<< 1, 2 >>, session), answer(<< 1, 4 >>, session), gone(<< 1 >>) }
      loggedIn == session # "none" \/ cmd \in { "USER", "PASS", "ACCT" }
  IN  IF peer \notin FtpHosts THEN refusal
      ELSE refusal \cup { gone(<< >>), gone(<< Notice >>) }
             \cup (IF loggedIn THEN served ELSE { })

(* response(), up to the point where it waits for the reply. *)
Command(n, f, cmd) ==
  IF f.control = Null THEN { [ net |-> n, ftp |-> [ f EXCEPT !.lost = TRUE ] ] }
  ELSE { IF w.sent THEN [ net |-> w.net, ftp |-> f ]
         ELSE [ close_connection(w.net, f) EXCEPT !.ftp.lost = TRUE ]
         : w \in Write(n, Control(f).socket,
                       LAMBDA peer, session : FtpServer(cmd, peer, session)) }

(* The rest of response(): the first digit of the reply, or -1.  Lines of  *)
(* a continued reply are one reply here.                                   *)
Reply(n, f) ==
  IF f.lost THEN { [ digit |-> -1, net |-> n, ftp |-> [ f EXCEPT !.lost = FALSE ] ] }
  ELSE UNION { { IF number \in { EOF, Notice }
                 THEN LET closed == close_connection(o.net, f)
                      IN  [ digit |-> -1, net |-> closed.net, ftp |-> closed.ftp ]
                 ELSE [ digit |-> number, net |-> o.net, ftp |-> f ]
                 : number \in IF o.item = EOF THEN { EOF } ELSE NumbersOf(o.item) }
               : o \in HTGetChararcter(n) }

Goto(n, f, label)   ==
  net' = n /\ ftp' = f /\ pc' = label /\ UNCHANGED << request, status, text >>
Ask(n, f, cmd, label) == \E o \in Command(n, f, cmd) : Goto(o.net, o.ftp, label)
Return(n, f, value) ==
  net' = n /\ ftp' = f /\ pc' = "return" /\ status' = value /\ UNCHANGED << request, text >>
(* A document read, with or without a text to show for it. *)
Transferred(n, f, shown, label) ==
  net' = n /\ ftp' = f /\ pc' = label /\ text' = shown /\ UNCHANGED << request, status >>

(* One reply at label: what to do with it. *)
OnReply(label, Do(_)) == pc = label /\ \E r \in Reply(net, ftp) : Do(r)

-----------------------------------------------------------------------------
(* get_connection *)
HostUnknown == pc = "ftp" /\ Return(net, ftp, Failed)

Listed(f, host) == { c \in Range(f.connections) : f.cons[c].host = host }

(* A connection to the host is on the list; the one in use stays as it is. *)
AlreadyConnected ==
  /\ pc = "ftp" /\ Listed(ftp, request.host) # { }
  /\ Goto(net, ftp, "listen")

CannotConnect ==
  /\ pc = "ftp" /\ Listed(ftp, request.host) = { }
  /\ Return(net, ftp, Failed)

Connect ==
  /\ pc = "ftp" /\ Listed(ftp, request.host) = { }
  /\ FreeSockets(net) # { }
  /\ \E greeting \in { << 2 >>, << 5 >>, << Notice >> } :
       LET fd == NewSocket(net)
           c  == Min(ConnectionIds \ (Range(ftp.connections) \cup { ftp.control }))
       IN  Goto(HTInitInput(With(net, fd, Socket(request.host, greeting)), fd),
                [ ftp EXCEPT !.cons = [ i \in ConnectionIds |->
                                          IF i = c THEN Connection(fd, request.host)
                                          ELSE IF i \in Range(ftp.connections) THEN @[i]
                                          ELSE Connection(Null, "nobody") ],
                             !.control = c, !.connections = << c >> \o @,
                             !.fresh = TRUE ],
                "greeting")

LoginFailed(r) ==
  LET closed == IF r.ftp.control = Null THEN [ net |-> r.net, ftp |-> r.ftp ]
                ELSE close_connection(r.net, r.ftp)
  IN  Return(closed.net, closed.ftp, Failed)

(* A greeting that asks for a password at once is taken at its word. *)
Greeting ==
  OnReply("greeting", LAMBDA r :
    \/ r.digit = 2 /\ Ask(r.net, r.ftp, "USER", "user")
    \/ r.digit = 3 /\ Ask(r.net, r.ftp, "PASS", "pass")
    \/ r.digit \notin { 2, 3 } /\ LoginFailed(r))

(* After the name the server may be content, or ask for a password, after  *)
(* that for an account.                                                    *)
LoginReply(label, cmd, next) ==
  OnReply(label, LAMBDA r :
    \/ r.digit = 2 /\ Goto(r.net, r.ftp, "listen")
    \/ r.digit = 3 /\ cmd # "none" /\ Ask(r.net, r.ftp, cmd, next)
    \/ r.digit \notin (IF cmd = "none" THEN { 2 } ELSE { 2, 3 }) /\ LoginFailed(r))

get_connection ==
  \/ HostUnknown \/ AlreadyConnected \/ CannotConnect \/ Connect \/ Greeting
  \/ LoginReply("user", "PASS", "pass")
  \/ LoginReply("pass", "ACCT", "acct")
  \/ LoginReply("acct", "none", "none")

-----------------------------------------------------------------------------
(* The listening socket is a new one for every load, made before the old   *)
(* one is closed.  On failure the new one may be left open: after socket() *)
(* nothing closes it.                                                      *)
get_listen_socket ==
  /\ pc = "listen" /\ FreeSockets(net) # { }
  /\ LET fd   == NewSocket(net)
         open == With(net, fd, Listening)
     IN  /\ IsOpen(open, Control(ftp).socket)     \* whose address is asked for
         /\ Ask(Close(open, ftp.master_socket), [ ftp EXCEPT !.master_socket = fd ],
                "PORT", "port")

NoListenSocket ==
  /\ pc = "listen"
  /\ \/ Return(net, ftp, Failed)
     \/ /\ FreeSockets(net) # { }
        /\ LET open == With(net, NewSocket(net), Listening)
           IN  \/ Return(open, ftp, Failed)
               \/ Return(Close(open, ftp.master_socket),     \* listen() failed
                         [ ftp EXCEPT !.master_socket = Null ], Failed)

-----------------------------------------------------------------------------
(* HTFTPLoad *)
FtpCalled(f) ==
  [ f EXCEPT !.retry = 0, !.lost = FALSE, !.fresh = FALSE, !.source = "nobody" ]

ModeOf(binary) == IF binary THEN "I" ELSE "A"

RequestFile(n, f) ==
  IF request.binary # Control(f).binary
  THEN Ask(n, f, ModeOf(request.binary), "type") ELSE Ask(n, f, "RETR", "retr")

(* Slip: a lost connection is an error at once. *)
PortReplyNeverRetries ==
  OnReply("port", LAMBDA r :
    \/ r.digit = 2 /\ RequestFile(r.net, r.ftp)
    \/ r.digit # 2 /\ Return(r.net, r.ftp, IF r.digit < 0 THEN Failed ELSE - r.digit))

(* A connection may have been lost since the last load: once, the load     *)
(* starts again on a new one.                                              *)
PortReply ==
  OnReply("port", LAMBDA r :
    \/ r.digit = 2 /\ RequestFile(r.net, r.ftp)
    \/ /\ r.digit < 0
       /\ IF ftp.retry = 0 THEN Goto(r.net, [ r.ftp EXCEPT !.retry = 1 ], "ftp")
          ELSE Return(r.net, r.ftp, Failed)
    \/ r.digit >= 0 /\ r.digit # 2 /\ Return(r.net, r.ftp, - r.digit))

(* Every failed command from here on is its reply negated, a loss too. *)
TypeReply ==
  OnReply("type", LAMBDA r :
    \/ /\ r.digit = 2
       /\ Ask(r.net, [ r.ftp EXCEPT !.cons[r.ftp.control].binary = request.binary ],
              "RETR", "retr")
    \/ r.digit # 2 /\ Return(r.net, r.ftp, - r.digit))

RetrReply ==
  OnReply("retr", LAMBDA r :
    \/ r.digit = 1 /\ Goto(r.net, r.ftp, "accept file")
    \/ r.digit # 1 /\ Ask(r.net, r.ftp, "CWD", "cwd"))

CwdReply ==
  OnReply("cwd", LAMBDA r :
    \/ r.digit = 2 /\ Ask(r.net, r.ftp, "NLST", "nlst")
    \/ r.digit = 1 /\ Goto(r.net, r.ftp, "accept file")
    \/ r.digit \notin { 1, 2 } /\ Return(r.net, r.ftp, - r.digit))

(* Slip: the reply is returned as it is. *)
NlstReply_positive ==
  OnReply("nlst", LAMBDA r :
    \/ r.digit = 1 /\ Goto(r.net, r.ftp, "accept directory")
    \/ r.digit # 1 /\ Return(r.net, r.ftp, r.digit))

NlstReply ==
  OnReply("nlst", LAMBDA r :
    \/ r.digit = 1 /\ Goto(r.net, r.ftp, "accept directory")
    \/ r.digit # 1 /\ Return(r.net, r.ftp, - r.digit))

(* The final reply of the transfer is still to come when accept() fails. *)
AcceptFails ==
  /\ pc \in { "accept file", "accept directory" }
  /\ Return(net, [ ftp EXCEPT !.cons[ftp.control].owes = TRUE ], Failed)

(* A file goes through HTParseSocket, which takes the shared input for the *)
(* data; then the input is reset to the control connection.                *)
TransferFile ==
  /\ pc = "accept file" /\ FreeSockets(net) # { }
  /\ \E shown \in BOOLEAN :
       Transferred(HTInitInput(net, Control(ftp).socket),
                   [ ftp EXCEPT !.source = Control(ftp).host ], shown, "final file")

(* A directory is read through a buffer of its own, and the data socket is *)
(* not closed.                                                             *)
read_directory ==
  /\ pc = "accept directory" /\ FreeSockets(net) # { }
  /\ LET fd == NewSocket(net)
     IN  Transferred(With(net, fd, [ Socket("data", << >>) EXCEPT !.up = FALSE ]),
                     [ ftp EXCEPT !.source = Control(ftp).host ], TRUE, "final directory")

(* Slip: a file's final reply is left to the next load. *)
FinalReplyLater ==
  /\ pc = "final file" /\ Return(net, ftp, HT_LOADED)

FinalReply ==
  \/ OnReply("final file", LAMBDA r :
       Return(r.net, r.ftp, IF r.digit = 2 THEN HT_LOADED ELSE LoadError))
  \/ OnReply("final directory", LAMBDA r :
       Return(r.net, r.ftp, IF r.digit = 2 THEN HT_LOADED ELSE Failed))

HTFTPLoad ==
  \/ get_connection \/ get_listen_socket \/ NoListenSocket
  \/ PortReply \/ TypeReply \/ RetrReply \/ CwdReply \/ NlstReply
  \/ AcceptFails \/ TransferFile \/ read_directory \/ FinalReply

=============================================================================
