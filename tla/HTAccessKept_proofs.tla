-------------------------- MODULE HTAccessKept_proofs --------------------------
(***************************************************************************)
(* The connections that FTP and News keep between loads stay in step with  *)
(* their servers: between loads each is open, to its host, in the type of  *)
(* transfer its flag says, and has no reply left unread.  This is so for   *)
(* one FTP host and while the input is not shared by two protocols; the    *)
(* sockets, documents, and the replies left by abandoned transfers are     *)
(* what they may be.                                                       *)
(*                                                                         *)
(* The invariant has to hold in the middle of a load.  For each label it   *)
(* says which sequences of items, in the buffer and on the wire together,  *)
(* may still be due (FtpReplies, NewsReplies), and how the session the     *)
(* server keeps relates to the flag (InMode), which lags behind it from    *)
(* the type command to its reply.  Most of the lemmas are about one reply  *)
(* taken from, or one command added to, these sequences.  The rest is that *)
(* others leave the kept connection alone: only one protocol keeps one,    *)
(* and HTTP and Gopher work on sockets of their own (Apart).               *)
(***************************************************************************)
EXTENDS HTAccess_proofs

(* What the items that are due say of the first of them, and of the rest.  *)
LEMMA ItemsDue ==
  ASSUME NEW x \in Items, NEW s \in Seq(Items)
  PROVE  /\ << x >> \o s # << >>
         /\ \A a \in Items : << a >> = << x >> \o s => x = a /\ s = << >>
         /\ \A a, b \in Items : << a, b >> = << x >> \o s => x = a /\ s = << b >>
         /\ \A a, b, c \in Items : << a, b, c >> = << x >> \o s => x = a /\ s = << b, c >>
<1> DEFINE t == << x >> \o s
<1>1. /\ t \in Seq(Items) /\ Len(t) = 1 + Len(s)
      /\ \A i \in 1 .. 1 + Len(s) : t[i] = IF i = 1 THEN x ELSE s[i - 1]
  BY HeadAndRest
<1>2. Len(s) \in Nat /\ DOMAIN s = 1 .. Len(s)
  OBVIOUS
<1>3. t \in Seq(Items) /\ Len(s) \in Nat /\ Len(t) \in Nat /\ Len(t) = 1 + Len(s)
  BY <1>1, <1>2
<1>4. t[1] = x
  BY <1>1, <1>2
<1>5. \A i \in 1 .. Len(s) : s[i] = t[i + 1]
  <2>1. \A i \in 1 .. Len(s) : i + 1 \in 1 .. 1 + Len(s) /\ i + 1 # 1 /\ (i + 1) - 1 = i
    BY <1>2
  <2>2. QED
    BY <1>1, <2>1
<1> HIDE DEF t
<1>6. t # << >>
  BY <1>1, <1>2
<1>7. ASSUME NEW a \in Items, << a >> = t
      PROVE  x = a /\ s = << >>
  <2>1. Len(t) = 1
    BY <1>7
  <2>2. t[1] = a
    BY <1>7
  <2>3. Len(s) = 0
    BY <1>3, <2>1
  <2>4. QED
    BY <1>4, <2>2, <2>3
<1>8. ASSUME NEW a \in Items, NEW b \in Items, << a, b >> = t
      PROVE  x = a /\ s = << b >>
  <2>1. Len(t) = 2
    BY <1>8
  <2>2. t[1] = a /\ t[2] = b
    BY <1>8
  <2>3. Len(s) = 1
    <3> DEFINE p == Len(s)
               q == Len(t)
    <3>1. p \in Nat /\ q \in Nat /\ q = 1 + p /\ q = 2
      BY <1>3, <2>1
    <3> HIDE DEF p, q
    <3>2. p = 1
      BY <3>1
    <3>3. QED
      BY <3>2 DEF p
  <2>4. s[1] = b
    BY <1>5, <2>2, <2>3
  <2>5. << b >> \in Seq(Items) /\ Len(<< b >>) = 1 /\ << b >>[1] = b
    OBVIOUS
  <2> DEFINE u == << b >>
  <2>6. u \in Seq(Items) /\ Len(u) = 1 /\ u[1] = b
    BY <2>5
  <2> HIDE DEF u
  <2>7. Len(s) = Len(u) /\ \A i \in 1 .. Len(s) : s[i] = u[i]
    BY <2>3, <2>4, <2>6
  <2>8. s = u
    BY <2>6, <2>7, SeqEqual
  <2>9. QED
    BY <1>4, <2>2, <2>8 DEF u
<1>9. ASSUME NEW a \in Items, NEW b \in Items, NEW c \in Items, << a, b, c >> = t
      PROVE  x = a /\ s = << b, c >>
  <2>1. Len(t) = 3
    BY <1>9
  <2>2. t[1] = a /\ t[2] = b /\ t[3] = c
    BY <1>9
  <2>3. Len(s) = 2
    <3> DEFINE p == Len(s)
               q == Len(t)
    <3>1. p \in Nat /\ q \in Nat /\ q = 1 + p /\ q = 3
      BY <1>3, <2>1
    <3> HIDE DEF p, q
    <3>2. p = 2
      BY <3>1
    <3>3. QED
      BY <3>2 DEF p
  <2>4. s[1] = b /\ s[2] = c
    BY <1>5, <2>2, <2>3
  <2> DEFINE u == << b, c >>
  <2>5. u \in Seq(Items) /\ Len(u) = 2 /\ u[1] = b /\ u[2] = c
    OBVIOUS
  <2> HIDE DEF u
  <2>6. Len(s) = Len(u) /\ \A i \in 1 .. Len(s) : s[i] = u[i]
    BY <2>3, <2>4, <2>5
  <2>7. s = u
    BY <2>5, <2>6, SeqEqual
  <2>8. QED
    BY <1>4, <2>2, <2>7 DEF u
<1>10. QED
  BY <1>6, <1>7, <1>8, <1>9 DEF t

LEMMA NothingDue ==
  ASSUME NEW s \in Seq(Items), NEW t \in Seq(Items)
  PROVE  /\ s \o t = << >> => s = << >> /\ t = << >>
         /\ << >> \o t = t /\ s \o << >> = s
         /\ \A a \in Items : s \o t = << a >> =>
              \/ s = << >> /\ t = << a >>
              \/ s = << a >> /\ t = << >>
<1>1. /\ s \o t \in Seq(Items) /\ Len(s \o t) = Len(s) + Len(t)
      /\ Len(s) \in Nat /\ Len(t) \in Nat
      /\ \A i \in 1 .. Len(s) + Len(t) :
           (s \o t)[i] = IF i <= Len(s) THEN s[i] ELSE t[i - Len(s)]
  BY ConcatProperties, LenProperties
<1>2. << >> \o t = t /\ s \o << >> = s
  BY ConcatEmptySeq
<1>3. s \o t = << >> => s = << >> /\ t = << >>
  BY <1>1
<1>4. ASSUME NEW a \in Items, s \o t = << a >>
      PROVE  \/ s = << >> /\ t = << a >>
             \/ s = << a >> /\ t = << >>
  <2>1. Len(s) + Len(t) = 1
    BY <1>1, <1>4
  <2>2. CASE Len(s) = 0
    <3>1. s = << >>
      BY <2>2
    <3>2. QED
      BY <1>2, <1>4, <3>1
  <2>3. CASE Len(t) = 0
    <3>1. t = << >>
      BY <2>3
    <3>2. QED
      BY <1>2, <1>4, <3>1
  <2>4. QED
    BY <1>1, <2>1, <2>2, <2>3
<1>5. QED
  BY <1>2, <1>3, <1>4

LEMMA DueOf ==
  ASSUME NEW n \in Nets(Hosts), NEW fd \in Fds
  PROVE  /\ n.buffer \in Seq(Items) /\ n.sockets[fd] \in Sockets(Hosts)
         /\ n.sockets[fd].wire \in Seq(Items) /\ n.sockets[fd].up \in BOOLEAN
         /\ n.sockets[fd].session \in { "none", "A", "I" }
         /\ Pending(n, fd) \in Seq(Items)
         /\ n.fd = fd => Pending(n, fd) = n.buffer \o n.sockets[fd].wire
         /\ n.fd = fd /\ Pending(n, fd) = << >> => n.buffer = << >> /\ n.sockets[fd].wire = << >>
         /\ n.fd = fd /\ n.buffer = << >> => Pending(n, fd) = n.sockets[fd].wire
         /\ n.fd # fd => Pending(n, fd) = n.sockets[fd].wire
<1>1. /\ n.buffer \in Seq(Items) /\ n.sockets[fd] \in Sockets(Hosts)
      /\ n.sockets[fd].wire \in Seq(Items) /\ n.sockets[fd].up \in BOOLEAN
      /\ n.sockets[fd].session \in { "none", "A", "I" }
  BY DEF Nets, Sockets
<1>2. n.fd = fd => Pending(n, fd) = n.buffer \o n.sockets[fd].wire
  BY DEF Pending
<1>3. n.fd # fd => Pending(n, fd) = n.sockets[fd].wire
  BY <1>1, NothingDue DEF Pending
<1>4. n.fd = fd => Pending(n, fd) \in Seq(Items)
  BY <1>1, <1>2, ConcatProperties
<1>5. n.fd = fd /\ Pending(n, fd) = << >> => n.buffer = << >> /\ n.sockets[fd].wire = << >>
  <2> SUFFICES ASSUME n.fd = fd, Pending(n, fd) = << >>
               PROVE  n.buffer = << >> /\ n.sockets[fd].wire = << >>
    OBVIOUS
  <2>1. n.buffer \o n.sockets[fd].wire = << >>
    BY <1>2
  <2>2. QED
    BY <1>1, <2>1, NothingDue
<1>6. n.fd = fd /\ n.buffer = << >> => Pending(n, fd) = n.sockets[fd].wire
  BY <1>1, <1>2, NothingDue
<1>7. n.fd # fd => Pending(n, fd) \in Seq(Items)
  BY <1>1, <1>3
<1>8. QED
  BY <1>1, <1>2, <1>3, <1>4, <1>5, <1>6, <1>7

(* What is still due of the replies while a load waits at a label.         *)
FtpReplies(label) ==
  CASE label \in { "greeting", "acct", "port", "type", "cwd" } -> { << 2 >>, << 5 >> }
    [] label \in { "user", "pass" } -> { << 2 >>, << 3 >>, << 5 >> }
    [] label \in { "retr", "nlst" } -> { << 5 >>, << 1 >>, << 1, 2 >>, << 1, 4 >> }
    [] label \in { "accept file", "accept directory", "final file", "final directory" } ->
         { << 2 >>, << 4 >> }
    [] OTHER -> { }

Silence == { << >>, << Notice >> }

ControlSocket(f) == FTP!Control(f).socket

(* The kept connection is open, to its host, and is what the input reads;  *)
(* the master socket listens.                                              *)
Holds(n, f) ==
  /\ f.connections # << >> =>
       /\ IsOpen(n, ControlSocket(f)) /\ n.fd = ControlSocket(f)
       /\ n.sockets[ControlSocket(f)].peer = FTP!Control(f).host
  /\ f.master_socket # Null => n.sockets[f.master_socket].peer = "listener"

(* The server is not logged in, has the type the flag says, or will have   *)
(* that of the file asked for once its reply is read.                      *)
InMode(label, due, session, binary, wants) ==
  IF label \in LogsIn THEN ~ binary /\ (label # "greeting" /\ due = << 2 >> => session = "A")
  ELSE session = FTP!ModeOf(IF label = "type" /\ due = << 2 >> THEN wants ELSE binary)

InStep(n, f, label, wants) ==
  LET due == Pending(n, ControlSocket(f))
      it  == n.sockets[ControlSocket(f)]
  IN  /\ due \in Silence \cup FtpReplies(label)
      /\ due = << Notice >> /\ label # "greeting" => ~ it.up
      /\ label \notin FtpBusy \/ label = "listen" => n.buffer = << >>
      /\ InMode(label, due, it.session, FTP!Control(f).binary, wants)

FtpHolds(n, f, label, wants) ==
  /\ Holds(n, f)
  /\ f.connections # << >> => FTP!Control(f).owes \/ InStep(n, f, label, wants)
  /\ label \in FtpBusy /\ f.connections = << >> =>
       label \in FtpAsks /\ f.lost /\ ~ IsOpen(n, ControlSocket(f))

(* Nothing is due but the notice of a server that has gone.                *)
Quiet(n, f) ==
  f.connections # << >> =>
    \/ FTP!Control(f).owes
    \/ /\ Pending(n, ControlSocket(f)) \in Silence /\ n.buffer = << >>
       /\ Pending(n, ControlSocket(f)) = << Notice >> => ~ n.sockets[ControlSocket(f)].up

(* While the loads go on.                                                  *)
Going(n, f) ==
  /\ n \in Nets(Hosts) /\ FtpFits(f) /\ f.control # Null /\ OnlyControl(f)

LEMMA RepliesByLabel ==
  /\ \A label \in { "greeting", "acct", "port", "type", "cwd" } :
       FtpReplies(label) = { << 2 >>, << 5 >> }
  /\ \A label \in { "user", "pass" } : FtpReplies(label) = { << 2 >>, << 3 >>, << 5 >> }
  /\ \A label \in { "retr", "nlst" } :
       FtpReplies(label) = { << 5 >>, << 1 >>, << 1, 2 >>, << 1, 4 >> }
  /\ \A label \in { "accept file", "accept directory", "final file", "final directory" } :
       FtpReplies(label) = { << 2 >>, << 4 >> }
  /\ FtpReplies("listen") = { }
<1>1. \A label \in { "greeting", "acct", "port", "type", "cwd" } :
        FtpReplies(label) = { << 2 >>, << 5 >> }
  BY Zenon DEF FtpReplies
<1>2. \A label \in { "user", "pass" } : FtpReplies(label) = { << 2 >>, << 3 >>, << 5 >> }
  BY Zenon DEF FtpReplies
<1>3. \A label \in { "retr", "nlst" } :
        FtpReplies(label) = { << 5 >>, << 1 >>, << 1, 2 >>, << 1, 4 >> }
  BY Zenon DEF FtpReplies
<1>4. \A label \in { "accept file", "accept directory", "final file", "final directory" } :
        FtpReplies(label) = { << 2 >>, << 4 >> }
  BY Zenon DEF FtpReplies
<1>5. FtpReplies("listen") = { }
  BY Zenon DEF FtpReplies
<1>6. QED
  BY <1>1, <1>2, <1>3, <1>4, <1>5

LEMMA ControlFits ==
  ASSUME NEW n, NEW f, Going(n, f)
  PROVE  /\ f \in Ftps /\ f.control \in ConnectionIds
         /\ FTP!Control(f) \in FTP!Connections
         /\ ControlSocket(f) \in Fds \cup { Null }
         /\ FTP!Control(f).owes \in BOOLEAN /\ FTP!Control(f).binary \in BOOLEAN
         /\ f.connections # << >> => FTP!Control(f).host \in FtpHosts
<1>1. f \in Ftps /\ f.control \in ConnectionIds
  BY DEF Going, FtpFits, Ftps
<1>2. FTP!Control(f) \in FTP!Connections
  BY <1>1 DEF FTP!Control, Ftps
<1>3. /\ ControlSocket(f) \in Fds \cup { Null }
      /\ FTP!Control(f).owes \in BOOLEAN /\ FTP!Control(f).binary \in BOOLEAN
  BY <1>2, FtpInput DEF ControlSocket, FTP!Connections
<1>4. ASSUME f.connections # << >>
      PROVE  FTP!Control(f).host \in FtpHosts
  <2>1. f.connections = << f.control >>
    BY <1>4 DEF Going, OnlyControl
  <2>2. 1 \in DOMAIN f.connections /\ f.connections[1] = f.control
    BY <2>1
  <2>3. HostOf(f, 1) \in FtpHosts
    BY <2>2 DEF Going, FtpFits
  <2>4. QED
    BY <2>2, <2>3 DEF HostOf, FTP!Control
<1>5. QED
  BY <1>1, <1>2, <1>3, <1>4

(* A closed control connection is not the socket that listens.             *)
LEMMA ClosedHolds ==
  ASSUME NEW n, NEW f, Going(n, f), Holds(n, f),
         f.connections = << >> => ~ IsOpen(n, ControlSocket(f)),
         NEW g, g.connections = << >>, g.master_socket = f.master_socket, g.control = f.control,
         g.cons = f.cons
  PROVE  LET m == Close(n, ControlSocket(f))
         IN  Holds(m, g) /\ ~ IsOpen(m, ControlSocket(g)) /\ m \in Nets(Hosts)
<1> DEFINE fd == ControlSocket(f)
           m == Close(n, fd)
<1>1. /\ m \in Nets(Hosts)
      /\ \A i \in Fds : m.sockets[i] = IF i = fd THEN Unused ELSE n.sockets[i]
  BY CloseFits DEF Going
<1>2. ControlSocket(g) = fd
  BY DEF ControlSocket, FTP!Control
<1>3. f.master_socket \in Fds \cup { Null } /\ f \in Ftps
  BY ControlFits DEF Ftps
<1>4. ASSUME f.master_socket # Null
      PROVE  m.sockets[f.master_socket].peer = "listener"
  <2>1. n.sockets[f.master_socket].peer = "listener"
    BY <1>4 DEF Holds
  <2>2. f.master_socket # fd
    <3>1. CASE f.connections = << >>
      <4>1. ~ IsOpen(n, fd)
        BY <3>1
      <4>2. Unused.peer # "listener"
        BY EmptySocket
      <4>3. QED
        BY <1>3, <1>4, <2>1, <4>1, <4>2 DEF IsOpen
    <3>2. CASE f.connections # << >>
      <4>1. n.sockets[fd].peer \in Hosts
        BY <3>2, ControlFits DEF Holds, Hosts
      <4>2. "listener" \notin Hosts
        BY HostAssumption DEF Nobodies
      <4>3. QED
        BY <2>1, <4>1, <4>2
    <3>3. QED
      BY <3>1, <3>2
  <2>3. QED
    BY <1>1, <1>3, <1>4, <2>1, <2>2
<1>5. ~ IsOpen(m, fd)
  BY <1>1 DEF IsOpen
<1> HIDE DEF m, fd
<1>6. QED
  BY <1>1, <1>2, <1>4, <1>5 DEF Holds, m, fd

Session(n, f) == n.sockets[ControlSocket(f)].session

(* The command asked at a label, and what must hold of the type then.      *)
Pair(cmd, label, wants) ==
  \/ << cmd, label >> \in
       { << "USER", "user" >>, << "PASS", "pass" >>, << "ACCT", "acct" >>, << "PORT", "port" >>,
         << "RETR", "retr" >>, << "CWD", "cwd" >>, << "NLST", "nlst" >> }
  \/ cmd = FTP!ModeOf(wants) /\ label = "type"

BeforeAsk(n, f, label) ==
  f.connections # << >> =>
    \/ FTP!Control(f).owes
    \/ IF label \in LogsIn THEN ~ FTP!Control(f).binary
       ELSE Session(n, f) = FTP!ModeOf(FTP!Control(f).binary)

LEMMA AnswersInStep ==
  ASSUME NEW cmd, NEW label, NEW wants, Pair(cmd, label, wants), NEW session, NEW a,
         FtpAnswer(cmd, session, a), NEW binary \in BOOLEAN,
         IF label \in LogsIn THEN ~ binary ELSE session = FTP!ModeOf(binary)
  PROVE  /\ a.wire \in Silence \cup FtpReplies(label)
         /\ a.wire = << Notice >> => ~ a.up
         /\ InMode(label, a.wire, a.session, binary, wants)
<1>1. /\ << 1 >> # << 2 >> /\ << 3 >> # << 2 >> /\ << 5 >> # << 2 >> /\ << >> # << 2 >>
      /\ << Notice >> # << 2 >> /\ << 1, 2 >> # << 2 >> /\ << 1, 4 >> # << 2 >>
      /\ << 1 >> # << Notice >> /\ << 2 >> # << Notice >> /\ << 3 >> # << Notice >>
      /\ << 5 >> # << Notice >> /\ << 1, 2 >> # << Notice >> /\ << 1, 4 >> # << Notice >>
      /\ << >> # << Notice >>
  BY DEF Notice
<1>2. a.wire = << Notice >> => ~ a.up
  <2>1. SUFFICES ASSUME a.wire = << Notice >>
                 PROVE  a.up = FALSE
    OBVIOUS
  <2>2. QED
    BY <1>1, <2>1, Zenon DEF FtpAnswer, Answer
<1>3. CASE label \in { "user", "pass" }
  <2>1. cmd \in { "USER", "PASS" } /\ label \in LogsIn
    BY <1>3 DEF Pair, LogsIn
  <2>2. \/ a.wire \in { << 5 >>, << >>, << Notice >>, << 3 >> }
        \/ a.wire = << 2 >> /\ a.session = "A"
    BY <2>1 DEF FtpAnswer, Answer
  <2>3. QED
    BY <1>1, <1>2, <1>3, <2>1, <2>2, RepliesByLabel DEF InMode, Silence
<1>4. CASE label = "acct"
  <2>1. cmd = "ACCT" /\ label \in LogsIn
    BY <1>4 DEF Pair, LogsIn
  <2>2. \/ a.wire \in { << 5 >>, << >>, << Notice >> }
        \/ a.wire = << 2 >> /\ a.session = "A"
    BY <2>1 DEF FtpAnswer, Answer
  <2>3. QED
    BY <1>1, <1>2, <1>4, <2>1, <2>2, RepliesByLabel DEF InMode, Silence
<1>5. CASE label \in { "port", "cwd" }
  <2>1. cmd \in { "PORT", "CWD" } /\ label \notin LogsIn /\ label # "type"
    BY <1>5 DEF Pair, LogsIn
  <2>2. a.wire \in { << 5 >>, << >>, << Notice >>, << 2 >> } /\ a.session = session
    BY <2>1 DEF FtpAnswer, Answer
  <2>3. QED
    BY <1>1, <1>2, <1>5, <2>1, <2>2, RepliesByLabel DEF InMode, Silence
<1>6. CASE label \in { "retr", "nlst" }
  <2>1. cmd \in { "RETR", "NLST" } /\ label \notin LogsIn /\ label # "type"
    BY <1>6 DEF Pair, LogsIn
  <2>2. /\ a.wire \in { << 5 >>, << >>, << Notice >>, << 1, 2 >>, << 1, 4 >>, << 1 >> }
        /\ a.session = session
    BY <2>1 DEF FtpAnswer, Answer
  <2>3. QED
    BY <1>1, <1>2, <1>6, <2>1, <2>2, RepliesByLabel DEF InMode, Silence
<1>7. CASE label = "type"
  <2>1. cmd \in { "A", "I" } /\ cmd = FTP!ModeOf(wants) /\ label \notin LogsIn
    BY <1>7 DEF Pair, LogsIn, FTP!ModeOf
  <2>2. \/ a.wire \in { << 5 >>, << >>, << Notice >> } /\ a.session = session
        \/ a.wire = << 2 >> /\ a.session = cmd
    BY <2>1 DEF FtpAnswer, Answer
  <2>3. QED
    BY <1>1, <1>2, <1>7, <2>1, <2>2, RepliesByLabel DEF InMode, Silence
<1>8. QED
  BY <1>3, <1>4, <1>5, <1>6, <1>7 DEF Pair

LEMMA PairFits ==
  ASSUME NEW cmd, NEW label, NEW wants, Pair(cmd, label, wants)
  PROVE  /\ cmd \in FtpCommands /\ label \in FtpAsks /\ label \in FtpBusy
         /\ label # "greeting" /\ label # "listen"
BY DEF Pair, FtpCommands, FtpAsks, FtpBusy, FTP!ModeOf

LEMMA AskHolds ==
  ASSUME NEW n, NEW f, Going(n, f), ~ f.lost, Holds(n, f), Quiet(n, f),
         f.connections = << >> => ~ IsOpen(n, ControlSocket(f)),
         NEW cmd, NEW label, NEW wants, Pair(cmd, label, wants), BeforeAsk(n, f, label),
         NEW o \in FTP!Command(n, f, cmd)
  PROVE  FtpHolds(o.net, o.ftp, label, wants)
<1> DEFINE fd == ControlSocket(f)
           it == n.sockets[fd]
           k  == FTP!Control(f)
<1>1. /\ cmd \in FtpCommands /\ label \in FtpAsks /\ label \in FtpBusy
      /\ label # "greeting" /\ label # "listen"
  BY PairFits
<1>2. n \in Nets(Hosts) /\ FtpFits(f) /\ f.control # Null /\ OnlyControl(f) /\ f \in Ftps
  BY DEF Going, FtpFits
<1>3. CASE CommandLost(n, f, o)
  <2>1. o.ftp = [ Unlisted(f) EXCEPT !.lost = TRUE ] /\ o.net = Close(n, fd)
    BY <1>3 DEF CommandLost, ControlSocket
  <2>2. Unlisted(f).connections = << >> /\ Unlisted(f) \in Ftps
    BY <1>2, UnlistedIsEmpty, UnlistedFits DEF FtpFits
  <2>3. o.ftp.connections = << >> /\ o.ftp.lost
    BY <2>1, <2>2 DEF Ftps
  <2>4. o.ftp.control = f.control /\ o.ftp.cons = f.cons /\ o.ftp.master_socket = f.master_socket
    BY <1>1, <1>2, FtpCommandSteps DEF FtpStep
  <2>5. o.net = Close(n, fd)
    BY <2>1
  <2>6. Holds(o.net, o.ftp) /\ ~ IsOpen(o.net, ControlSocket(o.ftp))
    BY <2>3, <2>4, <2>5, ClosedHolds
  <2>7. QED
    BY <1>1, <2>3, <2>6 DEF FtpHolds
<1>4. CASE CommandUnheard(n, f, o)
  <2>1. o.net = n /\ o.ftp = f /\ IsOpen(n, fd) /\ ~ it.up
    BY <1>4 DEF CommandUnheard, ControlSocket
  <2>2. f.connections # << >>
    BY <2>1
  <2>3. ASSUME ~ k.owes
        PROVE  InStep(n, f, label, wants)
    <3>1. Pending(n, fd) \in Silence
      BY <2>2, <2>3 DEF Quiet
    <3>2. Pending(n, fd) # << 2 >>
      BY <3>1 DEF Silence, Notice
    <3>3. InMode(label, Pending(n, fd), it.session, k.binary, wants)
      BY <2>2, <2>3, <3>2 DEF BeforeAsk, InMode, Session
    <3>4. QED
      BY <1>1, <2>1, <3>1, <3>3 DEF InStep
  <2>4. QED
    BY <2>1, <2>2, <2>3 DEF FtpHolds
<1>5. CASE CommandAnswered(n, f, cmd, o)
  <2>1. PICK a : /\ FtpAnswer(cmd, it.session, a)
                 /\ a.wire \in Seq(Items) /\ a.up \in BOOLEAN /\ a.session \in { "none", "A", "I" }
                 /\ o.net = With(n, fd, [ it EXCEPT !.wire = @ \o a.wire,
                                            !.up = a.up, !.session = a.session ])
    BY <1>5 DEF CommandAnswered, ControlSocket
  <2>2. o.ftp = f /\ IsOpen(n, fd) /\ it.up /\ fd \in Fds
    BY <1>5 DEF CommandAnswered, ControlSocket, IsOpen
  <2>3. f.connections # << >>
    BY <2>2
  <2> DEFINE next == [ it EXCEPT !.wire = @ \o a.wire, !.up = a.up, !.session = a.session ]
  <2>4. /\ it \in Sockets(Hosts) /\ it.wire \in Seq(Items)
        /\ it.wire \o a.wire \in Seq(Items)
    <3>1. it \in Sockets(Hosts) /\ it.wire \in Seq(Items)
      BY <1>2, <2>2, DueOf
    <3> HIDE DEF it
    <3>2. QED
      BY <2>1, <3>1, ConcatProperties
  <2>5. /\ next \in Sockets(Hosts) /\ next.peer = it.peer /\ next.wire = it.wire \o a.wire
        /\ next.up = a.up /\ next.session = a.session
    <3> HIDE DEF it
    <3>1. QED
      BY <2>1, <2>4 DEF Sockets
  <2>6. o.net = With(n, fd, next)
    BY <2>1
  <2> HIDE DEF next
  <2>7. /\ o.net \in Nets(Hosts) /\ o.net.sockets[fd] = next
        /\ \A g \in Fds : g # fd => o.net.sockets[g] = n.sockets[g]
        /\ o.net.fd = n.fd /\ o.net.buffer = n.buffer
    BY <1>2, <2>2, <2>5, <2>6, WithFits
  <2>8. Holds(n, f) /\ n.fd = fd /\ it.peer = k.host
    BY <2>3 DEF Holds
  <2>9. f.master_socket \in Fds \cup { Null }
    BY <1>2 DEF Ftps
  <2>10. IsOpen(o.net, fd)
    <3>1. k.host \in Hosts /\ "nobody" \notin Hosts
      BY <2>3, ControlFits, HostAssumption DEF Hosts, Nobodies
    <3>2. next.peer # Unused.peer
      BY <2>5, <2>8, <3>1, EmptySocket
    <3>3. QED
      BY <2>2, <2>7, <3>2 DEF IsOpen
  <2>11. Holds(o.net, f)
    <3>1. ASSUME f.master_socket # Null
          PROVE  o.net.sockets[f.master_socket].peer = n.sockets[f.master_socket].peer
      BY <2>5, <2>7, <2>9, <3>1
    <3>2. QED
      BY <2>5, <2>7, <2>8, <2>10, <3>1 DEF Holds
  <2>12. ASSUME ~ k.owes
         PROVE  InStep(o.net, f, label, wants)
    <3>1. /\ Pending(n, fd) \in Silence /\ n.buffer = << >>
          /\ Pending(n, fd) = << Notice >> => ~ it.up
      BY <2>3, <2>12 DEF Quiet
    <3>2. Pending(n, fd) = << >> 
      BY <2>2, <3>1 DEF Silence
    <3>3. it.wire = << >>
      BY <1>2, <2>2, <2>8, <3>2, DueOf
    <3>4. next.wire = a.wire
      BY <2>1, <2>5, <3>3, NothingDue
    <3>5. Pending(o.net, fd) = a.wire
      BY <2>2, <2>7, <2>8, <3>1, <3>4, DueOf
    <3>6. IF label \in LogsIn THEN ~ k.binary ELSE it.session = FTP!ModeOf(k.binary)
      BY <2>3, <2>12, Zenon DEF BeforeAsk, Session
    <3>7. k.binary \in BOOLEAN
      BY ControlFits
    <3>8. /\ a.wire \in Silence \cup FtpReplies(label)
          /\ a.wire = << Notice >> => ~ a.up
          /\ InMode(label, a.wire, a.session, k.binary, wants)
      BY <2>1, <3>6, <3>7, AnswersInStep
    <3>9. QED
      BY <1>1, <2>5, <2>7, <3>5, <3>8 DEF InStep
  <2>13. QED
    BY <2>2, <2>3, <2>11, <2>12 DEF FtpHolds
<1>6. QED
  BY <1>1, <1>2, <1>3, <1>4, <1>5, FtpCommandGoes

(* What is read leaves each socket open, to whom it is. *)
LEMMA ReadHolds ==
  ASSUME NEW n \in Nets(Hosts), NEW f, f \in Ftps, NEW o \in HTGetChararcter(n), Holds(n, f),
         f.connections # << >> => FTP!Control(f).host \in FtpHosts
  PROVE  Holds(o.net, f)
<1> DEFINE fd == ControlSocket(f)
<1>1. /\ o.net.fd = n.fd
      /\ \A g \in Fds : o.net.sockets[g].peer = n.sockets[g].peer
  BY GetFits
<1>2. f.master_socket \in Fds \cup { Null }
  BY DEF Ftps
<1>3. ASSUME f.connections # << >>
      PROVE  /\ IsOpen(o.net, fd) /\ o.net.fd = fd
             /\ o.net.sockets[fd].peer = FTP!Control(f).host
  <2>1. IsOpen(n, fd) /\ n.fd = fd /\ n.sockets[fd].peer = FTP!Control(f).host /\ fd \in Fds
    BY <1>3 DEF Holds, IsOpen
  <2>2. o.net.sockets[fd].peer = FTP!Control(f).host
    BY <1>1, <2>1
  <2>3. FTP!Control(f).host # Unused.peer
    BY <1>3, EmptySocket, HostAssumption DEF Hosts, Nobodies
  <2>4. QED
    BY <1>1, <2>1, <2>2, <2>3 DEF IsOpen
<1>4. f.master_socket # Null => o.net.sockets[f.master_socket].peer = "listener"
  BY <1>1, <1>2 DEF Holds
<1>5. QED
  BY <1>3, <1>4 DEF Holds

(* After a reply either the connection is lost, and closed, or the reply   *)
(* was the first item due.                                                 *)
(* What a reply leaves of the connection it was waited for on. *)
Replied(n, f, r) ==
  /\ Going(r.net, r.ftp) /\ ~ r.ftp.lost /\ Holds(r.net, r.ftp)
  /\ r.ftp.connections = << >> => r.digit = -1 /\ ~ IsOpen(r.net, ControlSocket(r.ftp))
  /\ r.ftp.connections # << >> =>
       /\ r.ftp = f /\ r.digit \in 0 .. 5
       /\ Session(r.net, r.ftp) = Session(n, f)
       /\ r.net.sockets[ControlSocket(f)].up = n.sockets[ControlSocket(f)].up
       /\ \E item \in Items \ { Notice } :
            /\ item \in 1 .. 5 => r.digit = item
            /\ Pending(n, ControlSocket(f)) = << item >> \o Pending(r.net, ControlSocket(f))

LEMMA ReplyHolds ==
  ASSUME NEW n, NEW f, Going(n, f), f.lost => f.connections = << >>,
         NEW label \in FtpBusy, NEW wants, FtpHolds(n, f, label, wants), NEW r \in FTP!Reply(n, f)
  PROVE  Replied(n, f, r)
<1> DEFINE fd == ControlSocket(f)
<1>1. n \in Nets(Hosts) /\ FtpFits(f) /\ f.control # Null /\ OnlyControl(f) /\ f \in Ftps
  BY DEF Going, FtpFits
<1>2. /\ FtpStep(n, f, r.net, r.ftp) /\ OnlyControl(r.ftp) /\ ~ r.ftp.lost
      /\ r.digit = -1 => r.ftp.connections = << >>
  BY <1>1, FtpReplySteps, ReplyKeepsOne
<1>3. /\ Going(r.net, r.ftp) /\ r.ftp.control = f.control /\ r.ftp.cons = f.cons
      /\ r.ftp.master_socket = f.master_socket /\ ControlSocket(r.ftp) = fd
      /\ r.net \in Nets(Hosts) /\ r.net.fd = n.fd
  BY <1>1, <1>2 DEF FtpStep, Going, ControlSocket, FTP!Control
<1>4. Holds(n, f) /\ (f.connections = << >> => f.lost /\ ~ IsOpen(n, fd))
  BY DEF FtpHolds
<1>5. CASE ReplyNone(n, f, r) /\ f.lost
  <2>1. r.net = n /\ r.digit = -1
    BY <1>5 DEF ReplyNone
  <2>2. f.connections = << >> /\ r.ftp.connections = << >>
    BY <1>2, <1>5, <2>1
  <2>3. QED
    BY <1>2, <1>3, <1>4, <2>1, <2>2 DEF Holds, Replied
<1>6. CASE ReplyNone(n, f, r) /\ ~ f.lost
  <2>1. PICK o \in HTGetChararcter(n) : r.net = Close(o.net, fd)
    BY <1>6 DEF ReplyNone, ControlSocket
  <2>2. r.digit = -1 /\ r.ftp.connections = << >> /\ f.connections # << >>
    BY <1>2, <1>4, <1>6 DEF ReplyNone
  <2>3. Holds(o.net, f)
    BY <1>1, <1>4, <2>2, ControlFits, ReadHolds
  <2>4. Going(o.net, f)
    BY <1>1, GetFits DEF Going
  <2>5. Holds(r.net, r.ftp) /\ ~ IsOpen(r.net, ControlSocket(r.ftp))
    BY <1>3, <2>1, <2>2, <2>3, <2>4, ClosedHolds
  <2>6. QED
    BY <1>2, <1>3, <2>2, <2>5 DEF Replied
<1>7. CASE ReplyRead(n, f, r)
  <2>1. /\ r.digit \in 0 .. 5 /\ ~ f.lost /\ r.ftp = f
        /\ \E o \in HTGetChararcter(n) :
             /\ o.item \notin { EOF, Notice } /\ r.net = o.net
             /\ o.item \in 1 .. 5 => r.digit = o.item
    BY <1>7 DEF ReplyRead
  <2>2. PICK o \in HTGetChararcter(n) :
             /\ o.item \notin { EOF, Notice } /\ r.net = o.net
             /\ o.item \in 1 .. 5 => r.digit = o.item
    BY <2>1
  <2>3. f.connections # << >> /\ n.fd = fd /\ IsOpen(n, fd) /\ fd \in Fds
    BY <1>4, <2>1 DEF Holds, IsOpen
  <2>4. /\ o.item \in Items /\ Pending(n, fd) = << o.item >> \o Pending(o.net, fd)
        /\ o.net.sockets[fd].up = n.sockets[fd].up
        /\ o.net.sockets[fd].session = n.sockets[fd].session
    BY <1>1, <2>2, <2>3, GetFits
  <2>5. Holds(r.net, r.ftp)
    BY <1>1, <1>4, <2>1, <2>2, <2>3, ControlFits, ReadHolds
  <2>6. o.item \in Items \ { Notice }
    BY <2>2, <2>4
  <2>7. /\ Session(r.net, r.ftp) = Session(n, f)
        /\ r.net.sockets[ControlSocket(f)].up = n.sockets[ControlSocket(f)].up
        /\ Pending(n, ControlSocket(f)) = << o.item >> \o Pending(r.net, ControlSocket(f))
    BY <2>1, <2>2, <2>4 DEF Session
  <2>8. QED
    BY <1>2, <1>3, <2>1, <2>2, <2>3, <2>5, <2>6, <2>7 DEF Replied
<1>8. QED
  BY <1>1, <1>5, <1>6, <1>7, FtpReplyComes

(* What a reply that was taken leaves: nothing is due, unless it is the    *)
(* first of a transfer; without a connection there was no reply.           *)
Taken(n, f, label, wants, digit) ==
  LET due     == Pending(n, ControlSocket(f))
      binary  == FTP!Control(f).binary
      session == Session(n, f)
  IN  /\ Going(n, f) /\ ~ f.lost /\ Holds(n, f)
      /\ f.connections = << >> => digit = -1 /\ ~ IsOpen(n, ControlSocket(f))
      /\ f.connections # << >> => digit \in 0 .. 5
      /\ f.connections # << >> /\ ~ FTP!Control(f).owes =>
           /\ IF label \in { "retr", "nlst" } /\ digit = 1
              THEN due \in { << >>, << 2 >>, << 4 >> }
              ELSE due = << >> /\ n.buffer = << >>
           /\ label = "cwd" => digit # 1
           /\ IF label \in LogsIn
              THEN ~ binary /\ (label # "greeting" /\ digit = 2 => session = "A")
              ELSE session = FTP!ModeOf(IF label = "type" /\ digit = 2 THEN wants ELSE binary)

LEMMA FirstTaken ==
  ASSUME NEW label \in FtpBusy, NEW item \in Items \ { Notice }, NEW rest \in Seq(Items),
         NEW due, due = << item >> \o rest, due \in Silence \cup FtpReplies(label)
  PROVE  /\ item \in 1 .. 5 /\ label # "listen"
         /\ (label = "cwd" => item # 1)
         /\ (label # "listen" /\ label \notin { "retr", "nlst" } =>
               rest = << >> /\ (due = << 2 >> <=> item = 2))
         /\ (label \in { "retr", "nlst" } => IF item = 1 THEN rest \in { << >>, << 2 >>, << 4 >> }
                                                       ELSE rest = << >>)
<1>1. item \in Items /\ item # Notice /\ Notice \in Items /\ 1 .. 5 \subseteq Items
  BY DEF Items
<1>2. /\ << item >> \o rest # << >>
      /\ \A a \in Items : << a >> = << item >> \o rest => item = a /\ rest = << >>
      /\ \A a, b \in Items : << a, b >> = << item >> \o rest => item = a /\ rest = << b >>
  BY <1>1, ItemsDue
<1>3. /\ due # << >>
      /\ \A a \in Items : << a >> = due => item = a /\ rest = << >>
      /\ \A a, b \in Items : << a, b >> = due => item = a /\ rest = << b >>
  BY <1>2
<1>4. due # << >> /\ due # << Notice >>
  BY <1>1, <1>3
<1>5. due \in FtpReplies(label)
  BY <1>4 DEF Silence
<1>6. ASSUME NEW d \in 1 .. 5, due = << d >>
      PROVE  item = d /\ rest = << >>
  BY <1>1, <1>6, <1>3
<1>7. ASSUME NEW d \in { 2, 4 }, due = << 1, d >>
      PROVE  item = 1 /\ rest = << d >>
  <2>1. d \in Items /\ 1 \in Items
    BY DEF Items
  <2>2. QED
    <3>1. << 1, d >> = due => item = 1 /\ rest = << d >>
      BY <1>3, <2>1
    <3>2. QED
      BY <1>7, <3>1
<1>8. CASE label \in { "greeting", "acct", "port", "type", "cwd", "user", "pass" }
  <2>1. due \in { << 2 >>, << 3 >>, << 5 >> }
    BY <1>5, <1>8, RepliesByLabel
  <2>2. << 2 >> # << 3 >> /\ << 2 >> # << 5 >>
    OBVIOUS
  <2>3. PICK d \in { 2, 3, 5 } : due = << d >> /\ (due = << 2 >> <=> d = 2)
    BY <2>1, <2>2
  <2>4. item = d /\ rest = << >>
    BY <1>6, <2>3
  <2>5. QED
    BY <1>8, <2>3, <2>4
<1>9. CASE label \in { "accept file", "accept directory", "final file", "final directory" }
  <2>1. due \in { << 2 >>, << 4 >> }
    BY <1>5, <1>9, RepliesByLabel
  <2>2. << 2 >> # << 4 >>
    OBVIOUS
  <2>3. PICK d \in { 2, 4 } : due = << d >> /\ (due = << 2 >> <=> d = 2)
    BY <2>1, <2>2
  <2>4. item = d /\ rest = << >>
    BY <1>6, <2>3
  <2>5. label # "listen" /\ label # "cwd" /\ label \notin { "retr", "nlst" }
    BY <1>9
  <2>6. QED
    BY <2>3, <2>4, <2>5
<1>10. CASE label \in { "retr", "nlst" }
  <2>1. due \in { << 5 >>, << 1 >>, << 1, 2 >>, << 1, 4 >> }
    BY <1>5, <1>10, RepliesByLabel
  <2>2. CASE due \in { << 5 >>, << 1 >> }
    BY <1>6, <1>10, <2>2
  <2>3. CASE due \in { << 1, 2 >>, << 1, 4 >> }
    BY <1>7, <1>10, <2>3
  <2>4. QED
    BY <2>1, <2>2, <2>3
<1>11. CASE label = "listen"
  BY <1>5, <1>11, RepliesByLabel
<1>12. QED
  BY <1>8, <1>9, <1>10, <1>11 DEF FtpBusy, FtpAsks

LEMMA ReplyTaken ==
  ASSUME NEW n, NEW f, Going(n, f), f.lost => f.connections = << >>,
         NEW label \in FtpBusy, NEW wants, FtpHolds(n, f, label, wants), NEW r \in FTP!Reply(n, f)
  PROVE  Taken(r.net, r.ftp, label, wants, r.digit)
<1> DEFINE fd == ControlSocket(f)
           m  == r.net
<1>1. /\ Going(r.net, r.ftp) /\ ~ r.ftp.lost /\ Holds(r.net, r.ftp)
      /\ r.ftp.connections = << >> => r.digit = -1 /\ ~ IsOpen(r.net, ControlSocket(r.ftp))
      /\ r.ftp.connections # << >> =>
           /\ r.ftp = f /\ r.digit \in 0 .. 5
           /\ Session(r.net, r.ftp) = Session(n, f)
           /\ r.net.sockets[ControlSocket(f)].up = n.sockets[ControlSocket(f)].up
           /\ \E item \in Items \ { Notice } :
                /\ item \in 1 .. 5 => r.digit = item
                /\ Pending(n, ControlSocket(f)) = << item >> \o Pending(r.net, ControlSocket(f))
  <2>1. Replied(n, f, r)
    BY ReplyHolds
  <2>2. QED
    BY <2>1, Zenon DEF Replied
<1>2. ASSUME r.ftp.connections # << >>, ~ FTP!Control(r.ftp).owes
      PROVE  /\ IF label \in { "retr", "nlst" } /\ r.digit = 1
                THEN Pending(m, fd) \in { << >>, << 2 >>, << 4 >> }
                ELSE Pending(m, fd) = << >> /\ m.buffer = << >>
             /\ label = "cwd" => r.digit # 1
             /\ IF label \in LogsIn
                THEN /\ ~ FTP!Control(f).binary
                     /\ label # "greeting" /\ r.digit = 2 => Session(m, f) = "A"
                ELSE Session(m, f) = FTP!ModeOf(IF label = "type" /\ r.digit = 2 THEN wants
                                                ELSE FTP!Control(f).binary)
  <2>1. /\ Session(r.net, r.ftp) = Session(n, f)
        /\ \E item \in Items \ { Notice } :
             /\ item \in 1 .. 5 => r.digit = item
             /\ Pending(n, ControlSocket(f)) = << item >> \o Pending(r.net, ControlSocket(f))
    BY <1>1, <1>2
  <2>2. /\ r.ftp = f /\ Session(m, f) = Session(n, f)
        /\ \E item \in Items \ { Notice } :
             /\ item \in 1 .. 5 => r.digit = item
             /\ Pending(n, fd) = << item >> \o Pending(m, fd)
    BY <1>1, <1>2, <2>1
  <2>3. PICK item \in Items \ { Notice } :
             /\ item \in 1 .. 5 => r.digit = item
             /\ Pending(n, fd) = << item >> \o Pending(m, fd)
    BY <2>2
  <2>4. m \in Nets(Hosts) /\ fd \in Fds /\ m.fd = fd
    BY <1>1, <1>2, <2>2 DEF Going, Holds, IsOpen
  <2>5. Pending(m, fd) \in Seq(Items) /\ (Pending(m, fd) = << >> => m.buffer = << >>)
    BY <2>4, DueOf
  <2>6. /\ Pending(n, fd) \in Silence \cup FtpReplies(label)
        /\ InMode(label, Pending(n, fd), Session(n, f), FTP!Control(f).binary, wants)
    BY <1>2, <2>2 DEF FtpHolds, InStep, Session
  <2>7. /\ item \in 1 .. 5 /\ label # "listen" /\ (label = "cwd" => item # 1)
        /\ (label # "listen" /\ label \notin { "retr", "nlst" } =>
              Pending(m, fd) = << >> /\ (Pending(n, fd) = << 2 >> <=> item = 2))
        /\ (label \in { "retr", "nlst" } =>
              IF item = 1 THEN Pending(m, fd) \in { << >>, << 2 >>, << 4 >> }
              ELSE Pending(m, fd) = << >>)
    <3> DEFINE due  == Pending(n, fd)
               rest == Pending(m, fd)
    <3>1. /\ rest \in Seq(Items) /\ due = << item >> \o rest
          /\ due \in Silence \cup FtpReplies(label)
      BY <2>3, <2>5, <2>6
    <3> HIDE DEF due, rest
    <3>2. /\ item \in 1 .. 5 /\ label # "listen" /\ (label = "cwd" => item # 1)
          /\ (label # "listen" /\ label \notin { "retr", "nlst" } =>
                rest = << >> /\ (due = << 2 >> <=> item = 2))
          /\ (label \in { "retr", "nlst" } =>
                IF item = 1 THEN rest \in { << >>, << 2 >>, << 4 >> } ELSE rest = << >>)
      BY <3>1, FirstTaken
    <3>3. QED
      BY <3>2 DEF due, rest
  <2>8. r.digit = item
    BY <2>3, <2>7
  <2> HIDE DEF m, fd
  <2>9. IF label \in LogsIn
        THEN /\ ~ FTP!Control(f).binary
             /\ label # "greeting" /\ r.digit = 2 => Session(m, f) = "A"
        ELSE Session(m, f) = FTP!ModeOf(IF label = "type" /\ r.digit = 2 THEN wants
                                        ELSE FTP!Control(f).binary)
    <3>1. label \notin { "retr", "nlst" } => (Pending(n, fd) = << 2 >> <=> r.digit = 2)
      BY <2>7, <2>8
    <3>2. label \in LogsIn \cup { "type" } => label \notin { "retr", "nlst" }
      BY DEF LogsIn
    <3>3. "type" \notin LogsIn
      BY DEF LogsIn
    <3>4. QED
      BY <2>2, <2>6, <3>1, <3>2, <3>3 DEF InMode
  <2>10. QED
    BY <2>5, <2>7, <2>8, <2>9
<1>3. QED
  BY <1>1, <1>2 DEF Taken

LEMMA NoticeAlone ==
  /\ << >> # << Notice >> /\ << 2 >> # << Notice >> /\ << 4 >> # << Notice >>
  /\ << >> # << 2 >> /\ << Notice >> # << 2 >>
BY DEF Notice

LEMMA NoReply == 1 # -1 /\ 2 # -1
OBVIOUS

LEMMA TakenQuiet ==
  ASSUME NEW n, NEW f, NEW label, NEW wants, NEW digit, Taken(n, f, label, wants, digit),
         label \in { "retr", "nlst" } => digit # 1
  PROVE  Quiet(n, f)
<1>1. ASSUME f.connections # << >>, ~ FTP!Control(f).owes
      PROVE  Pending(n, ControlSocket(f)) = << >> /\ n.buffer = << >>
  BY <1>1, Zenon DEF Taken
<1>2. << >> # << Notice >>
  OBVIOUS
<1>3. QED
  BY <1>1, <1>2 DEF Quiet, Silence

(* What follows a reply: another command is sent, ... *)
LEMMA TakenAsks ==
  ASSUME NEW n, NEW f, NEW label, NEW wants, NEW digit, Taken(n, f, label, wants, digit),
         label \in { "retr", "nlst" } => digit # 1, label = "type" => digit # 2,
         NEW cmd, NEW next, Pair(cmd, next, wants), label \in LogsIn <=> next \in LogsIn,
         NEW o \in FTP!Command(n, f, cmd)
  PROVE  FtpHolds(o.net, o.ftp, next, wants)
<1>1. Going(n, f) /\ ~ f.lost /\ Holds(n, f)
      /\ (f.connections = << >> => ~ IsOpen(n, ControlSocket(f)))
  BY DEF Taken
<1>2. Quiet(n, f)
  BY TakenQuiet
<1>3. ASSUME f.connections # << >>, ~ FTP!Control(f).owes
      PROVE  IF next \in LogsIn THEN ~ FTP!Control(f).binary
             ELSE Session(n, f) = FTP!ModeOf(FTP!Control(f).binary)
  <2>1. IF label \in LogsIn THEN ~ FTP!Control(f).binary
        ELSE Session(n, f) = FTP!ModeOf(IF label = "type" /\ digit = 2 THEN wants
                                        ELSE FTP!Control(f).binary)
    BY <1>3, Zenon DEF Taken
  <2>2. QED
    BY <2>1
<1>4. BeforeAsk(n, f, next)
  BY <1>3 DEF BeforeAsk
<1>5. QED
  BY <1>1, <1>2, <1>4, AskHolds

(* ... the load ends or starts again, ... *)
LEMMA TakenEnds ==
  ASSUME NEW n, NEW f, NEW label, NEW wants, NEW digit, Taken(n, f, label, wants, digit),
         label \in { "retr", "nlst" } => digit # 1, label = "type" => digit # 2,
         label \notin LogsIn, NEW next, next \notin FtpBusy, NEW w
  PROVE  FtpHolds(n, f, next, w)
<1>1. Holds(n, f) /\ Quiet(n, f)
  BY TakenQuiet DEF Taken
<1>2. next \notin LogsIn /\ next # "type"
  BY DEF FtpBusy, FtpAsks, LogsIn
<1>3. ASSUME f.connections # << >>, ~ FTP!Control(f).owes
      PROVE  InStep(n, f, next, w)
  <2>1. IF label \in LogsIn THEN ~ FTP!Control(f).binary
        ELSE Session(n, f) = FTP!ModeOf(IF label = "type" /\ digit = 2 THEN wants
                                        ELSE FTP!Control(f).binary)
    BY <1>3, Zenon DEF Taken
  <2>2. Session(n, f) = FTP!ModeOf(FTP!Control(f).binary)
    BY <2>1
  <2>3. InMode(next, Pending(n, ControlSocket(f)), Session(n, f), FTP!Control(f).binary, w)
    BY <1>2, <2>2 DEF InMode
  <2>4. QED
    BY <1>1, <1>3, <2>3 DEF InStep, Quiet, Session
<1>4. QED
  BY <1>1, <1>3 DEF FtpHolds

(* ... the server is content with the login, ... *)
LEMMA TakenListens ==
  ASSUME NEW n, NEW f, NEW label \in { "user", "pass", "acct" }, NEW wants,
         NEW digit, digit = 2, Taken(n, f, label, wants, digit), NEW w
  PROVE  FtpHolds(n, f, "listen", w)
<1>1. f.connections = << >> => digit = -1
  BY Zenon DEF Taken
<1>2. label \notin { "retr", "nlst" }
  OBVIOUS
<1>3. digit # -1
  BY NoReply
<1>4. f.connections # << >>
  BY <1>1, <1>3
<1>5. Quiet(n, f)
  BY <1>2, TakenQuiet
<1>6. Holds(n, f) /\ Quiet(n, f) /\ f.connections # << >>
  BY <1>4, <1>5 DEF Taken
<1>7. "listen" \notin LogsIn /\ label \in LogsIn
  BY DEF LogsIn
<1>8. ASSUME ~ FTP!Control(f).owes
      PROVE  InStep(n, f, "listen", w)
  <2>1. ~ FTP!Control(f).binary /\ Session(n, f) = "A"
    <3>1. IF label \in LogsIn
          THEN ~ FTP!Control(f).binary /\ (label # "greeting" /\ digit = 2 => Session(n, f) = "A")
          ELSE Session(n, f) = FTP!ModeOf(IF label = "type" /\ digit = 2 THEN wants
                                          ELSE FTP!Control(f).binary)
      BY <1>6, <1>8, Zenon DEF Taken
    <3>2. QED
      BY <1>7, <3>1
  <2>2. InMode("listen", Pending(n, ControlSocket(f)), Session(n, f), FTP!Control(f).binary, w)
    BY <1>7, <2>1 DEF InMode, FTP!ModeOf
  <2>3. QED
    BY <1>6, <1>8, <2>2 DEF InStep, Quiet, Session
<1>9. QED
  BY <1>6, <1>8 DEF FtpHolds

(* ... or a transfer begins, whose final reply may have come with the      *)
(* first.                                                                  *)
LEMMA TakenAccepts ==
  ASSUME NEW n, NEW f, NEW label \in { "retr", "nlst", "cwd" }, NEW wants,
         NEW digit, digit = 1, Taken(n, f, label, wants, digit),
         NEW next \in { "accept file", "accept directory" }, NEW w
  PROVE  FtpHolds(n, f, next, w)
<1>1. Holds(n, f) /\ (f.connections = << >> => digit = -1)
  BY Zenon DEF Taken
<1>2. digit # -1
  BY NoReply
<1>3. f.connections # << >>
  BY <1>1, <1>2
<1>4. Holds(n, f) /\ f.connections # << >>
  BY <1>1, <1>3
<1>5. label \notin LogsIn /\ next \notin LogsIn /\ next # "type" /\ label # "type"
  BY DEF LogsIn
<1>6. ASSUME ~ FTP!Control(f).owes
      PROVE  InStep(n, f, next, w)
  <2>1. /\ label # "cwd"
        /\ IF label \in { "retr", "nlst" } /\ digit = 1
           THEN Pending(n, ControlSocket(f)) \in { << >>, << 2 >>, << 4 >> }
           ELSE Pending(n, ControlSocket(f)) = << >> /\ n.buffer = << >>
        /\ IF label \in LogsIn
           THEN ~ FTP!Control(f).binary /\ (label # "greeting" /\ digit = 2 => Session(n, f) = "A")
           ELSE Session(n, f) = FTP!ModeOf(IF label = "type" /\ digit = 2 THEN wants
                                           ELSE FTP!Control(f).binary)
    BY <1>4, <1>6, Zenon DEF Taken
  <2>2. /\ Pending(n, ControlSocket(f)) \in { << >>, << 2 >>, << 4 >> }
        /\ Session(n, f) = FTP!ModeOf(FTP!Control(f).binary)
    BY <1>5, <2>1
  <2>3. InMode(next, Pending(n, ControlSocket(f)), Session(n, f), FTP!Control(f).binary, w)
    BY <1>5, <2>2 DEF InMode
  <2>4. FtpReplies(next) = { << 2 >>, << 4 >> }
    BY RepliesByLabel
  <2>5. << >> # << Notice >> /\ << 2 >> # << Notice >> /\ << 4 >> # << Notice >>
    BY NoticeAlone
  <2>6. next \in FtpBusy /\ next # "listen"
    BY DEF FtpBusy
  <2>7. QED
    BY <2>2, <2>3, <2>4, <2>5, <2>6 DEF InStep, Silence, Session
<1>7. QED
  BY <1>4, <1>6 DEF FtpHolds

LEMMA TakenLoginFails ==
  ASSUME NEW n, NEW f, NEW label, NEW wants, NEW digit, Taken(n, f, label, wants, digit), NEW w
  PROVE  FtpHolds(Close(n, ControlSocket(f)), Unlisted(f), "return", w)
<1>1. /\ Going(n, f) /\ Holds(n, f) /\ f.control # Null /\ FtpFits(f) /\ OnlyControl(f)
      /\ f.connections = << >> => ~ IsOpen(n, ControlSocket(f))
  BY DEF Taken, Going
<1>2. /\ Unlisted(f).connections = << >> /\ f \in Ftps
      /\ Unlisted(f) = [ f EXCEPT !.connections = Unlisted(f).connections ]
  BY <1>1, UnlistedIsEmpty, UnlistedFits DEF FtpFits
<1>3. /\ Unlisted(f).master_socket = f.master_socket /\ Unlisted(f).control = f.control
      /\ Unlisted(f).cons = f.cons
  BY <1>2 DEF Ftps
<1> DEFINE g == Unlisted(f)
<1>4. g.connections = << >> /\ g.master_socket = f.master_socket /\ g.control = f.control
      /\ g.cons = f.cons
  BY <1>2, <1>3
<1> HIDE DEF g
<1>5. Holds(Close(n, ControlSocket(f)), g)
  BY <1>1, <1>4, ClosedHolds
<1>6. "return" \notin FtpBusy
  BY DEF FtpBusy, FtpAsks
<1>7. QED
  BY <1>4, <1>5, <1>6 DEF FtpHolds, g

FtpNow == FtpHolds(net, ftp, pc, request.binary)

LEMMA FtpNowNext ==
  ASSUME NEW n, NEW f
  PROVE  /\ \A label : FTP!Goto(n, f, label) /\ FtpHolds(n, f, label, request.binary) => FtpNow'
         /\ \A value : FTP!Return(n, f, value) /\ FtpHolds(n, f, "return", request.binary)
              => FtpNow'
         /\ \A cmd, label :
              /\ FTP!Ask(n, f, cmd, label)
              /\ \A o \in FTP!Command(n, f, cmd) : FtpHolds(o.net, o.ftp, label, request.binary)
              => FtpNow'
<1>1. ASSUME NEW m, NEW g, NEW label, FTP!Goto(m, g, label),
             FtpHolds(m, g, label, request.binary)
      PROVE  FtpNow'
  <2>1. net' = m /\ ftp' = g /\ pc' = label /\ request' = request
    BY <1>1 DEF FTP!Goto
  <2>2. QED
    BY <1>1, <2>1 DEF FtpNow
<1>2. ASSUME NEW value, FTP!Return(n, f, value), FtpHolds(n, f, "return", request.binary)
      PROVE  FtpNow'
  <2>1. net' = n /\ ftp' = f /\ pc' = "return" /\ request' = request
    BY <1>2 DEF FTP!Return
  <2>2. QED
    BY <1>2, <2>1 DEF FtpNow
<1>3. ASSUME NEW cmd, NEW label, FTP!Ask(n, f, cmd, label),
             \A o \in FTP!Command(n, f, cmd) : FtpHolds(o.net, o.ftp, label, request.binary)
      PROVE  FtpNow'
  <2>1. PICK o \in FTP!Command(n, f, cmd) : FTP!Goto(o.net, o.ftp, label)
    BY <1>3 DEF FTP!Ask
  <2>2. QED
    BY <1>1, <1>3, <2>1
<1>4. QED
  BY <1>1, <1>2, <1>3

LEMMA NowTaken ==
  ASSUME Inv, Again(ftp, pc), FtpNow, pc \in FtpBusy, NEW r \in FTP!Reply(net, ftp)
  PROVE  Taken(r.net, r.ftp, pc, request.binary, r.digit) /\ r.digit \in -1 .. 5
<1>1. Going(net, ftp) /\ (ftp.lost => ftp.connections = << >>)
  BY DEF Going, Inv, TypeOK, Again
<1>2. r.digit \in -1 .. 5
  BY FtpReplied
<1>3. QED
  BY <1>1, <1>2, ReplyTaken DEF FtpNow

LEMMA LoginHolds ==
  ASSUME Inv, Again(ftp, pc), FtpNow,
         \/ FTP!Greeting \/ FTP!LoginReply("user", "PASS", "pass")
         \/ FTP!LoginReply("pass", "ACCT", "acct") \/ FTP!LoginReply("acct", "none", "none")
  PROVE  FtpNow'
<1>1. pc \in LogsIn /\ pc \in FtpBusy
  BY DEF FTP!Greeting, FTP!LoginReply, FTP!OnReply, LogsIn, FtpBusy, FtpAsks
<1>2. PICK r \in FTP!Reply(net, ftp) :
        \/ FTP!Ask(r.net, r.ftp, "USER", "user") \/ FTP!Ask(r.net, r.ftp, "PASS", "pass")
        \/ FTP!Ask(r.net, r.ftp, "ACCT", "acct")
        \/ pc \in { "user", "pass", "acct" } /\ r.digit = 2 /\ FTP!Goto(r.net, r.ftp, "listen")
        \/ FTP!LoginFailed(r)
  BY Zenon DEF FTP!Greeting, FTP!LoginReply, FTP!OnReply
<1>3. Taken(r.net, r.ftp, pc, request.binary, r.digit)
  BY <1>1, NowTaken
<1>4. FtpFits(r.ftp) /\ r.ftp.control # Null
  BY <1>3 DEF Taken, Going
<1>5. ASSUME NEW cmd, NEW label,
             << cmd, label >> \in { << "USER", "user" >>, << "PASS", "pass" >>,
                                   << "ACCT", "acct" >> },
             FTP!Ask(r.net, r.ftp, cmd, label)
      PROVE  FtpNow'
  <2>1. Pair(cmd, label, request.binary)
    BY <1>5 DEF Pair
  <2>2. label \in LogsIn /\ pc \notin { "retr", "nlst" } /\ pc # "type"
    BY <1>1, <1>5 DEF LogsIn
  <2>3. \A o \in FTP!Command(r.net, r.ftp, cmd) : FtpHolds(o.net, o.ftp, label, request.binary)
    BY <1>1, <1>3, <2>1, <2>2, TakenAsks
  <2>4. QED
    BY <1>5, <2>3, FtpNowNext
<1>6. CASE pc \in { "user", "pass", "acct" } /\ r.digit = 2 /\ FTP!Goto(r.net, r.ftp, "listen")
  <2>1. FtpHolds(r.net, r.ftp, "listen", request.binary)
    BY <1>3, <1>6, TakenListens
  <2>2. QED
    BY <1>6, <2>1, FtpNowNext
<1>7. CASE FTP!LoginFailed(r)
  <2>1. FTP!Return(Close(r.net, FTP!Control(r.ftp).socket), Unlisted(r.ftp), FTP!Failed)
    BY <1>4, <1>7, FtpClosed, FtpInput DEF FTP!LoginFailed
  <2>2. FtpHolds(Close(r.net, ControlSocket(r.ftp)), Unlisted(r.ftp), "return", request.binary)
    BY <1>3, TakenLoginFails
  <2>3. QED
    BY <2>1, <2>2, FtpNowNext DEF ControlSocket
<1>8. QED
  BY <1>2, <1>5, <1>6, <1>7

LEMMA PortReplyHolds ==
  ASSUME Inv, Again(ftp, pc), FtpNow, FTP!PortReply
  PROVE  FtpNow'
<1>1. pc \in FtpBusy /\ pc = "port" /\ pc \notin LogsIn
  BY DEF FTP!PortReply, FTP!OnReply, FtpBusy, FtpAsks, LogsIn
<1>2. PICK r \in FTP!Reply(net, ftp) :
        \/ FTP!RequestFile(r.net, r.ftp)
        \/ r.digit < 0 /\ FTP!Goto(r.net, [ r.ftp EXCEPT !.retry = 1 ], "ftp")
        \/ \E value : FTP!Return(r.net, r.ftp, value)
  BY Zenon DEF FTP!PortReply, FTP!OnReply
<1>3. Taken(r.net, r.ftp, pc, request.binary, r.digit)
  BY <1>1, NowTaken
<1>4. /\ "ftp" \notin FtpBusy /\ "return" \notin FtpBusy
      /\ "type" \notin LogsIn /\ "retr" \notin LogsIn
      /\ pc \notin { "retr", "nlst" } /\ pc # "type"
  BY <1>1 DEF FtpBusy, FtpAsks, LogsIn
<1>5. CASE FTP!RequestFile(r.net, r.ftp)
  <2>1. \/ FTP!Ask(r.net, r.ftp, FTP!ModeOf(request.binary), "type")
        \/ FTP!Ask(r.net, r.ftp, "RETR", "retr")
    BY <1>5 DEF FTP!RequestFile
  <2>2. /\ Pair(FTP!ModeOf(request.binary), "type", request.binary)
        /\ Pair("RETR", "retr", request.binary)
    BY DEF Pair
  <2>3. /\ \A o \in FTP!Command(r.net, r.ftp, FTP!ModeOf(request.binary)) :
             FtpHolds(o.net, o.ftp, "type", request.binary)
        /\ \A o \in FTP!Command(r.net, r.ftp, "RETR") :
             FtpHolds(o.net, o.ftp, "retr", request.binary)
    BY <1>1, <1>3, <1>4, <2>2, TakenAsks
  <2>4. QED
    BY <2>1, <2>3, FtpNowNext
<1>6. CASE r.digit < 0 /\ FTP!Goto(r.net, [ r.ftp EXCEPT !.retry = 1 ], "ftp")
  <2>1. FtpHolds(r.net, r.ftp, "ftp", request.binary)
    BY <1>1, <1>3, <1>4, TakenEnds
  <2> DEFINE g == [ r.ftp EXCEPT !.retry = 1 ]
  <2>2. r.ftp \in Ftps
    BY <1>3 DEF Taken, Going, FtpFits
  <2>3. /\ g.connections = r.ftp.connections /\ g.cons = r.ftp.cons /\ g.control = r.ftp.control
        /\ g.master_socket = r.ftp.master_socket
    BY <2>2 DEF Ftps
  <2>4. FTP!Goto(r.net, g, "ftp")
    BY <1>6
  <2> HIDE DEF g
  <2>5. Holds(r.net, g)
    BY <2>1, <2>3 DEF FtpHolds, Holds, ControlSocket, FTP!Control
  <2>6. g.connections # << >> => FTP!Control(g).owes \/ InStep(r.net, g, "ftp", request.binary)
    BY <2>1, <2>3 DEF FtpHolds, InStep, ControlSocket, FTP!Control
  <2>7. FtpHolds(r.net, g, "ftp", request.binary)
    BY <1>4, <2>5, <2>6 DEF FtpHolds
  <2>8. QED
    BY <2>4, <2>7, FtpNowNext
<1>7. CASE \E value : FTP!Return(r.net, r.ftp, value)
  <2>1. FtpHolds(r.net, r.ftp, "return", request.binary)
    BY <1>1, <1>3, <1>4, TakenEnds
  <2>2. QED
    BY <1>7, <2>1, FtpNowNext
<1>8. QED
  BY <1>2, <1>5, <1>6, <1>7

WithBinary(f, flag) == [ f EXCEPT !.cons[f.control].binary = flag ]
WithOwes(f, flag)   == [ f EXCEPT !.cons[f.control].owes = flag ]

LEMMA BinaryHolds ==
  ASSUME NEW n, NEW f, Going(n, f), NEW flag \in BOOLEAN
  PROVE  LET g == WithBinary(f, flag)
         IN  /\ Going(n, g) /\ g.lost = f.lost /\ g.connections = f.connections
             /\ g.control = f.control /\ g.master_socket = f.master_socket
             /\ ControlSocket(g) = ControlSocket(f) /\ FTP!Control(g).host = FTP!Control(f).host
             /\ FTP!Control(g).binary = flag /\ FTP!Control(g).owes = FTP!Control(f).owes
<1> DEFINE g == WithBinary(f, flag)
<1>1. f \in Ftps /\ f.control \in ConnectionIds /\ FTP!Control(f) \in FTP!Connections
  BY ControlFits
<1>2. SameList(f, g) /\ FtpFits(f)
  BY <1>1, FlagFits DEF Going, WithBinary
<1>3. g.lost = f.lost /\ g.master_socket = f.master_socket
  BY <1>1 DEF Ftps, WithBinary
<1>4. g.cons[f.control] = [ f.cons[f.control] EXCEPT !.binary = flag ]
  BY <1>1 DEF Ftps, WithBinary
<1> HIDE DEF g
<1>5. FtpFits(g) /\ g.control = f.control /\ g.connections = f.connections /\ f.control # Null
  BY <1>2, SameListFits DEF SameList, Going
<1>6. Going(n, g)
  BY <1>5 DEF Going, OnlyControl
<1>7. ControlSocket(g) = ControlSocket(f) /\ FTP!Control(g).host = FTP!Control(f).host
  BY <1>1, <1>2 DEF SameList, ControlSocket, FTP!Control
<1>8. FTP!Control(g).binary = flag /\ FTP!Control(g).owes = FTP!Control(f).owes
  BY <1>1, <1>4, <1>5 DEF FTP!Control, FTP!Connections
<1>9. QED
  BY <1>3, <1>5, <1>6, <1>7, <1>8 DEF g

LEMMA OwesHolds ==
  ASSUME NEW n, NEW f, Going(n, f), NEW flag \in BOOLEAN
  PROVE  LET g == WithOwes(f, flag)
         IN  /\ Going(n, g) /\ g.lost = f.lost /\ g.connections = f.connections
             /\ g.control = f.control /\ g.master_socket = f.master_socket
             /\ ControlSocket(g) = ControlSocket(f) /\ FTP!Control(g).host = FTP!Control(f).host
             /\ FTP!Control(g).owes = flag
<1> DEFINE g == WithOwes(f, flag)
<1>1. f \in Ftps /\ f.control \in ConnectionIds /\ FTP!Control(f) \in FTP!Connections
  BY ControlFits
<1>2. SameList(f, g) /\ FtpFits(f)
  BY <1>1, FlagFits DEF Going, WithOwes
<1>3. g.lost = f.lost /\ g.master_socket = f.master_socket
  BY <1>1 DEF Ftps, WithOwes
<1>4. g.cons[f.control] = [ f.cons[f.control] EXCEPT !.owes = flag ]
  BY <1>1 DEF Ftps, WithOwes
<1> HIDE DEF g
<1>5. FtpFits(g) /\ g.control = f.control /\ g.connections = f.connections /\ f.control # Null
  BY <1>2, SameListFits DEF SameList, Going
<1>6. Going(n, g)
  BY <1>5 DEF Going, OnlyControl
<1>7. ControlSocket(g) = ControlSocket(f) /\ FTP!Control(g).host = FTP!Control(f).host
  BY <1>1, <1>2 DEF SameList, ControlSocket, FTP!Control
<1>8. FTP!Control(g).owes = flag
  BY <1>1, <1>4, <1>5 DEF FTP!Control, FTP!Connections
<1>9. QED
  BY <1>3, <1>5, <1>6, <1>7, <1>8 DEF g

LEMMA TypeReplyHolds ==
  ASSUME Inv, Again(ftp, pc), FtpNow, FTP!TypeReply
  PROVE  FtpNow'
<1>1. pc \in FtpBusy /\ pc = "type" /\ pc \notin LogsIn /\ request.binary \in BOOLEAN
  BY DEF FTP!TypeReply, FTP!OnReply, FtpBusy, FtpAsks, LogsIn, Inv, RequestFits, Stopped
<1>2. PICK r \in FTP!Reply(net, ftp) :
        \/ /\ r.digit = 2
           /\ FTP!Ask(r.net, [ r.ftp EXCEPT !.cons[r.ftp.control].binary = request.binary ],
                      "RETR", "retr")
        \/ r.digit # 2 /\ FTP!Return(r.net, r.ftp, - r.digit)
  BY Zenon DEF FTP!TypeReply, FTP!OnReply
<1>3. Taken(r.net, r.ftp, pc, request.binary, r.digit)
  BY <1>1, NowTaken
<1>4. CASE r.digit # 2 /\ FTP!Return(r.net, r.ftp, - r.digit)
  <2>1. "return" \notin FtpBusy /\ pc \notin { "retr", "nlst" }
    BY <1>1 DEF FtpBusy, FtpAsks
  <2>2. FtpHolds(r.net, r.ftp, "return", request.binary)
    BY <1>1, <1>3, <1>4, <2>1, TakenEnds
  <2>3. QED
    BY <1>4, <2>2, FtpNowNext
<1>5. CASE /\ r.digit = 2
           /\ FTP!Ask(r.net, [ r.ftp EXCEPT !.cons[r.ftp.control].binary = request.binary ],
                      "RETR", "retr")
  <2> DEFINE f == r.ftp
             n == r.net
             digit == r.digit
             wants == request.binary
             g == WithBinary(f, wants)
  <2>1. /\ Taken(n, f, pc, wants, digit) /\ digit = 2 /\ wants \in BOOLEAN
        /\ FTP!Ask(n, g, "RETR", "retr")
    BY <1>1, <1>3, <1>5 DEF WithBinary
  <2> HIDE DEF f, n, digit, wants
  <2>2. /\ Going(n, f) /\ ~ f.lost /\ Holds(n, f)
        /\ f.connections = << >> => ~ IsOpen(n, ControlSocket(f))
    BY <2>1, Zenon DEF Taken
  <2>3. /\ Going(n, g) /\ g.lost = f.lost /\ g.connections = f.connections
        /\ g.control = f.control /\ g.master_socket = f.master_socket
        /\ ControlSocket(g) = ControlSocket(f) /\ FTP!Control(g).host = FTP!Control(f).host
        /\ FTP!Control(g).binary = wants /\ FTP!Control(g).owes = FTP!Control(f).owes
    BY <2>1, <2>2, BinaryHolds
  <2>4. Quiet(n, f)
    BY <1>1, <2>1, TakenQuiet
  <2> HIDE DEF g
  <2>5. Holds(n, g) /\ Quiet(n, g)
    BY <2>2, <2>3, <2>4 DEF Holds, Quiet
  <2>6. ASSUME g.connections # << >>, ~ FTP!Control(g).owes
        PROVE  Session(n, g) = FTP!ModeOf(FTP!Control(g).binary)
    <3>1. IF pc \in LogsIn
          THEN /\ ~ FTP!Control(f).binary
               /\ pc # "greeting" /\ digit = 2 => Session(n, f) = "A"
          ELSE Session(n, f) = FTP!ModeOf(IF pc = "type" /\ digit = 2 THEN wants
                                          ELSE FTP!Control(f).binary)
      BY <2>1, <2>3, <2>6, Zenon DEF Taken
    <3>2. Session(n, f) = FTP!ModeOf(wants)
      BY <1>1, <2>1, <3>1
    <3>3. QED
      BY <2>3, <3>2 DEF Session
  <2>7. Pair("RETR", "retr", wants) /\ "retr" \notin LogsIn
    BY DEF Pair, LogsIn
  <2>8. BeforeAsk(n, g, "retr")
    BY <2>6, <2>7 DEF BeforeAsk
  <2>9. \A o \in FTP!Command(n, g, "RETR") : FtpHolds(o.net, o.ftp, "retr", wants)
    BY <2>2, <2>3, <2>5, <2>7, <2>8, AskHolds
  <2>10. QED
    BY <2>1, <2>9, FtpNowNext DEF wants
<1>6. QED
  BY <1>2, <1>4, <1>5

LEMMA TransferReplyHolds ==
  ASSUME Inv, Again(ftp, pc), FtpNow, FTP!RetrReply \/ FTP!CwdReply \/ FTP!NlstReply
  PROVE  FtpNow'
<1>1. pc \in FtpBusy /\ pc \in { "retr", "cwd", "nlst" } /\ pc \notin LogsIn /\ pc # "type"
  BY DEF FTP!RetrReply, FTP!CwdReply, FTP!NlstReply, FTP!OnReply, FtpBusy, FtpAsks, LogsIn
<1>2. PICK r \in FTP!Reply(net, ftp) :
        \/ r.digit = 1 /\ FTP!Goto(r.net, r.ftp, "accept file")
        \/ r.digit = 1 /\ FTP!Goto(r.net, r.ftp, "accept directory")
        \/ r.digit # 1 /\ FTP!Ask(r.net, r.ftp, "CWD", "cwd")
        \/ r.digit = 2 /\ FTP!Ask(r.net, r.ftp, "NLST", "nlst")
        \/ r.digit # 1 /\ FTP!Return(r.net, r.ftp, - r.digit)
  BY Zenon DEF FTP!RetrReply, FTP!CwdReply, FTP!NlstReply, FTP!OnReply
<1>3. Taken(r.net, r.ftp, pc, request.binary, r.digit)
  BY <1>1, NowTaken
<1>4. CASE \/ r.digit = 1 /\ FTP!Goto(r.net, r.ftp, "accept file")
           \/ r.digit = 1 /\ FTP!Goto(r.net, r.ftp, "accept directory")
  <2>1. /\ FtpHolds(r.net, r.ftp, "accept file", request.binary)
        /\ FtpHolds(r.net, r.ftp, "accept directory", request.binary)
    BY <1>1, <1>3, <1>4, TakenAccepts
  <2>2. QED
    BY <1>4, <2>1, FtpNowNext
<1>5. ASSUME NEW cmd, NEW label, << cmd, label >> \in { << "CWD", "cwd" >>, << "NLST", "nlst" >> },
             r.digit # 1, FTP!Ask(r.net, r.ftp, cmd, label)
      PROVE  FtpNow'
  <2>1. Pair(cmd, label, request.binary) /\ label \notin LogsIn
    BY <1>5 DEF Pair, LogsIn
  <2>2. \A o \in FTP!Command(r.net, r.ftp, cmd) : FtpHolds(o.net, o.ftp, label, request.binary)
    BY <1>1, <1>3, <1>5, <2>1, TakenAsks
  <2>3. QED
    BY <1>5, <2>2, FtpNowNext
<1>6. CASE r.digit # 1 /\ FTP!Return(r.net, r.ftp, - r.digit)
  <2>1. "return" \notin FtpBusy
    BY DEF FtpBusy, FtpAsks
  <2>2. FtpHolds(r.net, r.ftp, "return", request.binary)
    BY <1>1, <1>3, <1>6, <2>1, TakenEnds
  <2>3. QED
    BY <1>6, <2>2, FtpNowNext
<1>7. /\ r.digit # 1 /\ FTP!Ask(r.net, r.ftp, "CWD", "cwd") => FtpNow'
      /\ r.digit # 1 /\ FTP!Ask(r.net, r.ftp, "NLST", "nlst") => FtpNow'
  BY <1>5
<1>8. r.digit = 2 => r.digit # 1
  OBVIOUS
<1>9. QED
  BY <1>2, <1>4, <1>6, <1>7, <1>8, Zenon

LEMMA FinalReplyHolds ==
  ASSUME Inv, Again(ftp, pc), FtpNow, FTP!FinalReply
  PROVE  FtpNow'
<1>1. pc \in FtpBusy /\ pc \in { "final file", "final directory" } /\ pc \notin LogsIn
  BY DEF FTP!FinalReply, FTP!OnReply, FtpBusy, LogsIn
<1>2. PICK r \in FTP!Reply(net, ftp) : \E value : FTP!Return(r.net, r.ftp, value)
  BY Zenon DEF FTP!FinalReply, FTP!OnReply
<1>3. Taken(r.net, r.ftp, pc, request.binary, r.digit)
  BY <1>1, NowTaken
<1>4. "return" \notin FtpBusy /\ pc \notin { "retr", "nlst" } /\ pc # "type"
  BY <1>1 DEF FtpBusy, FtpAsks
<1>5. FtpHolds(r.net, r.ftp, "return", request.binary)
  BY <1>1, <1>3, <1>4, TakenEnds
<1>6. QED
  BY <1>2, <1>5, FtpNowNext

(* Where no reply is awaited. *)
Calm(label) == label \notin FtpBusy \/ label = "listen"

LEMMA CalmReplies ==
  ASSUME NEW label, Calm(label)
  PROVE  FtpReplies(label) = { } /\ label \notin LogsIn /\ label # "type" /\ label # "greeting"
<1>1. label \notin LogsIn /\ label # "type" /\ label # "greeting"
  BY DEF Calm, FtpBusy, FtpAsks, LogsIn
<1>2. /\ label \notin { "greeting", "acct", "port", "type", "cwd" }
      /\ label \notin { "user", "pass" } /\ label \notin { "retr", "nlst" }
      /\ label \notin { "accept file", "accept directory", "final file", "final directory" }
  BY DEF Calm, FtpBusy, FtpAsks
<1>3. FtpReplies(label) = { }
  BY <1>2, Zenon DEF FtpReplies
<1>4. QED
  BY <1>1, <1>3

LEMMA CalmHolds ==
  ASSUME NEW n, NEW f, NEW label, NEW w, FtpHolds(n, f, label, w), Calm(label), NEW m, NEW g,
         g.connections = f.connections, g.control = f.control, g.cons = f.cons,
         f.connections # << >> =>
           /\ m.sockets[ControlSocket(f)] = n.sockets[ControlSocket(f)] /\ m.fd = n.fd
           /\ n.buffer = << >> => m.buffer = << >>,
         g.master_socket # Null => m.sockets[g.master_socket].peer = "listener",
         NEW next, Calm(next), next = "listen" => f.connections # << >>, NEW v
  PROVE  FtpHolds(m, g, next, v)
<1> DEFINE fd == ControlSocket(f)
<1>1. ControlSocket(g) = fd /\ FTP!Control(g) = FTP!Control(f)
  BY DEF ControlSocket, FTP!Control
<1>2. Holds(m, g)
  <2>1. f.connections # << >> => IsOpen(m, fd)
    BY DEF FtpHolds, Holds, IsOpen
  <2>2. QED
    BY <1>1, <2>1 DEF FtpHolds, Holds
<1>3. ASSUME g.connections # << >>, ~ FTP!Control(g).owes
      PROVE  InStep(m, g, next, v)
  <2>1. InStep(n, f, label, w) /\ n.fd = fd
    BY <1>1, <1>3 DEF FtpHolds, Holds
  <2>2. n.buffer = << >> /\ m.buffer = << >>
    BY <1>3, <2>1 DEF InStep, Calm
  <2>3. Pending(m, fd) = Pending(n, fd)
    BY <1>3, <2>2 DEF Pending
  <2>4. Pending(m, fd) \in Silence /\ (Pending(m, fd) = << Notice >> => ~ m.sockets[fd].up)
    BY <1>3, <2>1, <2>3, CalmReplies DEF InStep
  <2>5. m.sockets[fd].session = FTP!ModeOf(FTP!Control(g).binary)
    BY <1>1, <1>3, <2>1, CalmReplies DEF InStep, InMode
  <2>6. InMode(next, Pending(m, fd), m.sockets[fd].session, FTP!Control(g).binary, v)
    BY <2>5, CalmReplies DEF InMode
  <2>7. QED
    BY <1>1, <2>2, <2>4, <2>6 DEF InStep
<1>4. next \in FtpBusy => next = "listen"
  BY DEF Calm
<1>5. QED
  BY <1>2, <1>3, <1>4 DEF FtpHolds

LEMMA HostKept ==
  ASSUME NEW f, FtpFits(f), OnlyControl(f), f.connections # << >>
  PROVE  /\ FTP!Control(f).host \in FtpHosts /\ FTP!Control(f).host \in Hosts
         /\ FTP!Control(f).host \notin Nobodies /\ f.control # Null /\ f.control \in ConnectionIds
<1>1. f.connections = << f.control >>
  BY DEF OnlyControl
<1>2. 1 \in DOMAIN f.connections /\ f.connections[1] = f.control
  BY <1>1
<1>3. HostOf(f, 1) \in FtpHosts /\ f.control # Null /\ f \in Ftps
  BY <1>2 DEF FtpFits
<1>4. FTP!Control(f).host \in FtpHosts
  BY <1>2, <1>3 DEF HostOf, FTP!Control
<1>5. QED
  BY <1>3, <1>4, HostAssumption DEF Hosts, Ftps

(* A new socket is neither the control connection nor the master socket,   *)
(* and these are two.                                                      *)
LEMMA FreshApart ==
  ASSUME NEW n \in Nets(Hosts), NEW f, FtpFits(f), OnlyControl(f), Holds(n, f)
  PROVE  /\ f.connections # << >> =>
              /\ ControlSocket(f) \in Fds /\ IsOpen(n, ControlSocket(f))
              /\ ControlSocket(f) # f.master_socket
         /\ f.master_socket # Null => f.master_socket \in Fds /\ IsOpen(n, f.master_socket)
         /\ FreeSockets(n) # { } =>
              /\ NewSocket(n) \in Fds /\ ~ IsOpen(n, NewSocket(n))
              /\ NewSocket(n) # f.master_socket
              /\ f.connections # << >> => NewSocket(n) # ControlSocket(f)
<1>1. ASSUME f.connections # << >>
      PROVE  /\ ControlSocket(f) \in Fds /\ IsOpen(n, ControlSocket(f))
             /\ ControlSocket(f) # f.master_socket
  <2>1. /\ IsOpen(n, ControlSocket(f)) /\ ControlSocket(f) \in Fds
        /\ n.sockets[ControlSocket(f)].peer \notin Nobodies
    BY <1>1, HostKept DEF Holds, IsOpen
  <2>2. ControlSocket(f) # f.master_socket
    <3>1. Null \notin Fds
      BY DEF Null, Fds
    <3>2. f.master_socket # Null => n.sockets[f.master_socket].peer \in Nobodies
      BY DEF Holds, Nobodies
    <3>3. QED
      BY <2>1, <3>1, <3>2
  <2>3. QED
    BY <2>1, <2>2
<1>2. ASSUME f.master_socket # Null
      PROVE  f.master_socket \in Fds /\ IsOpen(n, f.master_socket)
  <2>1. f.master_socket \in Fds
    BY <1>2 DEF FtpFits, Ftps
  <2>2. n.sockets[f.master_socket].peer = "listener"
    BY <1>2 DEF Holds
  <2>3. QED
    BY <2>1, <2>2, EmptySocket DEF IsOpen
<1>3. FreeSockets(n) # { } => NewSocket(n) \in Fds /\ ~ IsOpen(n, NewSocket(n))
  BY NewSocketFits
<1>4. Null \notin Fds
  BY DEF Null, Fds
<1>5. QED
  BY <1>1, <1>2, <1>3, <1>4

LEMMA ListenHolds ==
  ASSUME Inv, Again(ftp, pc), FtpNow, FTP!get_listen_socket \/ FTP!NoListenSocket
  PROVE  FtpNow'
<1>1. pc = "listen" /\ pc \in FtpBusy /\ pc \notin FtpAsks /\ Calm(pc) /\ Calm("return")
  BY DEF FTP!get_listen_socket, FTP!NoListenSocket, FtpBusy, FtpAsks, Calm
<1>2. /\ net \in Nets(Hosts) /\ FtpFits(ftp) /\ ftp \in Ftps /\ ftp.control # Null
      /\ OnlyControl(ftp) /\ ~ ftp.lost /\ Holds(net, ftp) /\ FtpHolds(net, ftp, pc, request.binary)
      /\ ftp.connections # << >>
  BY <1>1 DEF Inv, TypeOK, FtpFits, Again, FtpNow, FtpHolds
<1> DEFINE cs   == ControlSocket(ftp)
           fd   == NewSocket(net)
           open == With(net, fd, Listening)
           m    == Close(open, ftp.master_socket)
<1>3. /\ cs \in Fds /\ IsOpen(net, cs) /\ cs # ftp.master_socket
      /\ FreeSockets(net) # { } => fd \in Fds /\ fd # ftp.master_socket /\ fd # cs
  BY <1>2, FreshApart
<1> HIDE DEF cs, fd
<1>4. ASSUME FreeSockets(net) # { }
      PROVE  /\ open \in Nets(Hosts) /\ open.sockets[fd].peer = "listener"
             /\ open.sockets[cs] = net.sockets[cs]
             /\ open.fd = net.fd /\ open.buffer = net.buffer
             /\ \A g \in Fds : g # fd => open.sockets[g] = net.sockets[g]
             /\ m \in Nets(Hosts) /\ m.sockets[fd].peer = "listener"
             /\ m.sockets[cs] = net.sockets[cs] /\ m.fd = net.fd /\ m.buffer = net.buffer
  <2>1. /\ open \in Nets(Hosts) /\ open.sockets[fd].peer = "listener"
        /\ open.sockets[cs] = net.sockets[cs]
        /\ open.fd = net.fd /\ open.buffer = net.buffer
        /\ \A g \in Fds : g # fd => open.sockets[g] = net.sockets[g]
    BY <1>2, <1>3, <1>4, EmptySocket, WithFits
  <2> HIDE DEF open
  <2>2. /\ m \in Nets(Hosts) /\ m.sockets[fd].peer = "listener"
        /\ m.sockets[cs] = net.sockets[cs] /\ m.fd = net.fd /\ m.buffer = net.buffer
    BY <1>3, <1>4, <2>1, CloseFits
  <2>3. QED
    BY <2>1, <2>2
<1>5. CASE FTP!get_listen_socket
  <2> DEFINE g == [ ftp EXCEPT !.master_socket = fd ]
  <2>1. FreeSockets(net) # { } /\ FTP!Ask(m, g, "PORT", "port")
    BY <1>5, FtpInput DEF FTP!get_listen_socket, fd
  <2>2. SameList(ftp, g) /\ g.lost = ftp.lost /\ g.cons = ftp.cons /\ g.master_socket = fd
    BY <1>2, <1>3, <2>1 DEF SameList, Ftps
  <2> HIDE DEF g, m, open
  <2>3. FtpFits(g) /\ g.control = ftp.control /\ g.connections = ftp.connections
    BY <1>2, <2>2, SameListFits DEF SameList
  <2>4. ControlSocket(g) = cs /\ FTP!Control(g) = FTP!Control(ftp)
    BY <2>2, <2>3 DEF ControlSocket, FTP!Control, cs
  <2>5. Going(m, g)
    BY <1>2, <1>4, <2>1, <2>3 DEF Going, OnlyControl
  <2>6. net.fd = cs /\ net.sockets[cs].peer = FTP!Control(ftp).host
    BY <1>2 DEF Holds, cs
  <2>7. Holds(m, g)
    BY <1>3, <1>4, <2>1, <2>2, <2>4, <2>6 DEF Holds, IsOpen
  <2>8. ASSUME ~ FTP!Control(ftp).owes
        PROVE  /\ Pending(m, cs) \in Silence /\ m.buffer = << >>
               /\ Pending(m, cs) = << Notice >> => ~ m.sockets[cs].up
               /\ m.sockets[cs].session = FTP!ModeOf(FTP!Control(ftp).binary)
    <3>1. InStep(net, ftp, "listen", request.binary)
      BY <1>1, <1>2, <2>8 DEF FtpHolds
    <3>2. /\ Pending(net, cs) \in Silence /\ net.buffer = << >>
          /\ Pending(net, cs) = << Notice >> => ~ net.sockets[cs].up
          /\ net.sockets[cs].session = FTP!ModeOf(FTP!Control(ftp).binary)
      BY <1>1, <3>1, CalmReplies DEF InStep, InMode, cs
    <3>3. Pending(m, cs) = Pending(net, cs)
      BY <1>4, <2>1 DEF Pending
    <3>4. QED
      BY <1>4, <2>1, <3>2, <3>3
  <2>9. Quiet(m, g) /\ "port" \notin LogsIn /\ Pair("PORT", "port", request.binary)
    BY <2>4, <2>8 DEF Quiet, LogsIn, Pair
  <2>10. BeforeAsk(m, g, "port")
    BY <2>4, <2>8, <2>9 DEF BeforeAsk, Session
  <2>11. ~ g.lost /\ g.connections # << >>
    BY <1>2, <2>2, <2>3
  <2>12. \A o \in FTP!Command(m, g, "PORT") : FtpHolds(o.net, o.ftp, "port", request.binary)
    BY <2>5, <2>7, <2>9, <2>10, <2>11, AskHolds
  <2>13. QED
    BY <2>1, <2>12, FtpNowNext
<1>6. CASE FTP!NoListenSocket
  <2> DEFINE g == [ ftp EXCEPT !.master_socket = Null ]
  <2>1. \/ FTP!Return(net, ftp, FTP!Failed)
        \/ FreeSockets(net) # { } /\ FTP!Return(open, ftp, FTP!Failed)
        \/ FreeSockets(net) # { } /\ FTP!Return(m, g, FTP!Failed)
    BY <1>6, FtpInput, Zenon DEF FTP!NoListenSocket, fd
  <2>2. /\ g.connections = ftp.connections /\ g.control = ftp.control /\ g.cons = ftp.cons
        /\ g.master_socket = Null
    BY <1>2 DEF Ftps
  <2> HIDE DEF g, m, open
  <2>3. ftp.master_socket # Null => ftp.master_socket \in Fds
                                    /\ net.sockets[ftp.master_socket].peer = "listener"
    BY <1>2 DEF Holds, Ftps
  <2>4. FtpHolds(net, ftp, "return", request.binary)
    BY <1>1, <1>2, <2>3, CalmHolds DEF cs
  <2>5. FreeSockets(net) # { } => FtpHolds(open, ftp, "return", request.binary)
    <3>1. SUFFICES ASSUME FreeSockets(net) # { }
                   PROVE  FtpHolds(open, ftp, "return", request.binary)
      OBVIOUS
    <3>2. ftp.master_socket # Null => open.sockets[ftp.master_socket].peer = "listener"
      BY <1>3, <1>4, <2>3, <3>1
    <3>3. QED
      BY <1>1, <1>2, <1>4, <3>1, <3>2, CalmHolds DEF cs
  <2>6. FreeSockets(net) # { } => FtpHolds(m, g, "return", request.binary)
    BY <1>1, <1>2, <1>4, <2>2, CalmHolds DEF cs
  <2>7. QED
    BY <2>1, <2>4, <2>5, <2>6, FtpNowNext
<1>7. QED
  BY <1>5, <1>6

LEMMA ReplyItems == Notice \in Items /\ 2 \in Items /\ 4 \in Items
BY DEF Items

LEMMA AcceptFailsHolds ==
  ASSUME Inv, Again(ftp, pc), FtpNow, FTP!AcceptFails
  PROVE  FtpNow'
<1>1. pc \in FtpBusy /\ pc \notin FtpAsks /\ "return" \notin FtpBusy
  BY DEF FTP!AcceptFails, FtpBusy, FtpAsks
<1>2. Going(net, ftp) /\ Holds(net, ftp)
  BY <1>1 DEF Going, Inv, TypeOK, Again, FtpNow, FtpHolds
<1> DEFINE yes == TRUE
           g   == WithOwes(ftp, yes)
<1>3. FTP!Return(net, g, FTP!Failed) /\ yes \in BOOLEAN /\ yes
  BY DEF FTP!AcceptFails, WithOwes
<1> HIDE DEF yes
<1>4. /\ g.connections = ftp.connections /\ g.master_socket = ftp.master_socket
      /\ ControlSocket(g) = ControlSocket(ftp) /\ FTP!Control(g).host = FTP!Control(ftp).host
      /\ FTP!Control(g).owes = yes
  BY <1>2, <1>3, OwesHolds
<1> HIDE DEF g
<1>5. FtpHolds(net, g, "return", request.binary)
  BY <1>1, <1>2, <1>3, <1>4 DEF FtpHolds, Holds
<1>6. QED
  BY <1>3, <1>5, FtpNowNext

(* The replies of a transfer are in the buffer, or still to be read. *)
LEMMA TransferHolds ==
  ASSUME Inv, Again(ftp, pc), FtpNow, FTP!TransferFile \/ FTP!read_directory
  PROVE  FtpNow'
<1> DEFINE cs == ControlSocket(ftp)
           fd == NewSocket(net)
           it == [ Socket("data", << >>) EXCEPT !.up = FALSE ]
           g  == [ ftp EXCEPT !.source = FTP!Control(ftp).host ]
           final == { "final file", "final directory" }
<1>1. /\ pc \in { "accept file", "accept directory" } /\ pc \in FtpBusy /\ pc \notin FtpAsks
      /\ FreeSockets(net) # { }
  BY FtpInput DEF FTP!TransferFile, FTP!read_directory, FtpBusy, FtpAsks
<1>2. /\ net \in Nets(Hosts) /\ FtpFits(ftp) /\ ftp \in Ftps /\ OnlyControl(ftp)
      /\ Holds(net, ftp) /\ ftp.connections # << >>
  BY <1>1 DEF Inv, TypeOK, FtpFits, Again, FtpNow, FtpHolds
<1>3. /\ cs \in Fds /\ IsOpen(net, cs) /\ net.fd = cs
      /\ net.sockets[cs].peer = FTP!Control(ftp).host
      /\ fd \in Fds /\ fd # ftp.master_socket /\ fd # cs
      /\ ftp.master_socket # Null => /\ ftp.master_socket \in Fds
                                     /\ net.sockets[ftp.master_socket].peer = "listener"
  BY <1>1, <1>2, FreshApart DEF Holds
<1>4. /\ g.connections = ftp.connections /\ g.control = ftp.control /\ g.cons = ftp.cons
      /\ g.master_socket = ftp.master_socket
  BY <1>2 DEF Ftps
<1>5. \E n \in { HTInitInput(net, cs), With(net, fd, it) } :
        net' = n /\ ftp' = g /\ pc' \in final /\ request' = request
  <2>1. CASE FTP!TransferFile
    BY <2>1, FtpInput DEF FTP!TransferFile, FTP!Transferred, ControlSocket
  <2>2. CASE FTP!read_directory
    BY <2>2, FtpInput DEF FTP!read_directory, FTP!Transferred
  <2>3. QED
    BY <2>1, <2>2
<1>6. PICK n \in { HTInitInput(net, cs), With(net, fd, it) } :
        net' = n /\ ftp' = g /\ pc' \in final /\ request' = request
  BY <1>5
<1>7. /\ n \in Nets(Hosts) /\ n.sockets[cs] = net.sockets[cs] /\ n.fd = cs
      /\ ftp.master_socket # Null => n.sockets[ftp.master_socket] = net.sockets[ftp.master_socket]
      /\ n.buffer = << >> \/ n.buffer = net.buffer
  <2>1. it \in Sockets(Hosts)
    <3>1. << >> \in Seq(Items) /\ "data" \in Nobodies
      BY DEF Nobodies
    <3>2. QED
      BY <3>1, SocketFits
  <2> HIDE DEF it, fd, cs
  <2>2. CASE n = HTInitInput(net, cs)
    BY <1>2, <1>3, <2>2, InputFits
  <2>3. CASE n = With(net, fd, it)
    BY <1>2, <1>3, <2>1, <2>3, WithFits
  <2>4. QED
    BY <1>6, <2>2, <2>3
<1> HIDE DEF cs, fd, it, g
<1>8. ControlSocket(g) = cs /\ FTP!Control(g) = FTP!Control(ftp)
  BY <1>4 DEF ControlSocket, FTP!Control, cs
<1>9. Holds(n, g)
  BY <1>2, <1>3, <1>4, <1>7, <1>8 DEF Holds, IsOpen
<1>10. ASSUME ~ FTP!Control(ftp).owes, NEW label \in final
       PROVE  InStep(n, g, label, request.binary)
  <2>1. InStep(net, ftp, pc, request.binary)
    BY <1>2, <1>10 DEF FtpNow, FtpHolds
  <2>2. FtpReplies(pc) = { << 2 >>, << 4 >> } /\ FtpReplies(label) = { << 2 >>, << 4 >> }
    BY <1>1, <1>10, RepliesByLabel
  <2>3. pc # "greeting" /\ pc # "type" /\ pc \notin LogsIn
    BY <1>1 DEF LogsIn
  <2>4. /\ Pending(net, cs) \in { << >>, << Notice >>, << 2 >>, << 4 >> }
        /\ Pending(net, cs) = << Notice >> => ~ net.sockets[cs].up
        /\ net.sockets[cs].session = FTP!ModeOf(FTP!Control(ftp).binary)
    BY <2>1, <2>2, <2>3 DEF InStep, InMode, Silence, cs
  <2>5. Pending(n, cs) = Pending(net, cs) \/ Pending(n, cs) = << >>
    <3> DEFINE b == net.buffer
               w == net.sockets[cs].wire
    <3>1. /\ b \in Seq(Items) /\ w \in Seq(Items) /\ Pending(net, cs) = b \o w
          /\ n.buffer = << >> => Pending(n, cs) = w
      BY <1>2, <1>3, <1>7, DueOf
    <3>2. n.buffer = net.buffer => Pending(n, cs) = Pending(net, cs)
      BY <1>3, <1>7 DEF Pending
    <3> HIDE DEF b, w
    <3>3. CASE b \o w = << >>
      <4>1. w = << >>
        BY <3>1, <3>3, NothingDue
      <4>2. QED
        BY <1>7, <3>1, <3>2, <4>1
    <3>4. ASSUME NEW a \in Items, b \o w = << a >>
          PROVE  Pending(n, cs) = Pending(net, cs) \/ Pending(n, cs) = << >>
      <4>1. \/ b = << >> /\ w = << a >>
            \/ b = << a >> /\ w = << >>
        <5>1. b \in Seq(Items) /\ w \in Seq(Items)
          BY <3>1
        <5>2. \A c \in Items : b \o w = << c >> =>
                \/ b = << >> /\ w = << c >>
                \/ b = << c >> /\ w = << >>
          BY <5>1, NothingDue
        <5>3. QED
          BY <3>4, <5>2
      <4>2. w = << >> \/ w = Pending(net, cs)
        BY <3>1, <3>4, <4>1
      <4>3. QED
        BY <1>7, <3>1, <3>2, <4>2
    <3>5. Notice \in Items /\ 2 \in Items /\ 4 \in Items
      BY ReplyItems
    <3>6. QED
      BY <2>4, <3>1, <3>3, <3>4, <3>5
  <2>6. /\ Pending(n, cs) \in Silence \cup FtpReplies(label)
        /\ Pending(n, cs) = << Notice >> => ~ n.sockets[cs].up
    BY <1>7, <2>2, <2>4, <2>5, NoticeAlone DEF Silence
  <2>7. label \in FtpBusy /\ label # "listen" /\ label # "type" /\ label \notin LogsIn
    BY <1>10 DEF FtpBusy, LogsIn
  <2>8. InMode(label, Pending(n, cs), n.sockets[cs].session, FTP!Control(g).binary, request.binary)
    BY <1>7, <1>8, <2>4, <2>7 DEF InMode
  <2>9. QED
    BY <1>8, <2>6, <2>7, <2>8 DEF InStep
<1>11. \A label \in final : FtpHolds(n, g, label, request.binary)
  BY <1>2, <1>4, <1>8, <1>9, <1>10 DEF FtpHolds
<1>12. QED
  BY <1>6, <1>11 DEF FtpNow

(* With one host, a list without a connection to it is empty. *)
LEMMA NoneIsListed ==
  ASSUME OneHost, NEW f, FtpFits(f), NEW host \in FtpHosts
  PROVE  FTP!Listed(f, host) = { } <=> f.connections = << >>
<1>1. f.connections \in Seq(ConnectionIds)
  BY DEF FtpFits, Ftps
<1>2. ASSUME FTP!Listed(f, host) = { }, f.connections # << >>
      PROVE  FALSE
  <2>1. 1 \in DOMAIN f.connections
    BY <1>1, <1>2
  <2>2. HostOf(f, 1) = host
    BY <2>1 DEF OneHost, FtpFits
  <2>3. QED
    BY <1>2, <2>1, <2>2 DEF FTP!Listed, FTP!Range, HostOf
<1>3. ASSUME f.connections = << >>
      PROVE  FTP!Listed(f, host) = { }
  <2>1. DOMAIN f.connections = { }
    BY <1>3
  <2>2. QED
    BY <2>1 DEF FTP!Listed, FTP!Range
<1>4. QED
  BY <1>2, <1>3

(* The connection that is made is the only one of the list. *)
LEMMA ConnectedAlone ==
  ASSUME NEW f, FtpFits(f), f.connections = << >>, NEW host, NEW fd, NEW c \in ConnectionIds
  PROVE  LET g == Connected(f, c, fd, host)
         IN  /\ g.connections = << c >> /\ g.control = c /\ g.master_socket = f.master_socket
             /\ ControlSocket(g) = fd /\ FTP!Control(g).host = host
             /\ ~ FTP!Control(g).binary
<1> DEFINE g == Connected(f, c, fd, host)
<1>1. /\ g.connections = << c >> \o f.connections /\ g.control = c
      /\ g.master_socket = f.master_socket /\ g.cons[c] = FTP!Connection(fd, host)
  BY DEF Connected, FtpFits, Ftps
<1>2. g.connections = << c >>
  BY <1>1
<1>3. FTP!Connection(fd, host).socket = fd /\ FTP!Connection(fd, host).host = host
      /\ ~ FTP!Connection(fd, host).binary
  BY DEF FTP!Connection
<1> HIDE DEF g
<1>4. ControlSocket(g) = fd /\ FTP!Control(g).host = host /\ ~ FTP!Control(g).binary
  BY <1>1, <1>3 DEF ControlSocket, FTP!Control
<1>5. QED
  BY <1>1, <1>2, <1>4 DEF g

LEMMA ConnectHolds ==
  ASSUME OneHost, Inv, Again(ftp, pc), FtpNow,
         FTP!HostUnknown \/ FTP!AlreadyConnected \/ FTP!CannotConnect \/ FTP!Connect
  PROVE  FtpNow'
<1>1. pc = "ftp" /\ Calm(pc) /\ Calm("listen") /\ Calm("return")
  BY DEF FTP!HostUnknown, FTP!AlreadyConnected, FTP!CannotConnect, FTP!Connect, Calm,
         FtpBusy, FtpAsks
<1>2. /\ net \in Nets(Hosts) /\ FtpFits(ftp) /\ ftp \in Ftps /\ request.host \in FtpHosts
      /\ OnlyControl(ftp) /\ Holds(net, ftp)
  <2>1. net \in Nets(Hosts) /\ FtpFits(ftp) /\ ftp \in Ftps /\ request.host \in FtpHosts
    BY <1>1 DEF Inv, TypeOK, FtpFits, RequestFits
  <2>2. OnlyControl(ftp)
    BY DEF Again
  <2>3. Holds(net, ftp)
    BY DEF FtpNow, FtpHolds
  <2>4. QED
    BY <2>1, <2>2, <2>3
<1>3. ftp.master_socket # Null => net.sockets[ftp.master_socket].peer = "listener"
  BY <1>2 DEF Holds
<1>4. FtpHolds(net, ftp, pc, request.binary)
  BY DEF FtpNow
<1>5. CASE FTP!HostUnknown \/ FTP!CannotConnect
  <2>1. FTP!Return(net, ftp, FTP!Failed)
    BY <1>5 DEF FTP!HostUnknown, FTP!CannotConnect
  <2>2. FtpHolds(net, ftp, "return", request.binary)
    BY <1>1, <1>3, <1>4, CalmHolds
  <2>3. QED
    BY <2>1, <2>2, FtpNowNext
<1>6. CASE FTP!AlreadyConnected
  <2>1. FTP!Goto(net, ftp, "listen") /\ ftp.connections # << >>
    BY <1>2, <1>6, NoneIsListed DEF FTP!AlreadyConnected
  <2>2. FtpHolds(net, ftp, "listen", request.binary)
    BY <1>1, <1>3, <1>4, <2>1, CalmHolds
  <2>3. QED
    BY <2>1, <2>2, FtpNowNext
<1>7. CASE FTP!Connect
  <2> DEFINE fd   == NewSocket(net)
             c    == Min(ConnectionIds \ (Range(ftp.connections) \cup { ftp.control }))
             g    == Connected(ftp, c, fd, request.host)
             open(wire) == With(net, fd, Socket(request.host, wire))
  <2>1. \A S : FTP!Min(S) = Min(S) /\ FTP!Range(S) = Range(S)
    BY DEF FTP!Min, Min, FTP!Range, Range
  <2>2. PICK wire \in { << 2 >>, << 5 >>, << Notice >> } :
          FTP!Goto(HTInitInput(open(wire), fd), g, "greeting")
    BY <1>7, <2>1, FtpInput DEF FTP!Connect, Connected
  <2>3. FreeSockets(net) # { } /\ ftp.connections = << >>
    BY <1>2, <1>7, FtpInput, NoneIsListed DEF FTP!Connect
  <2>4. /\ fd \in Fds /\ fd # ftp.master_socket
        /\ ftp.master_socket # Null => /\ ftp.master_socket \in Fds
                                       /\ net.sockets[ftp.master_socket].peer = "listener"
    BY <1>2, <1>3, <2>3, FreshApart
  <2>5. c \in ConnectionIds
    <3> DEFINE T == ConnectionIds \ (Range(ftp.connections) \cup { ftp.control })
    <3>1. \A i \in DOMAIN ftp.connections : HostOf(ftp, i) # request.host
      BY <2>3
    <3>2. T # { }
      BY <1>2, <3>1, FreeConnection
    <3>3. T \in SUBSET Nat
      BY HostAssumption
    <3>4. Min(T) \in T
      BY <3>2, <3>3, Least
    <3>5. QED
      BY <3>4
  <2> HIDE DEF c, fd
  <2>6. /\ g.connections = << c >> /\ g.control = c /\ g.master_socket = ftp.master_socket
        /\ ControlSocket(g) = fd /\ FTP!Control(g).host = request.host
        /\ ~ FTP!Control(g).binary
    BY <1>2, <2>3, <2>5, ConnectedAlone
  <2> DEFINE m == HTInitInput(open(wire), fd)
  <2> HIDE DEF g
  <2>7. /\ << 2 >> \in Seq(Items) /\ << 5 >> \in Seq(Items) /\ << Notice >> \in Seq(Items)
        /\ request.host \in Hosts
    BY <1>2 DEF Items, Hosts
  <2>8. /\ Socket(request.host, wire) \in Sockets(Hosts)
        /\ Socket(request.host, wire).peer = request.host
        /\ Socket(request.host, wire).wire = wire /\ wire \in Seq(Items)
    BY <2>7, SocketFits DEF Socket
  <2> DEFINE it == Socket(request.host, wire)
  <2> HIDE DEF it
  <2>9. /\ m \in Nets(Hosts) /\ m.fd = fd /\ m.buffer = << >> /\ m.sockets[fd] = it
        /\ \A i \in Fds : i # fd => m.sockets[i] = net.sockets[i]
    <3>1. /\ open(wire) \in Nets(Hosts) /\ open(wire).sockets[fd] = it
          /\ \A i \in Fds : i # fd => open(wire).sockets[i] = net.sockets[i]
      BY <1>2, <2>4, <2>8, WithFits DEF it
    <3> HIDE DEF open
    <3>2. QED
      BY <2>4, <3>1, InputFits
  <2> HIDE DEF m
  <2>10. request.host # "nobody"
    BY <2>7, HostAssumption DEF Nobodies
  <2>11. Holds(m, g)
    <3>1. it.peer = request.host /\ Unused.peer = "nobody"
      BY <2>8, EmptySocket DEF it
    <3>2. IsOpen(m, fd)
      BY <2>4, <2>9, <2>10, <3>1 DEF IsOpen
    <3>3. QED
      BY <2>4, <2>6, <2>9, <3>1, <3>2 DEF Holds
  <2>12. Pending(m, fd) = wire
    BY <2>8, <2>9 DEF Pending, it
  <2>13. Pending(m, fd) \in Silence \cup FtpReplies("greeting")
    BY <2>2, <2>12, RepliesByLabel DEF Silence
  <2>14. "greeting" \in LogsIn /\ "greeting" \in FtpBusy /\ "greeting" # "listen"
    BY DEF LogsIn, FtpBusy, FtpAsks
  <2>15. InStep(m, g, "greeting", request.binary)
    BY <2>6, <2>13, <2>14 DEF InStep, InMode
  <2>16. g.connections # << >>
    BY <2>6
  <2>17. FtpHolds(m, g, "greeting", request.binary)
    BY <2>11, <2>15, <2>16 DEF FtpHolds
  <2>18. FTP!Goto(m, g, "greeting")
    BY <2>2 DEF m
  <2>19. QED
    BY <2>17, <2>18, FtpNowNext
<1>8. QED
  BY <1>5, <1>6, <1>7

LEMMA FtpKeepsNow ==
  ASSUME OneHost, Inv, Again(ftp, pc), FtpNow, FTP!HTFTPLoad
  PROVE  FtpNow'
<1>1. CASE \/ FTP!Greeting \/ FTP!LoginReply("user", "PASS", "pass")
           \/ FTP!LoginReply("pass", "ACCT", "acct") \/ FTP!LoginReply("acct", "none", "none")
  BY <1>1, LoginHolds
<1>2. CASE FTP!HostUnknown \/ FTP!AlreadyConnected \/ FTP!CannotConnect \/ FTP!Connect
  BY <1>2, ConnectHolds
<1>3. CASE FTP!get_listen_socket \/ FTP!NoListenSocket
  BY <1>3, ListenHolds
<1>4. CASE FTP!PortReply
  BY <1>4, PortReplyHolds
<1>5. CASE FTP!TypeReply
  BY <1>5, TypeReplyHolds
<1>6. CASE FTP!RetrReply \/ FTP!CwdReply \/ FTP!NlstReply
  BY <1>6, TransferReplyHolds
<1>7. CASE FTP!AcceptFails
  BY <1>7, AcceptFailsHolds
<1>8. CASE FTP!TransferFile \/ FTP!read_directory
  BY <1>8, TransferHolds
<1>9. CASE FTP!FinalReply
  BY <1>9, FinalReplyHolds
<1>10. QED
  BY <1>1, <1>2, <1>3, <1>4, <1>5, <1>6, <1>7, <1>8, <1>9, Zenon
     DEF FTP!HTFTPLoad, FTP!get_connection

(* What is still due on the news connection while a load waits at a label: *)
(* a reply alone, or one with the lines of a text, or the rest of these.   *)
NewsLines == { << Dot >>, << Text, Dot >>, << Text >> }

Single(label, kind) ==
  label = "news greeting" \/ (label = "news command" /\ kind = "group")

NewsWaits == { "news greeting", "news command", "news head reply" }

NewsReplies(label, kind) ==
  IF Single(label, kind) THEN { << 2 >>, << 5 >> }
  ELSE IF label \in { "news command", "news head reply" }
  THEN { << 5 >>, << 2, Dot >>, << 2, Text, Dot >>, << 2, Text >> }
  ELSE IF label \in { "news body", "news head" } THEN NewsLines
  ELSE { }

(* A kept news connection is open, to the news server, and is what the     *)
(* input reads.                                                            *)
NewsDue(n, w, dues) ==
  /\ ~ w.lost
  /\ w.s # Null => /\ IsOpen(n, w.s) /\ n.fd = w.s /\ n.sockets[w.s].peer = NewsHost
                   /\ Pending(n, w.s) \in dues

NewsHolds(n, w, label, kind) ==
  \/ w.lost /\ w.s = Null /\ label \in { "news command", "news head reply" }
  \/ NewsDue(n, w, { << >> } \cup NewsReplies(label, kind))

(* The command asked for at a label. *)
NewsPair(cmd, label, kind) ==
  \/ label = "news command" /\ (cmd = "GROUP" <=> kind = "group")
  \/ label = "news head reply" /\ cmd = "HEAD"

LEMMA NullIsNoSocket == Null \notin Fds
BY DEF Null, Fds

LEMMA NewsItems ==
  /\ 2 \in Items /\ 5 \in Items /\ Dot \in Items /\ Text \in Items
  /\ Dot # 2 /\ Dot # 5 /\ Text # 2 /\ Text # 5 /\ Text # Dot
BY DEF Items, Dot, Text

LEMMA LineTaken ==
  ASSUME NEW x \in Items, NEW s \in Seq(Items), << x >> \o s \in { << >> } \cup NewsLines
  PROVE  (x = Dot => s = << >>) /\ s \in { << >> } \cup NewsLines
<1> DEFINE t == << x >> \o s
<1>1. /\ t # << >>
      /\ \A a \in Items : << a >> = t => x = a /\ s = << >>
      /\ \A a, b \in Items : << a, b >> = t => x = a /\ s = << b >>
  BY ItemsDue
<1>2. t \in { << >> } \cup NewsLines
  OBVIOUS
<1> HIDE DEF t
<1>3. CASE t = << Dot >>
  BY <1>1, <1>3, NewsItems
<1>4. CASE t = << Text >>
  BY <1>1, <1>4, NewsItems
<1>5. CASE t = << Text, Dot >>
  <2>1. x = Text /\ s = << Dot >>
    BY <1>1, <1>5, NewsItems
  <2>2. QED
    BY <2>1, NewsItems DEF NewsLines
<1>6. QED
  BY <1>1, <1>2, <1>3, <1>4, <1>5 DEF NewsLines

LEMMA StatusTaken ==
  ASSUME NEW x \in Items, NEW s \in Seq(Items), NEW label \in NewsWaits, NEW kind,
         << x >> \o s \in { << >> } \cup NewsReplies(label, kind)
  PROVE  /\ x \in { 2, 5 } /\ (x # 2 => s = << >>)
         /\ IF Single(label, kind) THEN s = << >> ELSE s \in { << >> } \cup NewsLines
<1> DEFINE t == << x >> \o s
<1>1. /\ t # << >>
      /\ \A a \in Items : << a >> = t => x = a /\ s = << >>
      /\ \A a, b \in Items : << a, b >> = t => x = a /\ s = << b >>
      /\ \A a, b, c \in Items : << a, b, c >> = t => x = a /\ s = << b, c >>
  BY ItemsDue
<1>2. t \in { << >> } \cup NewsReplies(label, kind)
  OBVIOUS
<1> HIDE DEF t
<1>3. t = << 2 >> \/ t = << 5 >> => x \in { 2, 5 } /\ s = << >>
  BY <1>1, NewsItems
<1>4. ASSUME NEW u \in { << Dot >>, << Text >>, << Text, Dot >> }
      PROVE  u \in { << >> } \cup NewsLines
  BY DEF NewsLines
<1>5. t = << 2, Dot >> \/ t = << 2, Text >> => x = 2 /\ s \in { << Dot >>, << Text >> }
  <2>1. \A b \in Items : << 2, b >> = t => x = 2 /\ s = << b >>
    BY <1>1, NewsItems
  <2>2. QED
    BY <2>1, NewsItems
<1>6. t = << 2, Text, Dot >> => x = 2 /\ s = << Text, Dot >>
  BY <1>1, NewsItems
<1>7. CASE Single(label, kind)
  <2>1. t \in { << >>, << 2 >>, << 5 >> }
    BY <1>2, <1>7 DEF NewsReplies
  <2>2. x \in { 2, 5 } /\ s = << >>
    BY <1>1, <2>1, NewsItems
  <2>3. QED
    BY <1>7, <2>2
<1>8. CASE ~ Single(label, kind)
  <2>1. t \in { << >>, << 5 >>, << 2, Dot >>, << 2, Text, Dot >>, << 2, Text >> }
    BY <1>2, <1>8 DEF NewsReplies, Single, NewsWaits
  <2>2. x \in { 2, 5 } /\ (x # 2 => s = << >>) /\ s \in { << >> } \cup NewsLines
    BY <1>1, <1>3, <1>4, <1>5, <1>6, <2>1
  <2>3. QED
    BY <1>8, <2>2
<1>9. QED
  BY <1>7, <1>8

(* What the news server answers is due at the label that waits for it. *)
LEMMA NewsAnswersDue ==
  ASSUME NEW cmd, NEW label, NEW kind, NewsPair(cmd, label, kind), NEW session,
         NEW a \in News!NewsServer(cmd, NewsHost, session)
  PROVE  a.wire \in { << >> } \cup NewsReplies(label, kind)
<1> DEFINE answer(wire, up) == [ wire |-> wire, up |-> up, session |-> session ]
<1>1. \A wire, up : answer(wire, up).wire = wire
  OBVIOUS
<1> HIDE DEF answer
<1>2. \/ a \in { answer(<< 5 >>, TRUE), answer(<< 5 >>, FALSE), answer(<< >>, FALSE) }
      \/ cmd = "GROUP" /\ a = answer(<< 2 >>, TRUE)
      \/ cmd # "GROUP" /\ a \in { answer(<< 2, Dot >>, TRUE), answer(<< 2, Text, Dot >>, TRUE),
                                  answer(<< 2, Text >>, FALSE) }
  BY NewsInput, Zenon DEF News!NewsServer, answer
<1>3. \/ a.wire \in { << >>, << 5 >> }
      \/ cmd = "GROUP" /\ a.wire = << 2 >>
      \/ cmd # "GROUP" /\ a.wire \in { << 2, Dot >>, << 2, Text, Dot >>, << 2, Text >> }
  BY <1>1, <1>2, Zenon
<1>4. Single(label, kind) <=> cmd = "GROUP"
  BY DEF NewsPair, Single
<1>5. label \in { "news command", "news head reply" }
  BY DEF NewsPair
<1>6. CASE cmd = "GROUP"
  <2>1. NewsReplies(label, kind) = { << 2 >>, << 5 >> }
    BY <1>4, <1>6 DEF NewsReplies
  <2>2. QED
    BY <1>3, <1>6, <2>1
<1>7. CASE cmd # "GROUP"
  <2>1. NewsReplies(label, kind) = { << 5 >>, << 2, Dot >>, << 2, Text, Dot >>, << 2, Text >> }
    BY <1>4, <1>5, <1>7 DEF NewsReplies
  <2>2. QED
    BY <1>3, <1>7, <2>1
<1>8. QED
  BY <1>6, <1>7

(* A command that is written is answered, or the connection is closed. *)
LEMMA NewsAskHolds ==
  ASSUME NEW n \in Nets(Hosts), NEW w \in NewsStates, NewsDue(n, w, { << >> }),
         NEW cmd, NEW label, NEW kind, NewsPair(cmd, label, kind), NEW o \in News!Command(n, w, cmd)
  PROVE  NewsHolds(o.net, o.news, label, kind)
<1> DEFINE fd == w.s
           it == n.sockets[fd]
           next(a) == [ it EXCEPT !.wire = @ \o a.wire, !.up = a.up, !.session = a.session ]
<1>1. PICK q \in News!Write(n, fd, LAMBDA peer, session : News!NewsServer(cmd, peer, session)) :
        o = IF q.sent THEN [ net |-> q.net, news |-> w ]
            ELSE [ News!Disconnected(q.net, w) EXCEPT !.news.lost = TRUE ]
  BY DEF News!Command
<1>2. ASSUME ~ q.sent
      PROVE  NewsHolds(o.net, o.news, label, kind)
  <2>1. o.news = [ [ w EXCEPT !.s = Null ] EXCEPT !.lost = TRUE ]
    BY <1>1, <1>2, NewsInput DEF News!Disconnected
  <2>2. o.news.s = Null /\ o.news.lost
    BY <2>1 DEF NewsStates
  <2>3. label \in { "news command", "news head reply" }
    BY DEF NewsPair
  <2>4. QED
    BY <2>2, <2>3 DEF NewsHolds
<1>3. ASSUME q.net = n, q.sent
      PROVE  NewsHolds(o.net, o.news, label, kind)
  <2>1. o.net = n /\ o.news = w
    BY <1>1, <1>3
  <2>2. QED
    BY <2>1 DEF NewsHolds, NewsDue
<1>4. CASE ~ IsOpen(n, fd) \/ it.peer = "listener"
  <2>1. q = [ sent |-> FALSE, net |-> n ]
    BY <1>1, <1>4, NewsInput DEF News!Write
  <2>2. QED
    BY <1>2, <2>1
<1>5. CASE IsOpen(n, fd) /\ it.peer # "listener" /\ it.up
  <2>1. PICK a \in News!NewsServer(cmd, it.peer, it.session) :
          q = [ sent |-> TRUE, net |-> With(n, fd, next(a)) ]
    BY <1>1, <1>5, NewsInput DEF News!Write
  <2>2. /\ fd \in Fds /\ it \in Sockets(Hosts) /\ it.wire \in Seq(Items)
        /\ it.session \in { "none", "A", "I" }
    BY <1>5 DEF Nets, Sockets, IsOpen
  <2>3. /\ w.s # Null /\ ~ w.lost /\ n.fd = fd /\ it.peer = NewsHost /\ Pending(n, fd) = << >>
    BY <2>2, NullIsNoSocket DEF NewsDue
  <2>4. a.wire \in Seq(Items) /\ a.up \in BOOLEAN /\ a.session \in { "none", "A", "I" }
    BY <2>1, <2>2, NewsAnswersFit
  <2>5. it.wire = << >> /\ n.buffer = << >>
    BY <2>2, <2>3, DueOf
  <2>6. it.wire \o a.wire = a.wire
    BY <2>2, <2>4, <2>5, NothingDue
  <2> DEFINE x == next(a)
  <2>7. x \in Sockets(Hosts) /\ x.peer = it.peer /\ x.wire = a.wire
    <3> HIDE DEF it
    <3>1. QED
      BY <2>2, <2>4, <2>6 DEF Sockets
  <2>8. o.news = w /\ o.net = With(n, fd, x)
    BY <1>1, <2>1
  <2> HIDE DEF x, next, it, fd
  <2>9. o.net \in Nets(Hosts) /\ o.net.sockets[fd] = x /\ o.net.fd = fd /\ o.net.buffer = << >>
    <3>1. fd \in Fds /\ x \in Sockets(Hosts) /\ o.net = With(n, fd, x)
      BY <2>2, <2>7, <2>8
    <3>2. n.fd = fd /\ n.buffer = << >> /\ n \in Nets(Hosts)
      BY <2>3, <2>5
    <3> DEFINE m == With(n, fd, x)
    <3>3. /\ m \in Nets(Hosts) /\ m.sockets[fd] = x /\ m.fd = n.fd /\ m.buffer = n.buffer
      BY <3>1, WithFits
    <3>4. o.net = m
      BY <3>1
    <3> HIDE DEF m
    <3>5. QED
      BY <3>2, <3>3, <3>4
  <2>10. Pending(o.net, fd) = a.wire
    BY <2>2, <2>7, <2>9, DueOf
  <2>11. a.wire \in { << >> } \cup NewsReplies(label, kind)
    BY <2>1, <2>3, NewsAnswersDue
  <2>12. IsOpen(o.net, fd)
    <3>1. NewsHost # Unused.peer
      BY EmptySocket, HostAssumption DEF Hosts, Nobodies
    <3>2. QED
      BY <2>2, <2>3, <2>7, <2>9, <3>1 DEF IsOpen
  <2>13. QED
    BY <2>3, <2>7, <2>8, <2>9, <2>10, <2>11, <2>12 DEF NewsHolds, NewsDue, fd
<1>6. CASE IsOpen(n, fd) /\ it.peer # "listener" /\ ~ it.up
  <2>1. q \in [ sent : BOOLEAN, net : { n } ]
    BY <1>1, <1>6, NewsInput DEF News!Write
  <2>2. q.net = n /\ q.sent \in BOOLEAN
    BY <2>1
  <2>3. QED
    BY <1>2, <1>3, <2>2
<1>7. QED
  BY <1>4, <1>5, <1>6

(* What a read leaves. *)
LEMMA NewsReadHolds ==
  ASSUME NEW n \in Nets(Hosts), NEW w \in NewsStates, NEW dues, NewsDue(n, w, dues), w.s # Null,
         NEW o \in HTGetChararcter(n), o.item # EOF
  PROVE  /\ w.s \in Fds /\ o.item \in Items /\ o.net \in Nets(Hosts)
         /\ Pending(o.net, w.s) \in Seq(Items) /\ << o.item >> \o Pending(o.net, w.s) \in dues
         /\ NewsDue(o.net, w, { Pending(o.net, w.s) })
<1>1. ~ w.lost /\ IsOpen(n, w.s) /\ n.fd = w.s /\ n.sockets[w.s].peer = NewsHost /\ w.s \in Fds
  BY DEF NewsDue, IsOpen
<1>2. /\ o.net \in Nets(Hosts) /\ o.item \in Items /\ o.net.fd = w.s
      /\ o.net.sockets[w.s].peer = NewsHost
      /\ Pending(n, w.s) = << o.item >> \o Pending(o.net, w.s)
  BY <1>1, GetFits
<1>3. Pending(o.net, w.s) \in Seq(Items)
  BY <1>1, <1>2, DueOf
<1>4. NewsHost # Unused.peer
  BY EmptySocket, HostAssumption DEF Hosts, Nobodies
<1>5. IsOpen(o.net, w.s)
  BY <1>1, <1>2, <1>4 DEF IsOpen
<1>6. << o.item >> \o Pending(o.net, w.s) \in dues
  BY <1>2 DEF NewsDue
<1>7. QED
  BY <1>1, <1>2, <1>3, <1>5, <1>6 DEF NewsDue

(* After a reply either there is no connection, or it was the first item due. *)
LEMMA NewsStatusDue ==
  ASSUME NEW n \in Nets(Hosts), NEW w \in NewsStates, NEW dues,
         (w.lost /\ w.s = Null) \/ NewsDue(n, w, dues), NEW r \in News!Response(n, w)
  PROVE  \/ r.news.s = Null /\ ~ r.news.lost
         \/ /\ r.news = w /\ w.s # Null /\ NewsDue(r.net, w, { Pending(r.net, w.s) })
            /\ Pending(r.net, w.s) \in Seq(Items)
            /\ \E item \in Items : /\ << item >> \o Pending(r.net, w.s) \in dues
                                   /\ item \in 1 .. 5 => r.digit = item
<1>1. CASE w.lost
  <2>1. r.digit = -1 /\ r.net = n /\ r.news = [ w EXCEPT !.lost = FALSE ]
    BY <1>1 DEF News!Response
  <2>2. w.s = Null
    BY <1>1 DEF NewsDue
  <2>3. r.news.s = Null /\ ~ r.news.lost
    BY <2>1, <2>2 DEF NewsStates
  <2>4. QED
    BY <2>3
<1>2. CASE ~ w.lost
  <2>1. PICK o \in HTGetChararcter(n) :
          r \in IF o.item = EOF
                THEN LET closed == News!Disconnected(o.net, w)
                     IN  { [ digit |-> -1, net |-> closed.net, news |-> closed.news ] }
                ELSE { [ digit |-> IF d = Notice THEN 4 ELSE d, net |-> o.net, news |-> w ]
                       : d \in NumbersOf(o.item) }
    BY <1>2, NewsInput DEF News!Response
  <2>2. CASE o.item = EOF
    <3>1. r.digit = -1 /\ r.net = Close(o.net, w.s) /\ r.news = [ w EXCEPT !.s = Null ]
      BY <2>1, <2>2, NewsInput DEF News!Disconnected
    <3>2. r.news.s = Null /\ ~ r.news.lost
      BY <1>2, <3>1 DEF NewsStates
    <3>3. QED
      BY <3>2
  <2>3. CASE o.item # EOF
    <3>1. PICK d \in NumbersOf(o.item) :
            r = [ digit |-> IF d = Notice THEN 4 ELSE d, net |-> o.net, news |-> w ]
      BY <2>1, <2>3
    <3>2. r.net = o.net /\ r.news = w /\ r.digit = IF d = Notice THEN 4 ELSE d
      BY <3>1
    <3>3. o.item \in 1 .. 5 => d = o.item /\ d # Notice
      BY <3>1 DEF NumbersOf, Notice
    <3>4. CASE w.s = Null
      BY <1>2, <3>2, <3>4
    <3>5. CASE w.s # Null
      <4>1. /\ o.item \in Items /\ Pending(o.net, w.s) \in Seq(Items)
            /\ << o.item >> \o Pending(o.net, w.s) \in dues
            /\ NewsDue(o.net, w, { Pending(o.net, w.s) })
        BY <1>2, <2>3, <3>5, NewsReadHolds
      <4>2. o.item \in 1 .. 5 => r.digit = o.item
        BY <3>2, <3>3
      <4>3. QED
        BY <3>2, <3>5, <4>1, <4>2
    <3>6. QED
      BY <3>4, <3>5
  <2>4. QED
    BY <2>2, <2>3
<1>3. QED
  BY <1>1, <1>2

LEMMA NewsReplyHolds ==
  ASSUME NEW n \in Nets(Hosts), NEW w \in NewsStates, NEW label \in NewsWaits, NEW kind,
         NewsHolds(n, w, label, kind), NEW r \in News!Response(n, w)
  PROVE  NewsDue(r.net, r.news, IF r.digit # 2 \/ Single(label, kind) THEN { << >> }
                                ELSE { << >> } \cup NewsLines)
<1> DEFINE dues == IF r.digit # 2 \/ Single(label, kind) THEN { << >> }
                   ELSE { << >> } \cup NewsLines
           s == Pending(r.net, w.s)
<1> HIDE DEF dues, s
<1>1. CASE r.news.s = Null /\ ~ r.news.lost
  BY <1>1 DEF NewsDue
<1>2. ASSUME ~ (r.news.s = Null /\ ~ r.news.lost)
      PROVE  NewsDue(r.net, r.news, dues)
  <2>1. /\ r.news = w /\ w.s # Null /\ NewsDue(r.net, w, { s }) /\ s \in Seq(Items)
        /\ \E item \in Items : /\ << item >> \o s \in { << >> } \cup NewsReplies(label, kind)
                               /\ item \in 1 .. 5 => r.digit = item
    <3> DEFINE all == { << >> } \cup NewsReplies(label, kind)
    <3>1. (w.lost /\ w.s = Null) \/ NewsDue(n, w, all)
      BY DEF NewsHolds
    <3> HIDE DEF all
    <3>2. /\ r.news = w /\ w.s # Null /\ NewsDue(r.net, w, { s }) /\ s \in Seq(Items)
          /\ \E item \in Items : << item >> \o s \in all /\ (item \in 1 .. 5 => r.digit = item)
      BY <1>2, <3>1, NewsStatusDue DEF s
    <3>3. QED
      BY <3>2, Zenon DEF all
  <2>2. PICK item \in Items : /\ << item >> \o s \in { << >> } \cup NewsReplies(label, kind)
                              /\ item \in 1 .. 5 => r.digit = item
    BY <2>1
  <2>3. /\ item \in { 2, 5 } /\ (item # 2 => s = << >>)
        /\ IF Single(label, kind) THEN s = << >> ELSE s \in { << >> } \cup NewsLines
    BY <2>1, <2>2, StatusTaken, Zenon
  <2>4. r.digit = item
    <3>1. item \in { 2, 5 } => item \in 1 .. 5
      OBVIOUS
    <3>2. QED
      BY <2>2, <2>3, <3>1, Zenon
  <2>5. s \in dues
    BY <2>3, <2>4 DEF dues
  <2>6. QED
    BY <2>1, <2>5 DEF NewsDue, s
<1>3. QED
  BY <1>1, <1>2 DEF dues

NewsNow == NewsHolds(net, news, pc, request.kind)

(* Where no answer of the news server is awaited. *)
NewsCalm(label) == label \notin NewsBusy \/ label = "news try"

LEMMA NewsCalmReplies ==
  ASSUME NEW label, NewsCalm(label), NEW kind
  PROVE  NewsReplies(label, kind) = { }
<1>1. /\ ~ Single(label, kind) /\ label \notin { "news command", "news head reply" }
      /\ label \notin { "news body", "news head" }
  BY DEF NewsCalm, NewsBusy, Single
<1>2. QED
  BY <1>1 DEF NewsReplies

LEMMA NewsRepliesBy ==
  ASSUME NEW kind
  PROVE  /\ NewsReplies("news body", kind) = NewsLines
         /\ NewsReplies("news head", kind) = NewsLines
         /\ NewsReplies("news greeting", kind) = { << 2 >>, << 5 >> }
<1>1. ~ Single("news body", kind) /\ ~ Single("news head", kind) /\ Single("news greeting", kind)
  BY Zenon DEF Single
<1>2. /\ "news body" \notin { "news command", "news head reply" }
      /\ "news head" \notin { "news command", "news head reply" }
  OBVIOUS
<1>3. NewsReplies("news body", kind) = NewsLines
  BY <1>1, <1>2, Zenon DEF NewsReplies
<1>4. NewsReplies("news head", kind) = NewsLines
  BY <1>1, <1>2, Zenon DEF NewsReplies
<1>5. NewsReplies("news greeting", kind) = { << 2 >>, << 5 >> }
  BY <1>1, Zenon DEF NewsReplies
<1>6. QED
  BY <1>3, <1>4, <1>5

LEMMA NewsNowNext ==
  ASSUME NEW n, NEW w
  PROVE  /\ \A label : News!Goto(n, w, label) /\ NewsHolds(n, w, label, request.kind) => NewsNow'
         /\ \A value, shown : News!Return(n, w, value, shown) /\ NewsDue(n, w, { << >> })
              => NewsNow'
         /\ \A cmd, label :
              /\ News!Ask(n, w, cmd, label) /\ NewsPair(cmd, label, request.kind)
              /\ n \in Nets(Hosts) /\ w \in NewsStates /\ NewsDue(n, w, { << >> })
              => NewsNow'
<1>1. ASSUME NEW m, NEW v, NEW label, News!Goto(m, v, label),
             NewsHolds(m, v, label, request.kind)
      PROVE  NewsNow'
  <2>1. net' = m /\ news' = v /\ pc' = label /\ request' = request
    BY <1>1 DEF News!Goto
  <2>2. QED
    BY <1>1, <2>1 DEF NewsNow
<1>2. ASSUME NEW value, NEW shown, News!Return(n, w, value, shown), NewsDue(n, w, { << >> })
      PROVE  NewsNow'
  <2>1. net' = n /\ news' = w /\ pc' = "return" /\ request' = request
    BY <1>2 DEF News!Return
  <2>2. NewsCalm("return")
    BY DEF NewsCalm, NewsBusy
  <2>3. NewsReplies("return", request.kind) = { }
    BY <2>2, NewsCalmReplies
  <2>4. NewsHolds(n, w, "return", request.kind)
    BY <1>2, <2>3 DEF NewsHolds
  <2>5. QED
    BY <2>1, <2>4 DEF NewsNow
<1>3. ASSUME NEW cmd, NEW label, News!Ask(n, w, cmd, label), NewsPair(cmd, label, request.kind),
             n \in Nets(Hosts), w \in NewsStates, NewsDue(n, w, { << >> })
      PROVE  NewsNow'
  <2>1. PICK o \in News!Command(n, w, cmd) : News!Goto(o.net, o.news, label)
    BY <1>3 DEF News!Ask
  <2>2. NewsHolds(o.net, o.news, label, request.kind)
    BY <1>3, <2>1, NewsAskHolds
  <2>3. QED
    BY <1>1, <2>1, <2>2
<1>4. QED
  BY <1>1, <1>2, <1>3

LEMMA NextArticleHolds ==
  ASSUME NEW n \in Nets(Hosts), NEW w \in NewsStates, NewsDue(n, w, { << >> }),
         News!NextArticle(n, w)
  PROVE  NewsNow'
<1>1. CASE w.article = 0
  <2>1. News!Return(n, w, News!HT_LOADED, TRUE)
    BY <1>1 DEF News!NextArticle
  <2>2. QED
    BY <2>1, NewsNowNext
<1>2. CASE w.article # 0
  <2> DEFINE v == [ w EXCEPT !.article = @ - 1 ]
  <2>1. News!Ask(n, v, "HEAD", "news head reply")
    BY <1>2 DEF News!NextArticle
  <2>2. w.article - 1 \in 0 .. MaxArticles
    BY <1>2, BoundAssumption DEF NewsStates
  <2>3. v \in NewsStates /\ v.s = w.s /\ v.lost = w.lost
    BY <2>2 DEF NewsStates
  <2> HIDE DEF v
  <2>4. NewsDue(n, v, { << >> })
    BY <2>3 DEF NewsDue
  <2>5. NewsPair("HEAD", "news head reply", request.kind)
    BY DEF NewsPair
  <2>6. QED
    BY <2>1, <2>3, <2>4, <2>5, NewsNowNext
<1>3. QED
  BY <1>1, <1>2

LEMMA WantedPair == NewsPair(News!Wanted, "news command", request.kind)
<1>1. News!Wanted = "GROUP" <=> request.kind = "group"
  <2>1. CASE request.kind = "list"
    <3>1. News!Wanted = "LIST"
      BY <2>1, Zenon DEF News!Wanted
    <3>2. QED
      BY <2>1, <3>1
  <2>2. CASE request.kind = "group"
    <3>1. News!Wanted = "GROUP"
      BY <2>2, Zenon DEF News!Wanted
    <3>2. QED
      BY <2>2, <3>1
  <2>3. CASE request.kind \notin { "list", "group" }
    <3>1. request.kind # "list" /\ request.kind # "group"
      BY <2>3
    <3>2. News!Wanted = "ARTICLE"
      BY <3>1, Zenon DEF News!Wanted
    <3>3. QED
      BY <3>1, <3>2
  <2>4. QED
    BY <2>1, <2>2, <2>3
<1>2. QED
  BY <1>1 DEF NewsPair

LEMMA NewsStartsHold ==
  ASSUME Inv, NewsNow,
         \/ News!CannotInitialize \/ News!Initialize \/ News!CannotConnect \/ News!Connect
         \/ News!Reuse
  PROVE  NewsNow'
<1>1. net \in Nets(Hosts) /\ news \in NewsStates
  BY NewsInput DEF Inv, TypeOK, News!NewsOK, NewsStates
<1>2. NewsCalm(pc)
  BY DEF NewsCalm, NewsBusy, News!CannotInitialize, News!Initialize, News!CannotConnect,
         News!Connect, News!Reuse
<1>3. NewsReplies(pc, request.kind) = { }
  BY <1>2, NewsCalmReplies
<1>4. NewsDue(net, news, { << >> })
  <2>1. pc \notin { "news command", "news head reply" }
    BY <1>2 DEF NewsCalm, NewsBusy
  <2>2. QED
    BY <1>3, <2>1 DEF NewsNow, NewsHolds
<1>5. CASE News!CannotInitialize
  <2>1. News!Return(net, news, -1, FALSE)
    BY <1>5 DEF News!CannotInitialize
  <2>2. QED
    BY <1>4, <2>1, NewsNowNext
<1>6. CASE News!Initialize
  <2> DEFINE yes == TRUE
             no  == FALSE
             s0  == IF news.initialized THEN news.s ELSE Null
             w == [ news EXCEPT !.s = s0, !.initialized = yes, !.retries = 0, !.lost = no ]
  <2>1. News!Goto(net, w, "news try")
    BY <1>6, NewsInput DEF News!Initialize
  <2>2. s0 = news.s /\ ~ no
    BY DEF Inv
  <2> HIDE DEF yes, no, s0
  <2>3. w.s = news.s /\ w.lost = no
    BY <1>1, <2>2 DEF NewsStates
  <2> HIDE DEF w
  <2>4. NewsCalm("news try")
    BY DEF NewsCalm
  <2>5. NewsReplies("news try", request.kind) = { }
    BY <2>4, NewsCalmReplies
  <2>6. NewsHolds(net, w, "news try", request.kind)
    BY <1>4, <2>2, <2>3, <2>5 DEF NewsHolds, NewsDue
  <2>7. QED
    BY <2>1, <2>6, NewsNowNext
<1>7. CASE News!CannotConnect
  <2>1. News!Return(net, news, News!LoadError, FALSE)
    BY <1>7 DEF News!CannotConnect
  <2>2. QED
    BY <1>4, <2>1, NewsNowNext
<1>8. CASE News!Connect
  <2> DEFINE fd == NewSocket(net)
             it(wire) == [ Socket(NewsHost, wire) EXCEPT !.up = wire # << >> ]
             w == [ news EXCEPT !.s = fd ]
  <2>1. PICK wire \in { << 2 >>, << 5 >>, << >> } :
          News!Goto(HTInitInput(With(net, fd, it(wire)), fd), w, "news greeting")
    BY <1>8, NewsInput DEF News!Connect
  <2>2. FreeSockets(net) # { } /\ pc = "news try" /\ news.s = Null
    BY <1>8, NewsInput DEF News!Connect
  <2>3. fd \in Fds
    BY <1>1, <2>2, NewSocketFits
  <2>4. << 2 >> \in Seq(Items) /\ << 5 >> \in Seq(Items) /\ << >> \in Seq(Items)
    BY DEF Items
  <2> DEFINE up == wire # << >>
             x == [ Socket(NewsHost, wire) EXCEPT !.up = up ]
             m == With(net, fd, x)
  <2>5. up \in BOOLEAN
    OBVIOUS
  <2>6. Socket(NewsHost, wire) \in Sockets(Hosts)
    BY <2>4, SocketFits DEF Hosts
  <2> HIDE DEF up
  <2>7. x \in Sockets(Hosts) /\ x.peer = NewsHost /\ x.wire = wire
    BY <2>5, <2>6 DEF Sockets, Socket
  <2>8. News!Goto(HTInitInput(m, fd), w, "news greeting")
    BY <2>1 DEF up
  <2> HIDE DEF x, fd, it
  <2>9. m \in Nets(Hosts) /\ m.sockets[fd] = x
    BY <1>1, <2>3, <2>7, WithFits
  <2> HIDE DEF m
  <2> DEFINE q == HTInitInput(m, fd)
  <2>10. q \in Nets(Hosts) /\ q.sockets[fd] = x /\ q.fd = fd /\ q.buffer = << >>
    BY <2>3, <2>9, InputFits
  <2>11. w.s = fd /\ ~ w.lost
    <3>1. w.s = fd /\ w.lost = news.lost
      BY <1>1 DEF NewsStates
    <3>2. QED
      BY <1>4, <3>1 DEF NewsDue
  <2> HIDE DEF w, q
  <2>12. Pending(q, fd) = wire
    BY <2>3, <2>7, <2>10, DueOf
  <2>13. IsOpen(q, fd)
    <3>1. NewsHost # Unused.peer
      BY EmptySocket, HostAssumption DEF Hosts, Nobodies
    <3>2. QED
      BY <2>3, <2>7, <2>10, <3>1 DEF IsOpen
  <2>14. wire \in { << >> } \cup NewsReplies("news greeting", request.kind)
    BY <2>1, NewsRepliesBy
  <2>15. NewsHolds(q, w, "news greeting", request.kind)
    BY <2>7, <2>10, <2>11, <2>12, <2>13, <2>14 DEF NewsHolds, NewsDue
  <2>16. News!Goto(q, w, "news greeting")
    BY <2>8 DEF q
  <2>17. QED
    BY <2>15, <2>16, NewsNowNext
<1>9. CASE News!Reuse
  <2>1. News!Ask(net, news, News!Wanted, "news command")
    BY <1>9 DEF News!Reuse
  <2>2. QED
    BY <1>1, <1>4, <2>1, WantedPair, NewsNowNext
<1>10. QED
  BY <1>5, <1>6, <1>7, <1>8, <1>9

(* A closed connection is not kept. *)
LEMMA NewsDisconnectedDue ==
  ASSUME NEW n, NEW w \in NewsStates, ~ w.lost, NEW c, c = News!Disconnected(n, w), NEW dues
  PROVE  c.news \in NewsStates /\ c.news.s = Null /\ ~ c.news.lost /\ NewsDue(c.net, c.news, dues)
<1>1. c.news = [ w EXCEPT !.s = Null ]
  BY NewsInput DEF News!Disconnected
<1>2. c.news \in NewsStates /\ c.news.s = Null /\ ~ c.news.lost
  BY <1>1 DEF NewsStates
<1>3. QED
  BY <1>2 DEF NewsDue

LEMMA NewsRepliesHold ==
  ASSUME Inv, NewsNow, News!Greeting \/ News!CommandReply \/ News!HeadReply
  PROVE  NewsNow'
<1> DEFINE kind == request.kind
<1>1. pc \in NewsBusy /\ pc \in NewsWaits
  BY DEF News!Greeting, News!CommandReply, News!HeadReply, News!OnReply, NewsBusy, NewsWaits
<1>2. net \in Nets(Hosts) /\ news \in NewsStates
  BY <1>1, NewsStands
<1>3. PICK r \in News!Response(net, news) :
        LET closed == News!Disconnected(r.net, r.news)
        IN  \/ pc = "news greeting" /\ News!Ask(r.net, r.news, News!Wanted, "news command")
            \/ News!Return(closed.net, closed.news, News!LoadError, FALSE)
            \/ r.digit < 0 /\ News!Return(r.net, r.news, News!HT_LOADED, FALSE)
            \/ News!Goto(closed.net, [ closed.news EXCEPT !.retries = 1 ], "news try")
            \/ News!Return(closed.net, closed.news, News!HT_LOADED, FALSE)
            \/ News!Goto(r.net, r.news, "news body")
            \/ /\ pc = "news command" /\ kind = "group"
               /\ \E k \in 0 .. MaxArticles :
                    News!NextArticle(r.net, [ r.news EXCEPT !.article = k ])
            \/ News!Goto(r.net, r.news, "news head")
            \/ r.digit # 2 /\ News!NextArticle(r.net, r.news)
  BY Zenon DEF News!Greeting, News!CommandReply, News!HeadReply, News!OnReply
<1>4. /\ r.net \in Nets(Hosts) /\ r.news \in NewsStates /\ r.digit \in -1 .. 5
  BY <1>2, NewsReplySteps DEF NewsStep
<1> DEFINE dues == IF r.digit # 2 \/ Single(pc, kind) THEN { << >> }
                   ELSE { << >> } \cup NewsLines
<1>5. NewsDue(r.net, r.news, dues)
  BY <1>1, <1>2, NewsReplyHolds DEF NewsNow
<1> DEFINE closed == News!Disconnected(r.net, r.news)
<1>6. /\ closed.news \in NewsStates /\ closed.news.s = Null /\ ~ closed.news.lost
      /\ NewsDue(closed.net, closed.news, { << >> })
  BY <1>4, <1>5, NewsDisconnectedDue DEF NewsDue
<1>7. NewsDue(r.net, r.news, { << >> } \cup NewsLines)
  <2>1. dues \subseteq { << >> } \cup NewsLines
    OBVIOUS
  <2> HIDE DEF dues
  <2>2. QED
    BY <1>5, <2>1 DEF NewsDue
<1>8. r.digit # 2 \/ Single(pc, kind) => NewsDue(r.net, r.news, { << >> })
  BY <1>5
<1> HIDE DEF dues, closed
<1>9. CASE pc = "news greeting" /\ News!Ask(r.net, r.news, News!Wanted, "news command")
  <2>1. Single(pc, kind)
    BY <1>9, Zenon DEF Single
  <2>2. NewsDue(r.net, r.news, { << >> })
    BY <1>8, <2>1
  <2>3. QED
    BY <1>4, <1>9, <2>2, WantedPair, NewsNowNext
<1>10. CASE \/ News!Return(closed.net, closed.news, News!LoadError, FALSE)
            \/ News!Return(closed.net, closed.news, News!HT_LOADED, FALSE)
  BY <1>6, <1>10, NewsNowNext
<1>11. CASE r.digit < 0 /\ News!Return(r.net, r.news, News!HT_LOADED, FALSE)
  <2>1. r.digit # 2
    BY <1>4, <1>11
  <2>2. QED
    BY <1>8, <1>11, <2>1, NewsNowNext
<1>12. CASE News!Goto(closed.net, [ closed.news EXCEPT !.retries = 1 ], "news try")
  <2> DEFINE w == [ closed.news EXCEPT !.retries = 1 ]
  <2>1. w.s = Null /\ ~ w.lost
    BY <1>6 DEF NewsStates
  <2>2. News!Goto(closed.net, w, "news try")
    BY <1>12
  <2> HIDE DEF w
  <2>3. NewsHolds(closed.net, w, "news try", kind)
    BY <2>1 DEF NewsHolds, NewsDue
  <2>4. QED
    BY <2>2, <2>3, NewsNowNext
<1>13. CASE News!Goto(r.net, r.news, "news body") \/ News!Goto(r.net, r.news, "news head")
  <2>1. /\ NewsHolds(r.net, r.news, "news body", kind)
        /\ NewsHolds(r.net, r.news, "news head", kind)
    BY <1>7, NewsRepliesBy DEF NewsHolds
  <2>2. QED
    BY <1>13, <2>1, NewsNowNext
<1>14. CASE /\ pc = "news command" /\ kind = "group"
            /\ \E k \in 0 .. MaxArticles :
                 News!NextArticle(r.net, [ r.news EXCEPT !.article = k ])
  <2>1. PICK k \in 0 .. MaxArticles :
          News!NextArticle(r.net, [ r.news EXCEPT !.article = k ])
    BY <1>14
  <2> DEFINE w == [ r.news EXCEPT !.article = k ]
  <2>2. w \in NewsStates /\ w.s = r.news.s /\ w.lost = r.news.lost
    BY <1>4 DEF NewsStates
  <2>3. News!NextArticle(r.net, w)
    BY <2>1
  <2> HIDE DEF w
  <2>4. NewsDue(r.net, r.news, { << >> })
    BY <1>8, <1>14 DEF Single
  <2>5. NewsDue(r.net, w, { << >> })
    BY <2>2, <2>4 DEF NewsDue
  <2>6. QED
    BY <1>4, <2>2, <2>3, <2>5, NextArticleHolds
<1>15. CASE r.digit # 2 /\ News!NextArticle(r.net, r.news)
  BY <1>4, <1>8, <1>15, NextArticleHolds
<1>16. QED
  BY <1>3, <1>9, <1>10, <1>11, <1>12, <1>13, <1>14, <1>15 DEF closed

LEMMA NewsLinesHold ==
  ASSUME Inv, NewsNow, News!Body \/ News!Head_
  PROVE  NewsNow'
<1> DEFINE kind == request.kind
<1>1. pc \in NewsBusy /\ pc \in { "news body", "news head" }
  BY DEF News!Body, News!Head_, News!Line, NewsBusy
<1>2. net \in Nets(Hosts) /\ news \in NewsStates
  BY <1>1, NewsStands
<1>3. PICK o \in HTGetChararcter(net) :
        LET closed == News!Disconnected(o.net, news)
        IN  \/ o.item = Dot /\ News!Return(o.net, news, News!HT_LOADED, TRUE)
            \/ o.item = Dot /\ News!NextArticle(o.net, news)
            \/ News!Return(closed.net, closed.news, News!HT_LOADED, TRUE)
            \/ /\ o.item \notin { Dot, EOF }
               /\ News!Goto(o.net, news, "news body") \/ News!Goto(o.net, news, "news head")
  BY NewsInput, Zenon DEF News!Body, News!Head_, News!Line
<1>4. NewsReplies(pc, kind) = NewsLines /\ pc \notin { "news command", "news head reply" }
  BY <1>1, NewsRepliesBy
<1>5. NewsDue(net, news, { << >> } \cup NewsLines) /\ ~ news.lost
  BY <1>4 DEF NewsNow, NewsHolds, NewsDue
<1>6. o.net \in Nets(Hosts)
  BY <1>2, GetFits
<1>7. ASSUME o.item # EOF
      PROVE  /\ NewsDue(o.net, news, { << >> } \cup NewsLines)
             /\ o.item = Dot => NewsDue(o.net, news, { << >> })
  <2>1. CASE news.s = Null
    BY <1>5, <2>1 DEF NewsDue
  <2>2. CASE news.s # Null
    <3> DEFINE s == Pending(o.net, news.s)
    <3>1. /\ o.item \in Items /\ s \in Seq(Items) /\ NewsDue(o.net, news, { s })
          /\ << o.item >> \o s \in { << >> } \cup NewsLines
      BY <1>2, <1>5, <1>7, <2>2, NewsReadHolds
    <3> HIDE DEF s
    <3>2. (o.item = Dot => s = << >>) /\ s \in { << >> } \cup NewsLines
      BY <3>1, LineTaken
    <3>3. QED
      BY <3>1, <3>2 DEF NewsDue, s
  <2>3. QED
    BY <2>1, <2>2
<1> DEFINE closed == News!Disconnected(o.net, news)
<1>8. NewsDue(closed.net, closed.news, { << >> })
  BY <1>2, <1>5, NewsDisconnectedDue
<1> HIDE DEF closed
<1>9. CASE News!Return(closed.net, closed.news, News!HT_LOADED, TRUE)
  BY <1>8, <1>9, NewsNowNext
<1>10. Dot # EOF
  BY DEF Dot, EOF
<1>11. CASE o.item = Dot /\ News!Return(o.net, news, News!HT_LOADED, TRUE)
  BY <1>7, <1>10, <1>11, NewsNowNext
<1>12. CASE o.item = Dot /\ News!NextArticle(o.net, news)
  BY <1>2, <1>6, <1>7, <1>10, <1>12, NextArticleHolds
<1>13. CASE /\ o.item \notin { Dot, EOF }
            /\ News!Goto(o.net, news, "news body") \/ News!Goto(o.net, news, "news head")
  <2>1. /\ NewsHolds(o.net, news, "news body", kind)
        /\ NewsHolds(o.net, news, "news head", kind)
    BY <1>7, <1>13, NewsRepliesBy DEF NewsHolds
  <2>2. QED
    BY <1>13, <2>1, NewsNowNext
<1>14. QED
  BY <1>3, <1>9, <1>11, <1>12, <1>13 DEF closed

LEMMA NewsKeepsNow ==
  ASSUME Inv, NewsNow, News!HTLoadNews
  PROVE  NewsNow'
<1>1. CASE News!Greeting \/ News!CommandReply \/ News!HeadReply
  BY <1>1, NewsRepliesHold
<1>2. CASE News!Body \/ News!Head_
  BY <1>2, NewsLinesHold
<1>3. CASE \/ News!CannotInitialize \/ News!Initialize \/ News!CannotConnect \/ News!Connect
           \/ News!Reuse
  BY <1>3, NewsStartsHold
<1>4. QED
  BY <1>1, <1>2, <1>3 DEF News!HTLoadNews

(* A socket that listens goes on to listen. *)
Spares(n, m) ==
  \A g \in Fds : n.sockets[g].peer = "listener" => m.sockets[g].peer = "listener"

(* What a protocol's own socket may be for that.                           *)
NoListener(n, fd) == fd # Null => fd \in Fds /\ n.sockets[fd].peer # "listener"

LEMMA ClosesSpare ==
  ASSUME NEW n \in Nets(Hosts), NEW fd, NoListener(n, fd)
  PROVE  Spares(n, Close(n, fd))
BY CloseFits, NullIsNoSocket DEF Spares, NoListener

LEMMA SocketsSpare ==
  ASSUME NEW n \in Nets(Hosts), NEW fd \in Fds, NoListener(n, fd), NEW it \in Sockets(Hosts)
  PROVE  Spares(n, With(n, fd, it))
<1> DEFINE m == With(n, fd, it)
<1>1. \A g \in Fds : g # fd => m.sockets[g] = n.sockets[g]
  BY WithFits
<1>2. n.sockets[fd].peer # "listener"
  BY NullIsNoSocket DEF NoListener
<1> HIDE DEF m
<1>3. Spares(n, m)
  BY <1>1, <1>2 DEF Spares
<1>4. QED
  BY <1>3 DEF m

LEMMA NewOnesSpare ==
  ASSUME NEW n \in Nets(Hosts), FreeSockets(n) # { }, NEW it \in Sockets(Hosts)
  PROVE  Spares(n, With(n, NewSocket(n), it))
<1>1. NewSocket(n) \in Fds /\ n.sockets[NewSocket(n)] = Unused
  BY NewSocketFits DEF IsOpen
<1>2. NoListener(n, NewSocket(n))
  BY <1>1, EmptySocket DEF NoListener
<1>3. QED
  BY <1>1, <1>2, SocketsSpare

LEMMA ReadsSpare ==
  ASSUME NEW n \in Nets(Hosts), NEW o \in HTGetChararcter(n)
  PROVE  /\ o.net \in Nets(Hosts) /\ Spares(n, o.net)
         /\ \A fd : NoListener(n, fd) => NoListener(o.net, fd)
BY GetFits DEF Spares, NoListener

LEMMA SparesOn ==
  ASSUME NEW n, NEW m, NEW q, Spares(n, m), Spares(m, q)
  PROVE  Spares(n, q)
BY DEF Spares

LEMMA NewsCommandSpares ==
  ASSUME NEW n \in Nets(Hosts), NEW w \in NewsStates, NoListener(n, w.s), NEW cmd,
         NEW o \in News!Command(n, w, cmd)
  PROVE  Spares(n, o.net)
<1> DEFINE fd == w.s
           it == n.sockets[fd]
           next(a) == [ it EXCEPT !.wire = @ \o a.wire, !.up = a.up, !.session = a.session ]
<1>1. PICK q \in News!Write(n, fd, LAMBDA peer, session : News!NewsServer(cmd, peer, session)) :
        o = IF q.sent THEN [ net |-> q.net, news |-> w ]
            ELSE [ News!Disconnected(q.net, w) EXCEPT !.news.lost = TRUE ]
  BY DEF News!Command
<1>2. ASSUME q.net = n
      PROVE  Spares(n, o.net)
  <2>1. o.net = n \/ o.net = Close(n, w.s)
    BY <1>1, <1>2, NewsInput DEF News!Disconnected
  <2>2. Spares(n, n)
    BY DEF Spares
  <2>3. QED
    BY <2>1, <2>2, ClosesSpare
<1>3. CASE ~ IsOpen(n, fd) \/ it.peer = "listener"
  <2>1. q = [ sent |-> FALSE, net |-> n ]
    BY <1>1, <1>3, NewsInput DEF News!Write
  <2>2. QED
    BY <1>2, <2>1
<1>4. CASE IsOpen(n, fd) /\ it.peer # "listener" /\ it.up
  <2>1. PICK a \in News!NewsServer(cmd, it.peer, it.session) :
          q = [ sent |-> TRUE, net |-> With(n, fd, next(a)) ]
    BY <1>1, <1>4, NewsInput DEF News!Write
  <2>2. /\ fd \in Fds /\ it \in Sockets(Hosts) /\ it.wire \in Seq(Items)
        /\ it.session \in { "none", "A", "I" }
    BY <1>4 DEF Nets, Sockets, IsOpen
  <2>3. a.wire \in Seq(Items) /\ a.up \in BOOLEAN /\ a.session \in { "none", "A", "I" }
    BY <2>1, <2>2, NewsAnswersFit
  <2>4. it.wire \o a.wire \in Seq(Items)
    BY <2>2, <2>3, ConcatProperties
  <2> DEFINE x == next(a)
  <2>5. x \in Sockets(Hosts)
    BY <2>2, <2>3, <2>4 DEF Sockets
  <2>6. o.net = With(n, fd, x)
    BY <1>1, <2>1
  <2> HIDE DEF x
  <2>7. QED
    BY <2>2, <2>5, <2>6, SocketsSpare
<1>5. CASE IsOpen(n, fd) /\ it.peer # "listener" /\ ~ it.up
  <2>1. q \in [ sent : BOOLEAN, net : { n } ]
    BY <1>1, <1>5, NewsInput DEF News!Write
  <2>2. q.net = n
    BY <2>1
  <2>3. QED
    BY <1>2, <2>2
<1>6. QED
  BY <1>3, <1>4, <1>5

LEMMA NewsReplySpares ==
  ASSUME NEW n \in Nets(Hosts), NEW w \in NewsStates, NoListener(n, w.s),
         NEW r \in News!Response(n, w)
  PROVE  Spares(n, r.net) /\ NoListener(r.net, r.news.s)
<1>1. CASE w.lost
  <2>1. r.net = n /\ r.news = [ w EXCEPT !.lost = FALSE ]
    BY <1>1 DEF News!Response
  <2>2. r.news.s = w.s
    BY <2>1 DEF NewsStates
  <2>3. QED
    BY <2>1, <2>2 DEF Spares
<1>2. CASE ~ w.lost
  <2>1. PICK o \in HTGetChararcter(n) :
          r \in IF o.item = EOF
                THEN LET closed == News!Disconnected(o.net, w)
                     IN  { [ digit |-> -1, net |-> closed.net, news |-> closed.news ] }
                ELSE { [ digit |-> IF d = Notice THEN 4 ELSE d, net |-> o.net, news |-> w ]
                       : d \in NumbersOf(o.item) }
    BY <1>2, NewsInput DEF News!Response
  <2>2. o.net \in Nets(Hosts) /\ Spares(n, o.net) /\ NoListener(o.net, w.s)
    BY ReadsSpare
  <2>3. CASE o.item = EOF
    <3>1. r.net = Close(o.net, w.s) /\ r.news = [ w EXCEPT !.s = Null ]
      BY <2>1, <2>3, NewsInput DEF News!Disconnected
    <3>2. r.news.s = Null
      BY <3>1 DEF NewsStates
    <3>3. Spares(o.net, r.net)
      BY <2>2, <3>1, ClosesSpare
    <3>4. QED
      BY <2>2, <3>2, <3>3, SparesOn DEF NoListener
  <2>4. CASE o.item # EOF
    <3>1. r.net = o.net /\ r.news = w
      BY <2>1, <2>4
    <3>2. QED
      BY <2>2, <3>1
  <2>5. QED
    BY <2>3, <2>4
<1>3. QED
  BY <1>1, <1>2 DEF NewsStates

LEMMA NewsSparesNext ==
  ASSUME NEW n \in Nets(Hosts), NEW w \in NewsStates, Spares(net, n), NoListener(n, w.s)
  PROVE  /\ \A label : News!Goto(n, w, label) => Spares(net, net')
         /\ \A value, shown : News!Return(n, w, value, shown) => Spares(net, net')
         /\ \A cmd, label : News!Ask(n, w, cmd, label) => Spares(net, net')
         /\ News!NextArticle(n, w) => Spares(net, net')
<1>1. ASSUME NEW v \in NewsStates, v.s = w.s, NEW cmd, NEW label, News!Ask(n, v, cmd, label)
      PROVE  Spares(net, net')
  <2>1. PICK o \in News!Command(n, v, cmd) : News!Goto(o.net, o.news, label)
    BY <1>1 DEF News!Ask
  <2>2. Spares(n, o.net)
    BY <1>1, NewsCommandSpares
  <2>3. net' = o.net
    BY <2>1 DEF News!Goto
  <2>4. QED
    BY <2>2, <2>3, SparesOn
<1>2. \A label : News!Goto(n, w, label) => Spares(net, net')
  BY DEF News!Goto
<1>3. \A value, shown : News!Return(n, w, value, shown) => Spares(net, net')
  BY DEF News!Return
<1>4. ASSUME News!NextArticle(n, w)
      PROVE  Spares(net, net')
  <2> DEFINE v == [ w EXCEPT !.article = @ - 1 ]
  <2>1. CASE w.article = 0
    BY <1>3, <1>4, <2>1 DEF News!NextArticle
  <2>2. CASE w.article # 0
    <3>1. News!Ask(n, v, "HEAD", "news head reply")
      BY <1>4, <2>2 DEF News!NextArticle
    <3>2. w.article - 1 \in 0 .. MaxArticles
      BY <2>2, BoundAssumption DEF NewsStates
    <3>3. v \in NewsStates /\ v.s = w.s
      BY <3>2 DEF NewsStates
    <3> HIDE DEF v
    <3>4. QED
      BY <1>1, <3>1, <3>3
  <2>3. QED
    BY <2>1, <2>2
<1>5. QED
  BY <1>1, <1>2, <1>3, <1>4

(* The news connection is no listening socket. *)
LEMMA NewsIsNoListener ==
  ASSUME NEW n, NEW w \in NewsStates, NEW label, NEW kind, NewsHolds(n, w, label, kind)
  PROVE  NoListener(n, w.s)
<1>1. w.s # Null => w.s \in Fds /\ n.sockets[w.s].peer = NewsHost
  BY DEF NewsHolds, NewsDue, NewsStates
<1>2. NewsHost # "listener"
  BY HostAssumption DEF Hosts, Nobodies
<1>3. QED
  BY <1>1, <1>2 DEF NoListener

LEMMA NewsSpares ==
  ASSUME Inv, NewsNow, News!HTLoadNews
  PROVE  Spares(net, net')
<1>1. net \in Nets(Hosts) /\ news \in NewsStates
  BY NewsInput DEF Inv, TypeOK, News!NewsOK, NewsStates
<1>2. NoListener(net, news.s) /\ Spares(net, net)
  BY <1>1, NewsIsNoListener DEF NewsNow, Spares
<1>3. CASE News!Greeting \/ News!CommandReply \/ News!HeadReply
  <2>1. PICK r \in News!Response(net, news) :
          LET closed == News!Disconnected(r.net, r.news)
          IN  \/ News!Ask(r.net, r.news, News!Wanted, "news command")
              \/ News!Return(closed.net, closed.news, News!LoadError, FALSE)
              \/ News!Return(r.net, r.news, News!HT_LOADED, FALSE)
              \/ News!Goto(closed.net, [ closed.news EXCEPT !.retries = 1 ], "news try")
              \/ News!Return(closed.net, closed.news, News!HT_LOADED, FALSE)
              \/ News!Goto(r.net, r.news, "news body")
              \/ \E k \in 0 .. MaxArticles :
                   News!NextArticle(r.net, [ r.news EXCEPT !.article = k ])
              \/ News!Goto(r.net, r.news, "news head")
              \/ News!NextArticle(r.net, r.news)
    BY <1>3, Zenon DEF News!Greeting, News!CommandReply, News!HeadReply, News!OnReply
  <2>2. /\ r.net \in Nets(Hosts) /\ r.news \in NewsStates
        /\ Spares(net, r.net) /\ NoListener(r.net, r.news.s)
    BY <1>1, <1>2, NewsReplySteps, NewsReplySpares DEF NewsStep
  <2> DEFINE closed == News!Disconnected(r.net, r.news)
  <2>3. /\ closed.net \in Nets(Hosts) /\ Spares(net, closed.net)
    <3>1. closed.net = Close(r.net, r.news.s)
      BY NewsInput DEF News!Disconnected
    <3>2. QED
      BY <2>2, <3>1, CloseFits, ClosesSpare, SparesOn
  <2> HIDE DEF closed
  <2>4. CASE \/ News!Ask(r.net, r.news, News!Wanted, "news command")
             \/ News!Return(r.net, r.news, News!HT_LOADED, FALSE)
             \/ News!Goto(r.net, r.news, "news body")
             \/ News!Goto(r.net, r.news, "news head")
             \/ News!NextArticle(r.net, r.news)
    BY <2>2, <2>4, NewsSparesNext
  <2>5. CASE \/ News!Return(closed.net, closed.news, News!LoadError, FALSE)
             \/ News!Return(closed.net, closed.news, News!HT_LOADED, FALSE)
             \/ News!Goto(closed.net, [ closed.news EXCEPT !.retries = 1 ], "news try")
    BY <2>3, <2>5 DEF News!Return, News!Goto
  <2>6. CASE \E k \in 0 .. MaxArticles :
               News!NextArticle(r.net, [ r.news EXCEPT !.article = k ])
    <3>1. PICK k \in 0 .. MaxArticles :
            News!NextArticle(r.net, [ r.news EXCEPT !.article = k ])
      BY <2>6
    <3> DEFINE w == [ r.news EXCEPT !.article = k ]
    <3>2. w \in NewsStates /\ w.s = r.news.s
      BY <2>2 DEF NewsStates
    <3>3. News!NextArticle(r.net, w)
      BY <3>1
    <3> HIDE DEF w
    <3>4. QED
      BY <2>2, <3>2, <3>3, NewsSparesNext
  <2>7. QED
    BY <2>1, <2>4, <2>5, <2>6 DEF closed
<1>4. CASE News!Body \/ News!Head_
  <2>1. PICK o \in HTGetChararcter(net) :
          LET closed == News!Disconnected(o.net, news)
          IN  \/ News!Return(o.net, news, News!HT_LOADED, TRUE)
              \/ News!NextArticle(o.net, news)
              \/ News!Return(closed.net, closed.news, News!HT_LOADED, TRUE)
              \/ News!Goto(o.net, news, "news body") \/ News!Goto(o.net, news, "news head")
    BY <1>4, NewsInput, Zenon DEF News!Body, News!Head_, News!Line
  <2>2. o.net \in Nets(Hosts) /\ Spares(net, o.net) /\ NoListener(o.net, news.s)
    BY <1>1, <1>2, ReadsSpare
  <2> DEFINE closed == News!Disconnected(o.net, news)
  <2>3. Spares(net, closed.net)
    <3>1. closed.net = Close(o.net, news.s)
      BY NewsInput DEF News!Disconnected
    <3>2. QED
      BY <2>2, <3>1, ClosesSpare, SparesOn
  <2> HIDE DEF closed
  <2>4. CASE News!Return(closed.net, closed.news, News!HT_LOADED, TRUE)
    BY <2>3, <2>4 DEF News!Return
  <2>5. CASE \/ News!Return(o.net, news, News!HT_LOADED, TRUE)
             \/ News!NextArticle(o.net, news)
             \/ News!Goto(o.net, news, "news body") \/ News!Goto(o.net, news, "news head")
    BY <1>1, <2>2, <2>5, NewsSparesNext
  <2>6. QED
    BY <2>1, <2>4, <2>5 DEF closed
<1>5. CASE News!CannotInitialize \/ News!Initialize \/ News!CannotConnect
  <2>1. net' = net
    BY <1>5 DEF News!CannotInitialize, News!Initialize, News!CannotConnect, News!Return, News!Goto
  <2>2. QED
    BY <2>1 DEF Spares
<1>6. CASE News!Reuse
  BY <1>1, <1>2, <1>6, NewsSparesNext DEF News!Reuse
<1>7. CASE News!Connect
  <2> DEFINE fd == NewSocket(net)
             it(wire) == [ Socket(NewsHost, wire) EXCEPT !.up = wire # << >> ]
  <2>1. PICK wire \in { << 2 >>, << 5 >>, << >> } :
          net' = HTInitInput(With(net, fd, it(wire)), fd)
    BY <1>7, NewsInput DEF News!Connect, News!Goto
  <2>2. FreeSockets(net) # { }
    BY <1>7, NewsInput DEF News!Connect
  <2>3. fd \in Fds
    BY <1>1, <2>2, NewSocketFits
  <2>4. << 2 >> \in Seq(Items) /\ << 5 >> \in Seq(Items) /\ << >> \in Seq(Items)
    BY DEF Items
  <2> DEFINE up == wire # << >>
             x == [ Socket(NewsHost, wire) EXCEPT !.up = up ]
             m == With(net, fd, x)
  <2>5. up \in BOOLEAN
    OBVIOUS
  <2>6. Socket(NewsHost, wire) \in Sockets(Hosts)
    BY <2>4, SocketFits DEF Hosts
  <2>7. net' = HTInitInput(m, fd)
    BY <2>1
  <2> HIDE DEF up
  <2>8. x \in Sockets(Hosts)
    BY <2>5, <2>6 DEF Sockets, Socket
  <2> HIDE DEF x
  <2>9. m \in Nets(Hosts) /\ Spares(net, m)
    BY <1>1, <2>2, <2>3, <2>8, WithFits, NewOnesSpare
  <2> HIDE DEF m, fd
  <2>10. net'.sockets = m.sockets
    BY <2>3, <2>7, <2>9, InputFits
  <2>11. QED
    BY <2>9, <2>10 DEF Spares
<1>8. QED
  BY <1>3, <1>4, <1>5, <1>6, <1>7 DEF News!HTLoadNews

(* The loads a protocol's own connection is kept from, while the input is  *)
(* not shared.                                                             *)
FtpLoads    == FtpBusy \cup { "ftp", "file" }
NewsLoads   == NewsBusy \cup { "news" }
GopherLoads == GopherBusy \cup { "gopher" }

KeptSocket(fd) ==
  \/ ftp.connections # << >> /\ fd = ControlSocket(ftp)
  \/ news.s # Null /\ fd = news.s

(* Only one protocol keeps a connection, and no other that reads through   *)
(* the shared input is loading; the HTTP and the Gopher connection are     *)
(* neither kept ones nor the master socket.                                *)
Apart ==
  /\ news.s # Null =>
       /\ ftp.connections = << >> /\ pc \notin FtpLoads \cup GopherLoads
       /\ pc = "load" => request.access \notin { "ftp", "file", "gopher" }
  /\ ftp.connections # << >> =>
       /\ pc \notin NewsLoads \cup GopherLoads
       /\ pc = "load" => request.access \notin { "news", "gopher" }
  /\ NoListener(net, http.s) /\ (http.s # Null => ~ KeptSocket(http.s))
  /\ NoListener(net, gopher.s)

LEMMA NewsCalmHolds ==
  ASSUME NEW n \in Nets(Hosts), NEW w \in NewsStates, NEW label, NEW kind,
         NewsHolds(n, w, label, kind), NewsCalm(label), NEW m,
         w.s # Null => /\ m.sockets[w.s] = n.sockets[w.s] /\ m.fd = n.fd
                       /\ n.buffer = << >> => m.buffer = << >>,
         NEW next, NEW k
  PROVE  NewsHolds(m, w, next, k)
<1>1. label \notin { "news command", "news head reply" } /\ NewsReplies(label, kind) = { }
  BY NewsCalmReplies DEF NewsCalm, NewsBusy
<1>2. NewsDue(n, w, { << >> })
  BY <1>1 DEF NewsHolds
<1>3. CASE w.s = Null
  BY <1>2, <1>3 DEF NewsHolds, NewsDue
<1>4. CASE w.s # Null
  <2>1. /\ IsOpen(n, w.s) /\ n.fd = w.s /\ n.sockets[w.s].peer = NewsHost
        /\ Pending(n, w.s) = << >> /\ w.s \in Fds
    BY <1>2, <1>4 DEF NewsDue, IsOpen
  <2>2. n.buffer = << >> /\ m.buffer = << >>
    BY <1>4, <2>1, DueOf
  <2>3. Pending(m, w.s) = << >>
    BY <1>4, <2>1, <2>2 DEF Pending
  <2>4. IsOpen(m, w.s)
    BY <1>4, <2>1 DEF IsOpen
  <2>5. QED
    BY <1>2, <1>4, <2>1, <2>3, <2>4 DEF NewsHolds, NewsDue
<1>5. QED
  BY <1>3, <1>4

(* While neither protocol is loading, what leaves the kept connections     *)
(* alone keeps them.                                                       *)
LEMMA OthersHold ==
  ASSUME Inv, FtpNow, NewsNow, Calm(pc), NewsCalm(pc), Calm(pc'), pc' # "listen",
         ftp'.connections = ftp.connections, ftp'.control = ftp.control, ftp'.cons = ftp.cons,
         ftp'.master_socket = ftp.master_socket, news' = news, Spares(net, net'),
         \A fd : KeptSocket(fd) =>
           /\ net'.sockets[fd] = net.sockets[fd] /\ net'.fd = net.fd
           /\ net.buffer = << >> => net'.buffer = << >>
  PROVE  FtpNow' /\ NewsNow'
<1>1. /\ net \in Nets(Hosts) /\ news \in NewsStates /\ ftp \in Ftps
  <2>1. net \in Nets(Hosts) /\ ftp \in Ftps
    BY DEF Inv, TypeOK, FtpFits
  <2>2. news \in NewsStates
    BY NewsInput DEF Inv, TypeOK, News!NewsOK, NewsStates
  <2>3. QED
    BY <2>1, <2>2
<1>2. ftp.master_socket # Null => net'.sockets[ftp.master_socket].peer = "listener"
  BY <1>1 DEF FtpNow, FtpHolds, Holds, Spares, Ftps
<1>3. ftp.connections # << >> => KeptSocket(ControlSocket(ftp))
  BY DEF KeptSocket
<1>4. FtpHolds(net', ftp', pc', request'.binary)
  <2>1. FtpHolds(net, ftp, pc, request.binary)
    BY DEF FtpNow
  <2>2. ftp.connections # << >> =>
          /\ net'.sockets[ControlSocket(ftp)] = net.sockets[ControlSocket(ftp)]
          /\ net'.fd = net.fd /\ (net.buffer = << >> => net'.buffer = << >>)
    BY <1>3
  <2>3. ftp'.master_socket # Null => net'.sockets[ftp'.master_socket].peer = "listener"
    BY <1>2
  <2>4. QED
    BY <2>1, <2>2, <2>3, CalmHolds, Zenon
<1>5. news.s # Null => KeptSocket(news.s)
  BY DEF KeptSocket
<1>6. NewsHolds(net', news, pc', request'.kind)
  BY <1>1, <1>5, NewsCalmHolds DEF NewsNow
<1>7. QED
  BY <1>4, <1>6 DEF FtpNow, NewsNow

LEMMA FtpLabelsAll ==
  ASSUME FTP!HTFTPLoad
  PROVE  pc \in FtpBusy \cup { "ftp" } /\ pc' \in FtpBusy \cup { "ftp", "return" }
<1>1. CASE FTP!get_connection
  <2>1. pc \in { "ftp", "greeting", "user", "pass", "acct" }
    BY <1>1 DEF FTP!get_connection, FTP!HostUnknown, FTP!AlreadyConnected, FTP!CannotConnect,
       FTP!Connect, FTP!Greeting, FTP!LoginReply, FTP!OnReply
  <2>2. pc' \in { "greeting", "user", "pass", "acct", "listen", "return" }
    BY <1>1, Zenon DEF FTP!get_connection, FTP!HostUnknown, FTP!AlreadyConnected,
       FTP!CannotConnect, FTP!Connect, FTP!Greeting, FTP!LoginReply, FTP!OnReply, FTP!Goto,
       FTP!Return, FTP!Ask, FTP!LoginFailed
  <2>3. QED
    BY <2>1, <2>2 DEF FtpBusy, FtpAsks
<1>2. CASE \/ FTP!get_listen_socket \/ FTP!NoListenSocket \/ FTP!AcceptFails
           \/ FTP!TransferFile \/ FTP!read_directory
  <2>1. pc \in { "listen", "accept file", "accept directory" }
    BY <1>2 DEF FTP!get_listen_socket, FTP!NoListenSocket, FTP!AcceptFails, FTP!TransferFile,
       FTP!read_directory
  <2>2. pc' \in { "port", "return", "final file", "final directory" }
    BY <1>2, Zenon DEF FTP!get_listen_socket, FTP!NoListenSocket, FTP!AcceptFails,
       FTP!TransferFile, FTP!read_directory, FTP!Goto, FTP!Return, FTP!Ask, FTP!Transferred
  <2>3. QED
    BY <2>1, <2>2 DEF FtpBusy, FtpAsks
<1>3. CASE \/ FTP!PortReply \/ FTP!TypeReply \/ FTP!RetrReply \/ FTP!CwdReply
           \/ FTP!NlstReply \/ FTP!FinalReply
  <2>1. pc \in { "port", "type", "retr", "cwd", "nlst", "final file", "final directory" }
    BY <1>3 DEF FTP!PortReply, FTP!TypeReply, FTP!RetrReply, FTP!CwdReply, FTP!NlstReply,
       FTP!FinalReply, FTP!OnReply
  <2>2. pc' \in { "ftp", "type", "retr", "cwd", "nlst", "accept file", "accept directory",
                  "return" }
    BY <1>3, Zenon DEF FTP!PortReply, FTP!TypeReply, FTP!RetrReply, FTP!CwdReply,
       FTP!NlstReply, FTP!FinalReply, FTP!OnReply, FTP!Goto, FTP!Return, FTP!Ask, FTP!RequestFile
  <2>3. QED
    BY <2>1, <2>2 DEF FtpBusy, FtpAsks
<1>4. QED
  BY <1>1, <1>2, <1>3 DEF FTP!HTFTPLoad

LEMMA QuietSockets ==
  ASSUME Inv
  PROVE  /\ pc \notin HttpBusy => http.s = Null
         /\ pc \notin GopherBusy => gopher.s = Null
         /\ http.s \in Fds \cup { Null } /\ gopher.s \in Fds \cup { Null }
BY WebInput, GopherInput DEF Inv, TypeOK, Web!HttpOK, Gopher!GopherOK

LEMMA FtpKeepsApart ==
  ASSUME OneHost, Inv, Again(ftp, pc), FtpNow, NewsNow, Apart, FTP!HTFTPLoad,
         UNCHANGED << news, http, gopher >>
  PROVE  FtpNow' /\ NewsNow' /\ Apart'
<1>1. pc \in FtpBusy \cup { "ftp" } /\ pc' \in FtpBusy \cup { "ftp", "return" }
  BY FtpLabelsAll
<1>2. news.s = Null /\ http.s = Null /\ gopher.s = Null
  BY <1>1, QuietSockets DEF Apart, FtpLoads, FtpBusy, FtpAsks, HttpBusy, GopherBusy
<1>3. ~ news.lost
  BY <1>1 DEF NewsNow, NewsHolds, NewsDue, FtpBusy, FtpAsks
<1>4. NewsNow'
  BY <1>2, <1>3 DEF NewsNow, NewsHolds, NewsDue
<1>5. pc' \notin NewsLoads \cup GopherLoads /\ pc' # "load"
  BY <1>1 DEF NewsLoads, NewsBusy, GopherLoads, GopherBusy, FtpBusy, FtpAsks
<1>6. Apart'
  BY <1>2, <1>5 DEF Apart, NoListener
<1>7. QED
  BY <1>4, <1>6, FtpKeepsNow

LEMMA NewsKeepsApart ==
  ASSUME Inv, FtpNow, NewsNow, Apart, News!HTLoadNews, UNCHANGED << ftp, http, gopher >>
  PROVE  FtpNow' /\ NewsNow' /\ Apart'
<1>1. pc \in NewsBusy \cup { "news" } /\ pc' \in NewsBusy \cup { "return" }
  BY NewsLabels
<1>2. ftp.connections = << >> /\ http.s = Null /\ gopher.s = Null
  BY <1>1, QuietSockets DEF Apart, NewsLoads, NewsBusy, HttpBusy, GopherBusy
<1>3. Calm(pc) /\ Calm(pc') /\ pc' # "listen" /\ pc' \notin FtpLoads \cup GopherLoads
      /\ pc' # "load"
  BY <1>1 DEF Calm, NewsBusy, FtpLoads, FtpBusy, FtpAsks, GopherLoads, GopherBusy
<1>4. ftp.master_socket # Null => net'.sockets[ftp.master_socket].peer = "listener"
  BY NewsSpares DEF FtpNow, FtpHolds, Holds, Spares, Inv, FtpFits, Ftps
<1>5. FtpHolds(net', ftp, pc', request'.binary)
  BY <1>2, <1>3, <1>4, CalmHolds DEF FtpNow
<1>6. Apart'
  BY <1>2, <1>3 DEF Apart, NoListener
<1>7. QED
  BY <1>5, <1>6, NewsKeepsNow DEF FtpNow

(* Where none of the protocol modules is. *)
LEMMA QuietLabels ==
  ASSUME NEW label \in { "idle", "load", "return", "exit", "null text", "telnet", "http", "file",
                         "http send", "http reply", "double free", "ftp", "news", "gopher" }
  PROVE  /\ Calm(label) /\ NewsCalm(label) /\ label # "listen"
         /\ label \notin NewsBusy /\ label \notin FtpBusy /\ label \notin GopherBusy
         /\ label \in FtpLoads => label \in { "ftp", "file" }
         /\ label \in NewsLoads => label = "news"
         /\ label \in GopherLoads => label = "gopher"
BY DEF Calm, NewsCalm, FtpBusy, FtpAsks, NewsBusy, GopherBusy, FtpLoads, NewsLoads, GopherLoads

LEMMA DispatchKeepsApart ==
  ASSUME ~ Mixed, Inv, FtpNow, NewsNow, Apart,
         Load \/ AlreadyLoaded \/ Forbidden \/ NoProtocol \/ CallProtocol \/ Finish
  PROVE  FtpNow' /\ NewsNow' /\ Apart'
<1>1. pc \in { "idle", "load", "return" }
  BY DEF Load, AlreadyLoaded, Forbidden, NoProtocol, CallProtocol, Finish
<1>2. http.s = Null /\ gopher.s = Null
  BY <1>1, QuietSockets DEF HttpBusy, GopherBusy
<1>3. /\ net' = net /\ news' = news /\ gopher' = gopher /\ http'.s = Null
      /\ ftp'.connections = ftp.connections /\ ftp'.control = ftp.control /\ ftp'.cons = ftp.cons
      /\ ftp'.master_socket = ftp.master_socket
  <2>1. net' = net /\ news' = news /\ gopher' = gopher
        /\ (ftp' = ftp \/ ftp' = FTP!FtpCalled(ftp))
        /\ (http' = http \/ http' = Web!HttpCalled(http))
    BY DEF Load, AlreadyLoaded, Forbidden, NoProtocol, CallProtocol, Finish
  <2>2. ftp \in Ftps /\ http \in WebStates
    BY WebInput DEF Inv, FtpFits, TypeOK, Web!HttpOK, WebStates
  <2>3. Web!HttpCalled(http).s = http.s
    BY <2>2 DEF Web!HttpCalled, WebStates
  <2>4. QED
    BY <1>2, <2>1, <2>2, <2>3, CalledFits
<1>4. pc' \in { "idle", "load", "return", "exit", "null text", "telnet", "http", "file",
                "news", "gopher" }
  BY DEF Load, AlreadyLoaded, Forbidden, NoProtocol, CallProtocol, Finish, LoadRoutine, Protocols
<1>5. Spares(net, net')
  BY <1>3 DEF Spares
<1>6. FtpNow' /\ NewsNow'
  BY <1>1, <1>3, <1>4, <1>5, QuietLabels, OthersHold
<1>7. news.s # Null => ftp'.connections = << >>
  BY <1>3 DEF Apart
<1>8. /\ news.s # Null => /\ pc' \notin FtpLoads \cup GopherLoads
                          /\ pc' = "load" => request'.access \notin { "ftp", "file", "gopher" }
      /\ ftp.connections # << >> => /\ pc' \notin NewsLoads \cup GopherLoads
                                    /\ pc' = "load" => request'.access \notin { "news", "gopher" }
  <2>1. CASE Load
    <3>1. PICK r \in Requests : WithinBounds(r) /\ request'.access = r.access
      BY <2>1 DEF Load
    <3>2. pc' = "load"
      BY <2>1 DEF Load
    <3>3. KeepsNews => r.access \notin { "ftp", "file", "gopher" }
      BY <3>1 DEF WithinBounds
    <3>4. KeepsFtp => r.access \notin { "news", "gopher" }
      BY <3>1 DEF WithinBounds
    <3>5. ftp.connections # << >> => KeepsFtp
      <4>1. SUFFICES ASSUME ftp.connections # << >>
                     PROVE  Range(ftp.connections) # { }
        BY DEF KeepsFtp
      <4>2. ftp.connections \in Seq(ConnectionIds)
        BY DEF Inv, FtpFits, Ftps
      <4>3. 1 \in DOMAIN ftp.connections
        BY <4>1, <4>2
      <4>4. ftp.connections[1] \in Range(ftp.connections)
        BY <4>3 DEF Range
      <4>5. QED
        BY <4>4
    <3>6. QED
      BY <3>1, <3>2, <3>3, <3>4, <3>5, QuietLabels DEF KeepsNews
  <2>2. CASE CallProtocol
    <3>1. pc = "load" /\ pc' = LoadRoutine(Access) /\ Access \in Protocols
      BY <2>2 DEF CallProtocol
    <3>2. Access = request.access \/ Access = "http"
      BY DEF Access
    <3>3. /\ pc' = "file" => Access \in { "ftp", "file" }
          /\ pc' = "news" => Access = "news"
          /\ pc' = "gopher" => Access = "gopher"
          /\ pc' \notin { "load", "ftp" }
      BY <3>1 DEF LoadRoutine, Protocols
    <3>4. QED
      BY <1>4, <3>1, <3>2, <3>3, QuietLabels DEF Apart
  <2>3. CASE AlreadyLoaded \/ Forbidden \/ NoProtocol \/ Finish
    <3>1. pc' \in { "return", "exit", "null text", "idle" }
      BY <2>3 DEF AlreadyLoaded, Forbidden, NoProtocol, Finish
    <3>2. QED
      BY <3>1, QuietLabels
  <2>4. QED
    BY <2>1, <2>2, <2>3
<1>9. QED
  BY <1>2, <1>3, <1>6, <1>7, <1>8 DEF Apart, NoListener

(* A kept connection is open, and what the input reads. *)
LEMMA KeptIsOpen ==
  ASSUME Inv, FtpNow, NewsNow, NewsCalm(pc), NEW fd, KeptSocket(fd)
  PROVE  fd \in Fds /\ IsOpen(net, fd) /\ net.fd = fd
<1>1. CASE ftp.connections # << >> /\ fd = ControlSocket(ftp)
  BY <1>1 DEF FtpNow, FtpHolds, Holds, IsOpen
<1>2. CASE news.s # Null /\ fd = news.s
  <2>1. pc \notin { "news command", "news head reply" }
    BY DEF NewsCalm, NewsBusy
  <2>2. QED
    BY <1>2, <2>1 DEF NewsNow, NewsHolds, NewsDue, IsOpen
<1>3. QED
  BY <1>1, <1>2 DEF KeptSocket

(* Bytes that are copied through the buffer's memory spoil only what has   *)
(* not been read.                                                          *)
LEMMA NothingSpoiled ==
  ASSUME NEW n \in Nets(Hosts), n.buffer = << >>
  PROVE  Overwritten(n).buffer = << >>
<1>1. Overwritten(n).buffer = [ i \in DOMAIN n.buffer |-> Garbage ]
  BY OverwrittenFits
<1>2. Overwritten(n) \in Nets(Hosts)
  BY OverwrittenFits
<1> DEFINE s == Overwritten(n).buffer
<1>3. s \in Seq(Items) /\ DOMAIN s = { }
  BY <1>1, <1>2 DEF Nets
<1> HIDE DEF s
<1>4. Len(s) = 0
  BY <1>3
<1>5. s = << >>
  BY <1>3, <1>4
<1>6. QED
  BY <1>5 DEF s

LEMMA WebChanges ==
  ASSUME Inv, FtpNow, NewsNow, Apart, UNCHANGED << ftp, news, gopher >>,
         pc \in { "http", "http send", "http reply" }, pc' \in HttpBusy \cup { "http", "return" },
         NEW n, net' = n, Spares(net, n), NoListener(n, http'.s),
         http'.s # Null => ~ KeptSocket(http'.s),
         \A fd : KeptSocket(fd) => /\ n.sockets[fd] = net.sockets[fd] /\ n.fd = net.fd
                                   /\ net.buffer = << >> => n.buffer = << >>
  PROVE  FtpNow' /\ NewsNow' /\ Apart'
<1>1. pc' \in { "http", "http send", "http reply", "double free", "return" }
  BY DEF HttpBusy
<1>2. /\ Calm(pc) /\ NewsCalm(pc) /\ Calm(pc') /\ pc' # "listen" /\ pc' # "load"
      /\ pc' \notin FtpLoads \cup NewsLoads \cup GopherLoads
  BY <1>1, QuietLabels
<1>3. FtpNow' /\ NewsNow'
  BY <1>2, OthersHold
<1>4. gopher.s = Null
  BY QuietSockets DEF GopherBusy
<1>5. http'.s # Null => /\ ~ (ftp'.connections # << >> /\ http'.s = ControlSocket(ftp'))
                        /\ ~ (news'.s # Null /\ http'.s = news'.s)
  BY DEF KeptSocket
<1>6. NoListener(net', http'.s) /\ NoListener(net', gopher'.s)
  BY <1>4 DEF NoListener
<1>7. ftp' = ftp /\ news' = news
  OBVIOUS
<1>8. Apart'
  BY <1>2, <1>5, <1>6, <1>7 DEF Apart, KeptSocket
<1>9. QED
  BY <1>3, <1>8

LEMMA WebKeepsApart ==
  ASSUME Inv, FtpNow, NewsNow, Apart, Web!HTLoadHTTP, UNCHANGED << ftp, news, gopher >>
  PROVE  FtpNow' /\ NewsNow' /\ Apart'
<1> DEFINE fd == NewSocket(net)
           it == Socket(request.host, << >>)
           open == With(net, fd, it)
           closed == Close(net, http.s)
<1>1. net \in Nets(Hosts) /\ http \in WebStates
  BY WebInput DEF Inv, TypeOK, Web!HttpOK, WebStates
<1>2. /\ pc \in { "http", "http send", "http reply" } /\ pc' \in HttpBusy \cup { "http", "return" }
      /\ request.host \in Hosts
  BY WebLabels DEF Inv, RequestFits, Stopped
<1>3. it \in Sockets(Hosts) /\ it.peer = request.host /\ it.peer # "listener"
  <2>1. << >> \in Seq(Items)
    OBVIOUS
  <2>2. request.host # "listener"
    BY <1>2, HostAssumption DEF Nobodies
  <2>3. QED
    BY <1>2, <2>1, <2>2, SocketFits DEF Socket
<1>4. NoListener(net, http.s) /\ (http.s # Null => ~ KeptSocket(http.s))
  BY DEF Apart
<1>5. \A g : KeptSocket(g) => g \in Fds /\ IsOpen(net, g)
  BY <1>2, KeptIsOpen, QuietLabels
<1> HIDE DEF it
<1>6. ASSUME FreeSockets(net) # { }
      PROVE  /\ fd \in Fds /\ Spares(net, open) /\ NoListener(open, fd) /\ ~ KeptSocket(fd)
             /\ open.fd = net.fd /\ open.buffer = net.buffer
             /\ \A g : KeptSocket(g) => open.sockets[g] = net.sockets[g]
  <2>1. fd \in Fds /\ ~ IsOpen(net, fd)
    BY <1>1, <1>6, NewSocketFits
  <2>2. Spares(net, open)
    BY <1>1, <1>3, <1>6, NewOnesSpare
  <2> HIDE DEF fd
  <2>3. /\ open.sockets[fd] = it /\ open.fd = net.fd /\ open.buffer = net.buffer
        /\ \A g \in Fds : g # fd => open.sockets[g] = net.sockets[g]
    BY <1>1, <1>3, <2>1, WithFits
  <2> HIDE DEF open
  <2>4. QED
    BY <1>3, <1>5, <2>1, <2>2, <2>3 DEF NoListener
<1>7. /\ closed \in Nets(Hosts) /\ Spares(net, closed)
      /\ closed.fd = net.fd /\ closed.buffer = net.buffer
      /\ \A g : KeptSocket(g) => closed.sockets[g] = net.sockets[g]
  <2>1. closed \in Nets(Hosts) /\ Spares(net, closed)
    BY <1>1, <1>4, CloseFits, ClosesSpare
  <2>2. /\ closed.fd = net.fd /\ closed.buffer = net.buffer
        /\ \A g \in Fds : closed.sockets[g] = IF g = http.s THEN Unused ELSE net.sockets[g]
    BY <1>1, CloseFits
  <2> HIDE DEF closed
  <2>3. QED
    BY <1>4, <1>5, <2>1, <2>2, NullIsNoSocket
<1>8. Spares(net, net) /\ NoListener(net, Null) /\ NoListener(closed, Null)
  BY DEF Spares, NoListener
<1> HIDE DEF fd, open, closed
<1>9. ASSUME NEW n, NEW value, NEW shown, Web!Return(n, value, shown), Spares(net, n),
             \A g : KeptSocket(g) => /\ n.sockets[g] = net.sockets[g] /\ n.fd = net.fd
                                     /\ net.buffer = << >> => n.buffer = << >>
      PROVE  FtpNow' /\ NewsNow' /\ Apart'
  <2>1. net' = n /\ http' = [ http EXCEPT !.s = Null ]
    BY <1>9, WebInput DEF Web!Return
  <2>2. http'.s = Null
    BY <1>1, <2>1 DEF WebStates
  <2>3. NoListener(n, http'.s)
    BY <2>2 DEF NoListener
  <2>4. QED
    BY <1>2, <1>9, <2>1, <2>2, <2>3, WebChanges
<1>10. CASE Web!CannotConnect
  <2>1. \/ Web!Return(net, -1, FALSE)
        \/ FreeSockets(net) # { } /\ Web!Return(open, -1, FALSE)
    BY <1>10, WebInput DEF Web!CannotConnect, fd, open, it
  <2>2. QED
    BY <1>6, <1>8, <1>9, <2>1
<1>11. CASE Web!Connect
  <2>1. /\ FreeSockets(net) # { } /\ net' = open /\ http' = [ http EXCEPT !.s = fd ]
    BY <1>11, WebInput DEF Web!Connect, Web!Goto, fd, open, it
  <2>2. http'.s = fd
    BY <1>1, <2>1 DEF WebStates
  <2>3. QED
    BY <1>2, <1>6, <2>1, <2>2, WebChanges
<1>12. CASE Web!CannotSend
  BY <1>8, <1>9, <1>12 DEF Web!CannotSend
<1>13. CASE Web!Send \/ Web!NoConverter
  <2>1. net' = net /\ http' = http
    BY <1>13 DEF Web!Send, Web!NoConverter, Web!Goto
  <2>2. QED
    BY <1>2, <1>4, <1>8, <2>1, WebChanges
<1>14. CASE Web!ReadError \/ Web!BadStatus
  <2>1. \E value : Web!Return(closed, value, FALSE)
    BY <1>14, WebInput DEF Web!ReadError, Web!BadStatus, closed
  <2>2. QED
    BY <1>7, <1>9, <2>1
<1>15. CASE Web!Retry
  <2>1. net' = closed /\ http'.s = Null
    BY <1>15, WebInput DEF Web!Retry, Web!Goto, closed
  <2>2. QED
    BY <1>2, <1>7, <1>8, <2>1, WebChanges
<1>16. CASE Web!Copy
  <2> DEFINE m == Overwritten(closed)
  <2>1. PICK shown \in BOOLEAN : Web!Return(m, Web!HT_LOADED, shown)
    BY <1>16, WebInput DEF Web!Copy, closed
  <2>2. m.sockets = closed.sockets /\ m.fd = closed.fd
    BY <1>7, OverwrittenFits
  <2>3. closed.buffer = << >> => m.buffer = << >>
    BY <1>7, NothingSpoiled
  <2> HIDE DEF m
  <2>4. Spares(net, m)
    BY <1>7, <2>2 DEF Spares
  <2>5. \A g : KeptSocket(g) => /\ m.sockets[g] = net.sockets[g] /\ m.fd = net.fd
                                /\ net.buffer = << >> => m.buffer = << >>
    BY <1>7, <2>2, <2>3
  <2>6. QED
    BY <1>9, <2>1, <2>4, <2>5
<1>17. QED
  BY <1>10, <1>11, <1>12, <1>13, <1>14, <1>15, <1>16 DEF Web!HTLoadHTTP, Web!Answer

(* While nothing is kept, what spares the master socket keeps the rest.    *)
LEMMA NoneKeptHold ==
  ASSUME Inv, FtpNow, NewsNow, Apart, Calm(pc), NewsCalm(pc), Calm(pc'), pc' # "listen",
         pc' # "load", pc' \notin NewsLoads, UNCHANGED << ftp, news, http >>,
         pc \notin HttpBusy,
         news.s = Null, ftp.connections # << >> => pc' \notin GopherLoads,
         \A fd : KeptSocket(fd) =>
           /\ net'.sockets[fd] = net.sockets[fd] /\ net'.fd = net.fd
           /\ net.buffer = << >> => net'.buffer = << >>,
         Spares(net, net'), NoListener(net', gopher'.s)
  PROVE  FtpNow' /\ NewsNow' /\ Apart'
<1>1. FtpNow' /\ NewsNow'
  BY OthersHold
<1>2. http'.s = Null /\ news'.s = Null /\ ftp'.connections = ftp.connections
  BY QuietSockets
<1>3. Apart'
  BY <1>2 DEF Apart, NoListener
<1>4. QED
  BY <1>1, <1>3

LEMMA GopherKeepsApart ==
  ASSUME Inv, FtpNow, NewsNow, Apart, Gopher!HTLoadGopher, UNCHANGED << ftp, news, http >>
  PROVE  FtpNow' /\ NewsNow' /\ Apart'
<1> DEFINE fd == NewSocket(net)
           it(page) == Socket(request.host, page)
<1>1. net \in Nets(Hosts) /\ gopher \in GopherStates
  BY GopherInput DEF Inv, TypeOK, Gopher!GopherOK, GopherStates
<1>2. /\ pc \in { "gopher", "gopher send", "gopher menu", "gopher cso", "gopher file" }
      /\ pc' \in GopherBusy \cup { "return" } /\ request.host \in Hosts
  BY GopherLabels DEF Inv, RequestFits, Stopped
<1>3. /\ Calm(pc) /\ NewsCalm(pc) /\ Calm(pc') /\ pc' # "listen" /\ pc' # "load"
      /\ pc' \notin NewsLoads /\ pc \notin HttpBusy /\ pc \in GopherLoads
  BY <1>2 DEF Calm, NewsCalm, FtpBusy, FtpAsks, NewsBusy, GopherBusy, NewsLoads, HttpBusy,
              GopherLoads
<1>4. news.s = Null /\ ftp.connections = << >>
  BY <1>3 DEF Apart
<1>5. \A g : ~ KeptSocket(g)
  BY <1>4 DEF KeptSocket
<1>6. NoListener(net, gopher.s) /\ Spares(net, net)
  BY DEF Apart, Spares
<1>7. ASSUME Spares(net, net'), NoListener(net', gopher'.s)
      PROVE  FtpNow' /\ NewsNow' /\ Apart'
  BY <1>3, <1>4, <1>5, <1>7, NoneKeptHold
<1>8. ASSUME NEW page \in Seq(Items)
      PROVE  /\ it(page) \in Sockets(Hosts) /\ it(page).peer # "listener"
             /\ [ it(page) EXCEPT !.up = FALSE ] \in Sockets(Hosts)
             /\ [ it(page) EXCEPT !.up = FALSE ].peer # "listener"
  <2>1. request.host # "listener"
    BY <1>2, HostAssumption DEF Nobodies
  <2>2. QED
    BY <1>2, <2>1, SocketFits DEF Socket
<1>9. << >> \in Seq(Items)
  OBVIOUS
<1>10. ASSUME NEW n, NEW value, NEW shown, Gopher!Return(n, value, shown), Spares(net, n)
       PROVE  FtpNow' /\ NewsNow' /\ Apart'
  <2>1. net' = n /\ gopher'.s = Null
    BY <1>10, GopherInput DEF Gopher!Return, Gopher!InitialGopher
  <2>2. QED
    BY <1>7, <1>10, <2>1 DEF NoListener
<1>11. ASSUME NEW n \in Nets(Hosts), Spares(net, n), NoListener(n, gopher.s)
       PROVE  Spares(net, Close(n, gopher.s))
  BY <1>11, ClosesSpare, SparesOn
<1> HIDE DEF fd
<1>12. CASE Gopher!CoverPage \/ Gopher!CannotConnect \/ Gopher!CannotSend
  <2> DEFINE x == it(<< >>)
  <2>1. \/ \E value, shown : Gopher!Return(net, value, shown)
        \/ FreeSockets(net) # { } /\ Gopher!Return(With(net, fd, x), -1, FALSE)
    BY <1>12, GopherInput DEF Gopher!CoverPage, Gopher!CannotConnect, Gopher!CannotSend, fd
  <2>2. x \in Sockets(Hosts)
    BY <1>8, <1>9
  <2> HIDE DEF x
  <2>3. FreeSockets(net) # { } => Spares(net, With(net, fd, x))
    BY <1>1, <2>2, NewOnesSpare DEF fd
  <2>4. QED
    BY <1>6, <1>10, <2>1, <2>3
<1>13. CASE Gopher!Connect
  <2> DEFINE x == it(<< >>)
             m == With(net, fd, x)
  <2>1. /\ FreeSockets(net) # { } /\ net' = HTInitInput(m, fd)
        /\ gopher' = [ gopher EXCEPT !.s = fd ]
    BY <1>13, GopherInput DEF Gopher!Connect, Gopher!Goto, fd
  <2>2. x \in Sockets(Hosts) /\ x.peer # "listener"
    BY <1>8, <1>9
  <2>3. fd \in Fds
    BY <1>1, <2>1, NewSocketFits DEF fd
  <2> HIDE DEF x
  <2>4. Spares(net, m)
    BY <1>1, <2>1, <2>2, NewOnesSpare DEF fd
  <2>5. m \in Nets(Hosts) /\ m.sockets[fd] = x
    BY <1>1, <2>2, <2>3, WithFits
  <2> HIDE DEF m
  <2>6. net'.sockets = m.sockets
    BY <2>1, <2>3, <2>5, InputFits
  <2>7. gopher'.s = fd
    BY <1>1, <2>1, <2>3 DEF GopherStates
  <2>8. Spares(net, net') /\ NoListener(net', gopher'.s)
    BY <2>2, <2>3, <2>4, <2>5, <2>6, <2>7 DEF Spares, NoListener
  <2>9. QED
    BY <1>7, <2>8
<1>14. CASE Gopher!Send
  <2>1. PICK page \in Gopher!Pages :
          /\ net' = With(net, gopher.s, [ it(page) EXCEPT !.up = FALSE ])
          /\ gopher' = gopher
    BY <1>14, GopherInput DEF Gopher!Send, Gopher!Goto
  <2> DEFINE x == [ it(page) EXCEPT !.up = FALSE ]
  <2>2. x \in Sockets(Hosts) /\ x.peer # "listener"
    BY <1>8, <2>1, PagesFit
  <2>3. gopher.s \in Fds
    <3>1. pc = "gopher send"
      BY <1>14 DEF Gopher!Send
    <3>2. QED
      BY <3>1, QuietSockets DEF Inv, GopherBusy
  <2>4. net' = With(net, gopher.s, x)
    BY <2>1
  <2> HIDE DEF x
  <2>5. Spares(net, net')
    BY <1>1, <1>6, <2>2, <2>3, <2>4, SocketsSpare
  <2>6. net'.sockets[gopher.s] = x
    BY <1>1, <2>2, <2>3, <2>4, WithFits
  <2>7. QED
    BY <1>7, <2>1, <2>2, <2>3, <2>5, <2>6 DEF NoListener
<1>15. CASE Gopher!parse_menu \/ Gopher!parse_cso
  <2>1. PICK o \in HTGetChararcter(net) :
          \/ Gopher!Done(o.net)
          \/ \E line \in Gopher!MenuLines : Gopher!MenuLine(o.net, line)
          \/ Gopher!Goto(o.net, gopher, "gopher cso")
          \/ Gopher!NullPointer
    BY <1>15, GopherInput, Zenon DEF Gopher!parse_menu, Gopher!parse_cso
  <2>2. o.net \in Nets(Hosts) /\ Spares(net, o.net) /\ NoListener(o.net, gopher.s)
    BY <1>1, <1>6, ReadsSpare
  <2>3. CASE Gopher!Done(o.net)
    <3>1. \E value, shown : Gopher!Return(Close(o.net, gopher.s), value, shown)
      BY <2>3, GopherInput DEF Gopher!Done
    <3>2. QED
      BY <1>10, <1>11, <2>2, <3>1
  <2>4. CASE \E line \in Gopher!MenuLines : Gopher!MenuLine(o.net, line)
    <3>1. PICK line \in Gopher!MenuLines : Gopher!MenuLine(o.net, line)
      BY <2>4
    <3> DEFINE g == Gopher!Parsed(gopher, line)
    <3>2. \/ net' = net /\ gopher' = gopher
          \/ net' = o.net /\ gopher' = Gopher!Written(g, line)
      BY <3>1, Zenon DEF Gopher!MenuLine, Gopher!NullPointer, Gopher!Goto
    <3>3. Gopher!Written(g, line).s = gopher.s
      BY <1>1 DEF Gopher!Written, Gopher!Parsed, GopherStates
    <3> HIDE DEF g
    <3>4. QED
      BY <1>6, <1>7, <2>2, <3>2, <3>3
  <2>5. CASE Gopher!Goto(o.net, gopher, "gopher cso")
    BY <1>7, <2>2, <2>5 DEF Gopher!Goto
  <2>6. CASE Gopher!NullPointer
    BY <1>6, <1>7, <2>6 DEF Gopher!NullPointer
  <2>7. QED
    BY <2>1, <2>3, <2>4, <2>5, <2>6
<1>16. CASE Gopher!File
  <2>1. PICK shown \in BOOLEAN, n \in { HTInitInput(net, gopher.s), Overwritten(net), net } :
          Gopher!Return(Close(n, gopher.s), Gopher!HT_LOADED, shown)
    BY <1>16, GopherInput DEF Gopher!File
  <2>2. gopher.s \in Fds \cup { Null }
    BY QuietSockets
  <2>3. n \in Nets(Hosts) /\ n.sockets = net.sockets
    <3>1. CASE n = HTInitInput(net, gopher.s)
      BY <1>1, <2>2, <3>1, InputFits
    <3>2. CASE n = Overwritten(net)
      BY <1>1, <3>2, OverwrittenFits
    <3>3. CASE n = net
      BY <1>1, <3>3
    <3>4. QED
      BY <2>1, <3>1, <3>2, <3>3
  <2>4. Spares(net, n) /\ NoListener(n, gopher.s)
    BY <1>6, <2>3 DEF Spares, NoListener
  <2>5. QED
    BY <1>10, <1>11, <2>1, <2>3, <2>4
<1>17. QED
  BY <1>12, <1>13, <1>14, <1>15, <1>16 DEF Gopher!HTLoadGopher

LEMMA FileKeepsApart ==
  ASSUME Inv, FtpNow, NewsNow, Apart, File!HTLoadFile \/ File!HTLoadTelnet,
         UNCHANGED << ftp, news, http, gopher >>
  PROVE  FtpNow' /\ NewsNow' /\ Apart'
<1>1. net \in Nets(Hosts)
  BY DEF Inv, TypeOK
<1>2. /\ pc \in { "file", "telnet" } /\ pc' \in { "return", "ftp" }
      /\ net' = net \/ (pc = "file" /\ net' = Overwritten(net))
      /\ pc' = "ftp" => pc = "file"
  BY FileInput, Zenon DEF File!HTLoadFile, File!HTLoadTelnet, File!LocalFile, File!RemoteFile,
     File!NoFile, File!Return
<1>3. /\ Calm(pc) /\ NewsCalm(pc) /\ Calm(pc') /\ pc' # "listen" /\ pc' # "load"
      /\ pc' \notin NewsLoads \cup GopherLoads /\ pc \notin HttpBusy
      /\ pc = "file" => pc \in FtpLoads
      /\ pc' = "return" => pc' \notin FtpLoads
  BY <1>2, QuietLabels DEF HttpBusy, FtpLoads
<1>4. net'.sockets = net.sockets /\ net'.fd = net.fd
      /\ (net.buffer = << >> => net'.buffer = << >>)
  BY <1>1, <1>2, OverwrittenFits, NothingSpoiled
<1>5. Spares(net, net')
  BY <1>4 DEF Spares
<1>6. FtpNow' /\ NewsNow'
  BY <1>3, <1>4, <1>5, OthersHold
<1>7. http'.s = Null /\ gopher'.s = Null
  BY <1>2, QuietSockets DEF HttpBusy, GopherBusy
<1>8. news.s # Null => pc' \notin FtpLoads
  BY <1>2, <1>3 DEF Apart
<1>9. Apart'
  BY <1>3, <1>7, <1>8 DEF Apart, NoListener
<1>10. QED
  BY <1>6, <1>9

(* The kept FTP connection when its server closes it: nothing was unread,  *)
(* and at most the notice is now.                                          *)
LEMMA ClosedControlHolds ==
  ASSUME NEW n \in Nets(Hosts), NEW f, NEW w, FtpHolds(n, f, "idle", w), f.connections # << >>,
         NEW fd \in Fds, fd = ControlSocket(f), n.sockets[fd].up,
         NEW m \in Nets(Hosts), m.fd = n.fd, m.buffer = n.buffer,
         NEW last \in Silence, m.sockets[fd].wire = n.sockets[fd].wire \o last,
         ~ m.sockets[fd].up, m.sockets[fd].session = n.sockets[fd].session
  PROVE  FTP!Control(f).owes \/ InStep(m, f, "idle", w)
<1>1. Calm("idle") /\ "idle" \notin FtpBusy /\ "idle" \notin LogsIn
  BY DEF Calm, FtpBusy, FtpAsks, LogsIn
<1>2. FtpReplies("idle") = { } /\ << Notice >> # << >>
  BY <1>1, CalmReplies
<1>3. n.fd = fd /\ m.fd = fd
  BY DEF FtpHolds, Holds
<1>4. SUFFICES ASSUME ~ FTP!Control(f).owes
               PROVE  InStep(m, f, "idle", w)
  OBVIOUS
<1>5. InStep(n, f, "idle", w)
  BY <1>4 DEF FtpHolds
<1>6. /\ Pending(n, fd) \in Silence /\ n.buffer = << >>
      /\ Pending(n, fd) = << Notice >> => ~ n.sockets[fd].up
      /\ InMode("idle", Pending(n, fd), n.sockets[fd].session, FTP!Control(f).binary, w)
  BY <1>1, <1>2, <1>5 DEF InStep
<1>7. Pending(n, fd) = << >>
  BY <1>6 DEF Silence
<1>8. n.sockets[fd].wire = << >>
  BY <1>3, <1>7, DueOf
<1>9. last \in Seq(Items)
  <2>1. << >> \in Seq(Items) /\ << Notice >> \in Seq(Items)
    BY DEF Items
  <2>2. QED
    BY <2>1 DEF Silence
<1>10. m.sockets[fd].wire = last
  BY <1>8, <1>9, NothingDue
<1>11. m.buffer = << >> /\ Pending(m, fd) = last
  BY <1>3, <1>6, <1>10, DueOf
<1>12. InMode("idle", last, m.sockets[fd].session, FTP!Control(f).binary, w)
  BY <1>1, <1>6 DEF InMode
<1>13. QED
  BY <1>11, <1>12 DEF InStep

LEMMA ServerClosesKeepsApart ==
  ASSUME Inv, Again(ftp, pc), FtpNow, NewsNow, Apart, ServerCloses
  PROVE  FtpNow' /\ NewsNow' /\ Apart'
<1>1. pc = "idle" /\ UNCHANGED << ftp, news, http, gopher, pc, request, status, text >>
  BY DEF ServerCloses
<1>2. PICK fd \in OpenSockets(net), last \in { << >>, << Notice >> } :
        /\ net.sockets[fd].up /\ (last # << >> => net.sockets[fd].peer \in FtpHosts)
        /\ net' = With(net, fd, [ net.sockets[fd] EXCEPT !.up = FALSE, !.wire = @ \o last ])
  BY DEF ServerCloses
<1> DEFINE no == FALSE
           it == net.sockets[fd]
           wire == it.wire \o last
           next == [ it EXCEPT !.up = no, !.wire = wire ]
<1>3. net \in Nets(Hosts) /\ fd \in Fds /\ it \in Sockets(Hosts) /\ it.wire \in Seq(Items)
      /\ IsOpen(net, fd)
  BY <1>2 DEF Inv, TypeOK, OpenSockets, Nets, Sockets
<1>4. last \in Seq(Items)
  <2>1. << >> \in Seq(Items) /\ << Notice >> \in Seq(Items)
    BY DEF Items
  <2>2. QED
    BY <1>2, <2>1
<1>5. wire \in Seq(Items) /\ no \in BOOLEAN /\ ~ no
  BY <1>3, <1>4, ConcatProperties
<1>6. net' = With(net, fd, next)
  BY <1>2
<1>7. wire = net.sockets[fd].wire \o last /\ it = net.sockets[fd]
  OBVIOUS
<1> HIDE DEF no, wire, it
<1>8. /\ next \in Sockets(Hosts) /\ next.peer = it.peer /\ next.wire = wire /\ ~ next.up
      /\ next.session = it.session
  BY <1>3, <1>5 DEF Sockets
<1> HIDE DEF next
<1> DEFINE m == With(net, fd, next)
<1>9. /\ m \in Nets(Hosts) /\ m.fd = net.fd /\ m.buffer = net.buffer /\ m.sockets[fd] = next
      /\ \A g \in Fds : g # fd => m.sockets[g] = net.sockets[g]
  BY <1>3, <1>6, <1>8, WithFits
<1>10. net' = m
  BY <1>6
<1> HIDE DEF m
<1>11. \A g \in Fds : m.sockets[g].peer = net.sockets[g].peer
  BY <1>7, <1>8, <1>9
<1>12. ftp \in Ftps /\ news \in NewsStates /\ news.s \in Fds \cup { Null }
  BY NewsInput DEF Inv, TypeOK, News!NewsOK, NewsStates, FtpFits
<1>13. FtpHolds(net, ftp, "idle", request.binary)
  BY <1>1 DEF FtpNow
<1>14. ftp.master_socket # Null => m.sockets[ftp.master_socket].peer = "listener"
  BY <1>11, <1>12, <1>13 DEF FtpHolds, Holds, Ftps
<1>15. "idle" \notin FtpBusy /\ Calm("idle") /\ NewsCalm("idle") /\ "idle" # "listen"
  BY QuietLabels
<1> DEFINE c == ControlSocket(ftp)
<1>16. ASSUME ftp.connections # << >>, c = fd
      PROVE  FtpHolds(m, ftp, "idle", request.binary)
  <2>1. FTP!Control(ftp).owes \/ InStep(m, ftp, "idle", request.binary)
    <3>1. last \in Silence
      BY <1>2 DEF Silence
    <3>2. m.sockets[fd].wire = net.sockets[fd].wire \o last
      BY <1>7, <1>8, <1>9
    <3>3. /\ ~ m.sockets[fd].up /\ m.sockets[fd].session = net.sockets[fd].session
          /\ net.sockets[fd].up
      BY <1>2, <1>7, <1>8, <1>9
    <3>4. QED
      BY <1>3, <1>9, <1>13, <1>16, <3>1, <3>2, <3>3, ClosedControlHolds
  <2>2. net.sockets[fd].peer = FTP!Control(ftp).host /\ net.fd = fd
    BY <1>13, <1>16 DEF FtpHolds, Holds
  <2>3. FTP!Control(ftp).host \in FtpHosts
    <3>1. Going(net, ftp)
      BY <1>3, <1>16 DEF Inv, FtpFits, Again, Going
    <3>2. QED
      BY <1>16, <3>1, ControlFits
  <2>4. IsOpen(m, fd)
    <3>1. m.sockets[fd].peer \in FtpHosts
      BY <1>3, <1>11, <2>2, <2>3
    <3>2. Unused.peer \notin FtpHosts
      BY EmptySocket, HostAssumption DEF Hosts, Nobodies
    <3>3. QED
      BY <1>3, <3>1, <3>2 DEF IsOpen
  <2>5. Holds(m, ftp)
    BY <1>3, <1>9, <1>11, <1>14, <1>16, <2>2, <2>4 DEF Holds
  <2>6. QED
    BY <1>15, <2>1, <2>5 DEF FtpHolds
<1>17. ASSUME ~ (ftp.connections # << >> /\ c = fd)
      PROVE  FtpHolds(m, ftp, "idle", request.binary)
  <2>1. ftp.connections # << >> => c \in Fds /\ m.sockets[c] = net.sockets[c]
    BY <1>9, <1>13, <1>17 DEF FtpHolds, Holds, IsOpen
  <2>2. QED
    BY <1>9, <1>13, <1>14, <1>15, <2>1, CalmHolds
<1>18. FtpNow'
  <2>1. FtpHolds(m, ftp, "idle", request.binary)
    BY <1>16, <1>17
  <2>2. QED
    BY <1>1, <1>10, <2>1 DEF FtpNow
<1> HIDE DEF c
<1>19. NewsHolds(net, news, "idle", request.kind)
  BY <1>1 DEF NewsNow
<1>20. ASSUME news.s = fd
      PROVE  NewsHolds(m, news, "idle", request.kind)
  <2>1. NewsDue(net, news, { << >> })
    <3>1. NewsReplies("idle", request.kind) = { }
      BY NewsCalmReplies, <1>15 DEF NewsCalm, NewsBusy
    <3>2. QED
      BY <1>19, <3>1 DEF NewsHolds
  <2>2. /\ ~ news.lost /\ net.fd = fd /\ net.sockets[fd].peer = NewsHost
        /\ Pending(net, fd) = << >>
    BY <1>3, <1>20, <2>1, NullIsNoSocket DEF NewsDue
  <2>3. last = << >> /\ net.sockets[fd].wire = << >> /\ net.buffer = << >>
    BY <1>2, <1>3, <2>2, HostAssumption, DueOf
  <2>4. m.sockets[fd].wire = << >>
    BY <1>3, <1>7, <1>8, <1>9, <2>3, NothingDue
  <2>5. Pending(m, fd) = << >>
    BY <1>3, <1>9, <2>2, <2>3, <2>4, DueOf
  <2>6. IsOpen(m, fd)
    <3>1. m.sockets[fd].peer = NewsHost
      BY <1>3, <1>11, <2>2
    <3>2. Unused.peer # NewsHost
      BY EmptySocket, HostAssumption DEF Hosts, Nobodies
    <3>3. QED
      BY <1>3, <3>1, <3>2 DEF IsOpen
  <2>7. m.sockets[fd].peer = NewsHost
    BY <1>3, <1>11, <2>2
  <2>8. QED
    BY <1>9, <1>20, <2>2, <2>5, <2>6, <2>7 DEF NewsHolds, NewsDue
<1>21. ASSUME news.s # fd
      PROVE  NewsHolds(m, news, "idle", request.kind)
  <2>1. news.s # Null => m.sockets[news.s] = net.sockets[news.s]
    BY <1>9, <1>12, <1>21
  <2>2. QED
    BY <1>3, <1>9, <1>12, <1>15, <1>19, <2>1, NewsCalmHolds
<1>22. NewsNow'
  <2>1. NewsHolds(m, news, "idle", request.kind)
    BY <1>20, <1>21
  <2>2. QED
    BY <1>1, <1>10, <2>1 DEF NewsNow
<1>23. Apart'
  <2>1. http.s = Null /\ gopher.s = Null
    BY <1>1, QuietSockets DEF HttpBusy, GopherBusy
  <2>2. QED
    BY <1>1, <2>1 DEF Apart, NoListener
<1>24. QED
  BY <1>18, <1>22, <1>23

(* What the loads keep true of the connections kept.                       *)
KeptNow == AgainNow /\ FtpNow /\ NewsNow /\ Apart

LEMMA KeptInit == Init => KeptNow
<1> SUFFICES ASSUME Init
             PROVE  KeptNow
  OBVIOUS
<1>1. /\ ftp.connections = << >> /\ ftp.master_socket = Null /\ pc = "idle"
      /\ news.s = Null /\ ~ news.lost /\ http.s = Null /\ gopher.s = Null
  BY FtpInput, NewsInput, WebInput, GopherInput
     DEF Init, FTP!InitialFtp, News!InitialNews, Web!InitialHttp, Gopher!InitialGopher
<1>2. AgainNow
  BY AgainInit DEF AgainNow
<1>3. FtpNow
  BY <1>1, QuietLabels DEF FtpNow, FtpHolds, Holds
<1>4. NewsNow
  BY <1>1 DEF NewsNow, NewsHolds, NewsDue
<1>5. Apart
  BY <1>1 DEF Apart, NoListener
<1>6. QED
  BY <1>2, <1>3, <1>4, <1>5 DEF KeptNow

LEMMA KeptStep ==
  ASSUME OneHost, ~ Mixed, Inv, KeptNow, [Next]_vars
  PROVE  KeptNow'
<1>1. Again(ftp, pc) /\ FtpNow /\ NewsNow /\ Apart
  BY DEF KeptNow, AgainNow
<1>2. AgainNow'
  BY <1>1, AgainStep DEF AgainNow
<1>3. SUFFICES FtpNow' /\ NewsNow' /\ Apart'
  BY <1>2 DEF KeptNow
<1>4. CASE Load \/ AlreadyLoaded \/ Forbidden \/ NoProtocol \/ CallProtocol \/ Finish
  BY <1>1, <1>4, DispatchKeepsApart
<1>5. CASE FTP!HTFTPLoad /\ UNCHANGED << news, http, gopher >>
  BY <1>1, <1>5, FtpKeepsApart
<1>6. CASE News!HTLoadNews /\ UNCHANGED << ftp, http, gopher >>
  BY <1>1, <1>6, NewsKeepsApart
<1>7. CASE Web!HTLoadHTTP /\ UNCHANGED << ftp, news, gopher >>
  BY <1>1, <1>7, WebKeepsApart
<1>8. CASE Gopher!HTLoadGopher /\ UNCHANGED << ftp, news, http >>
  BY <1>1, <1>8, GopherKeepsApart
<1>9. CASE (File!HTLoadFile \/ File!HTLoadTelnet) /\ UNCHANGED << ftp, news, http, gopher >>
  BY <1>1, <1>9, FileKeepsApart
<1>10. CASE ServerCloses
  BY <1>1, <1>10, ServerClosesKeepsApart
<1>11. CASE UNCHANGED vars
  <2>1. UNCHANGED << net, ftp, news, http, gopher, pc, request, status, text >>
    BY <1>11 DEF vars
  <2>2. FtpNow' /\ NewsNow'
    BY <1>1, <2>1 DEF FtpNow, NewsNow
  <2>3. http.s' = http.s /\ (http.s # Null => ~ KeptSocket(http.s))
    BY <1>1, <2>1 DEF Apart
  <2>4. Apart'
    BY <1>1, <2>1 DEF Apart, NoListener, KeptSocket, ControlSocket
  <2>5. QED
    BY <2>2, <2>4
<1>12. QED
  BY <1>4, <1>5, <1>6, <1>7, <1>8, <1>9, <1>10, <1>11 DEF Next, HTLoadAnchor, LoadByProtocol

(* While the shared input serves one protocol at a time, and FTP one host, *)
(* what is due on a kept connection is at every label of a load the reply  *)
(* to what was sent there last.                                            *)
THEOREM KeptInvariant ==
  ASSUME OneHost, ~ Mixed
  PROVE  Spec => []KeptNow
<1>1. Inv /\ KeptNow /\ [Next]_vars => KeptNow'
  BY KeptStep
<1>2. QED
  BY <1>1, KeptInit, InvInit, InvStep, PTL DEF Spec

(* Between loads the list is empty or the one connection.                  *)
LEMMA OneKept ==
  ASSUME Inv, KeptNow, pc = "idle"
  PROVE  /\ \A k \in Kept : ftp.connections # << >> /\ k = FTP!Control(ftp)
         /\ ftp.connections # << >> =>
              /\ Holds(net, ftp) /\ ControlSocket(ftp) \in Fds
              /\ FTP!Control(ftp).owes \/ InStep(net, ftp, "idle", request.binary)
         /\ NewsDue(net, news, { << >> })
<1>1. /\ OnlyControl(ftp) /\ FtpHolds(net, ftp, "idle", request.binary)
      /\ NewsHolds(net, news, "idle", request.kind)
  BY DEF KeptNow, AgainNow, Again, FtpNow, NewsNow
<1>2. ASSUME NEW k \in Kept
      PROVE  ftp.connections # << >> /\ k = FTP!Control(ftp)
  <2>1. PICK c \in Range(ftp.connections) : k = ftp.cons[c]
    BY DEF Kept
  <2>2. PICK i \in DOMAIN ftp.connections : c = ftp.connections[i]
    BY <2>1 DEF Range
  <2>3. ftp.connections # << >>
    BY <2>2
  <2>4. ftp.connections = << ftp.control >>
    BY <1>1, <2>3 DEF OnlyControl
  <2>5. c = ftp.control
    BY <2>2, <2>4
  <2>6. QED
    BY <2>1, <2>3, <2>5 DEF FTP!Control
<1>3. ftp.connections # << >> =>
        /\ Holds(net, ftp) /\ ControlSocket(ftp) \in Fds
        /\ FTP!Control(ftp).owes \/ InStep(net, ftp, "idle", request.binary)
  BY <1>1 DEF FtpHolds, Holds, IsOpen
<1>4. NewsDue(net, news, { << >> })
  <2>1. NewsReplies("idle", request.kind) = { }
    BY QuietLabels, NewsCalmReplies
  <2>2. QED
    BY <1>1, <2>1 DEF NewsHolds
<1>5. QED
  BY <1>2, <1>3, <1>4

(* Between the loads every connection that FTP or News keeps is open, to   *)
(* the host it was made for, and its server has the type of transfer that  *)
(* the flag says: close_connection, which every routine that finds a       *)
(* connection lost calls, the list and the flag never disagree.            *)
THEOREM KeptOnesAreTheirOwn ==
  ASSUME OneHost, ~ Mixed
  PROVE  Spec => []KeptConnectionsAreTheirOwn
<1>1. Inv /\ KeptNow => KeptConnectionsAreTheirOwn
  <2> SUFFICES ASSUME Inv, KeptNow, pc = "idle"
               PROVE  /\ \A k \in Kept :
                           /\ IsOpen(net, k.socket) /\ net.sockets[k.socket].peer = k.host
                           /\ k.owes \/ net.sockets[k.socket].session = FTP!ModeOf(k.binary)
                      /\ \A i, j \in DOMAIN ftp.connections :
                           ftp.cons[ftp.connections[i]].host = ftp.cons[ftp.connections[j]].host
                             => i = j
                      /\ news.s # Null => IsOpen(net, news.s)
                                          /\ net.sockets[news.s].peer = NewsHost
    BY DEF KeptConnectionsAreTheirOwn
  <2>1. ASSUME NEW k \in Kept
        PROVE  /\ IsOpen(net, k.socket) /\ net.sockets[k.socket].peer = k.host
               /\ k.owes \/ net.sockets[k.socket].session = FTP!ModeOf(k.binary)
    <3>1. /\ ftp.connections # << >> /\ k = FTP!Control(ftp) /\ k.socket = ControlSocket(ftp)
          /\ Holds(net, ftp) /\ (k.owes \/ InStep(net, ftp, "idle", request.binary))
      BY <2>1, OneKept DEF ControlSocket
    <3>2. InStep(net, ftp, "idle", request.binary) =>
            net.sockets[k.socket].session = FTP!ModeOf(k.binary)
      BY <3>1, QuietLabels, CalmReplies DEF InStep, InMode
    <3>3. QED
      BY <3>1, <3>2 DEF Holds
  <2>2. \A i, j \in DOMAIN ftp.connections :
          ftp.cons[ftp.connections[i]].host = ftp.cons[ftp.connections[j]].host => i = j
    BY DEF Inv, FtpFits, HostOf
  <2>3. news.s # Null => IsOpen(net, news.s) /\ net.sockets[news.s].peer = NewsHost
    BY OneKept DEF NewsDue
  <2>4. QED
    BY <2>1, <2>2, <2>3
<1>2. QED
  BY <1>1, AccessInvariant, KeptInvariant, PTL

(* Between the loads no reply to a command of an earlier load is left on a *)
(* kept connection, unless its transfer was abandoned: however many loads  *)
(* there are, response() of HTFTP.c and of HTNews.c read what was asked.   *)
THEOREM EarlierRepliesAreRead ==
  ASSUME OneHost, ~ Mixed
  PROVE  Spec => []RepliesAreAllRead
<1>1. Inv /\ KeptNow => RepliesAreAllRead
  <2> SUFFICES ASSUME Inv, KeptNow, pc = "idle"
               PROVE  /\ \A k \in Kept :
                           k.owes \/ net.sockets[k.socket].wire \in { << >>, << Notice >> }
                      /\ news.s # Null => net.sockets[news.s].wire = << >>
    BY DEF RepliesAreAllRead
  <2>1. net \in Nets(Hosts)
    BY DEF Inv, TypeOK
  <2>2. ASSUME NEW k \in Kept, ~ k.owes
        PROVE  net.sockets[k.socket].wire \in { << >>, << Notice >> }
    <3>1. /\ k.socket = ControlSocket(ftp) /\ k.socket \in Fds
          /\ Holds(net, ftp) /\ ftp.connections # << >> /\ InStep(net, ftp, "idle", request.binary)
      BY <2>2, OneKept DEF ControlSocket
    <3>2. FtpReplies("idle") = { } /\ "idle" \notin FtpBusy
      BY QuietLabels, CalmReplies
    <3>3. /\ Pending(net, k.socket) \in Silence /\ net.buffer = << >>
          /\ net.fd = k.socket
      BY <3>1, <3>2 DEF InStep, Holds
    <3>4. QED
      BY <2>1, <3>1, <3>3, DueOf DEF Silence
  <2>3. ASSUME news.s # Null
        PROVE  net.sockets[news.s].wire = << >>
    <3>1. news.s \in Fds /\ net.fd = news.s /\ Pending(net, news.s) = << >>
      BY <2>3, OneKept DEF NewsDue, IsOpen
    <3>2. QED
      BY <2>1, <3>1, DueOf
  <2>4. QED
    BY <2>2, <2>3
<1>2. QED
  BY <1>1, AccessInvariant, KeptInvariant, PTL

=============================================================================
