---------------------------- MODULE HTAccess_proofs ----------------------------
(* What holds of the protocol modules and HTAccess together, whatever the  *)
(* hosts, the connections, the sockets and the documents: the types, that  *)
(* a load that succeeds leaves no socket behind, that there is one FTP     *)
(* connection to a host, and that a Gopher link is of the line it stands   *)
(* for.  The invariant says who owns a socket.  While a load runs, every   *)
(* socket opened since it began is that of a kept FTP connection, the      *)
(* master socket, the news socket, or that of the HTTP or Gopher load that *)
(* runs; and each of these has one while its load is at a label where the  *)
(* code uses it.  A socket stays owned because a step either keeps the     *)
(* owners, or closes what it disowns.  That takes what the FTP client      *)
(* knows of its list: one connection to a host, the one in use in front.   *)
EXTENDS HTAccess, FiniteSetTheorems, SequenceTheorems, WellFoundedInduction, TLAPS

(* Every open socket is one of A, or one of a directory's data. *)
Covers(n, A) ==
  \A fd \in Fds : IsOpen(n, fd) => fd \in A \/ n.sockets[fd].peer = "data"

(* Where the code of a protocol uses its connection. *)
FtpAsks == { "greeting", "user", "pass", "acct", "port", "type", "retr", "cwd", "nlst" }
FtpBusy == FtpAsks \cup { "listen", "accept file", "accept directory", "final file",
                          "final directory" }
NewsBusy   == { "news try", "news greeting", "news command", "news body",
                "news head reply", "news head" }
HttpBusy   == { "http send", "http reply", "double free" }
GopherBusy == { "gopher send", "gopher menu", "gopher cso", "gopher file", "null pointer" }

Ftps ==
  [ connections : Seq(ConnectionIds), cons : [ ConnectionIds -> FTP!Connections ],
    control : ConnectionIds \cup { Null }, master_socket : Fds \cup { Null },
    retry : 0 .. 1, lost : BOOLEAN, fresh : BOOLEAN,
    source : FtpHosts \cup { "nobody" } ]

HostOf(f, i)  == f.cons[f.connections[i]].host

(* There is one connection to a host; the one in use, if it is listed at   *)
(* all, is the first.                                                      *)
FtpFits(f) ==
  /\ f \in Ftps
  /\ f.connections # << >> => f.control # Null
  /\ \A i \in DOMAIN f.connections :
       /\ f.connections[i] = f.control => i = 1
       /\ HostOf(f, i) \in FtpHosts
       /\ \A j \in DOMAIN f.connections : HostOf(f, i) = HostOf(f, j) => i = j

FtpSockets(f) ==
  { f.cons[f.connections[i]].socket : i \in DOMAIN f.connections } \cup { f.master_socket }

(* The sockets the variables of the protocol modules refer to. *)
Owned == FtpSockets(ftp) \cup { news.s, http.s, gopher.s }

(* What the protocol modules take from the address: HTLoadFile comes to     *)
(* HTFTPLoad only with a host that has an FTP server.                      *)
RequestFits ==
  /\ pc \notin Stopped => request.host \in Hosts /\ request.binary \in BOOLEAN
  /\ pc \in { "load", "file" } /\ request.access \in { "ftp", "file" } =>
       request.host \in FtpHosts \cup { ThisHost }
  /\ pc = "file" => request.access \in { "ftp", "file" }
  /\ pc \in FtpBusy \cup { "ftp" } => request.host \in FtpHosts

(* A link parse_menu makes, but for one to a Web address, is of its line.  *)
LinkFits ==
  gopher.link.by = "other" =>
    gopher.link.text = "this line" /\ gopher.link.address = "this line"

(* A failed load may leave its sockets open; the loads after it count      *)
(* them in what was open when they began.                                  *)
Inv ==
  /\ TypeOK /\ FtpFits(ftp) /\ RequestFits /\ LinkFits
  /\ pc \in FtpBusy => ftp.control # Null
  /\ ~ news.initialized => news.s = Null
  /\ pc \in NewsBusy => news.initialized
  /\ pc \notin HttpBusy => http.s = Null
  /\ pc \in GopherBusy <=> gopher.s # Null
  /\ pc \notin Stopped /\ (pc = "return" => status = HT_LOADED) =>
       Covers(net, request.open \cup Owned)

-----------------------------------------------------------------------------
LEMMA Least ==
  ASSUME NEW T \in SUBSET Nat, T # {}
  PROVE  Min(T) \in T
<1> DEFINE R == OpToRel(<, Nat)
<1>1. IsWellFoundedOn(R, Nat)
  BY NatLessThanWellFounded, Zenon
<1>2. \A x, y \in Nat : x < y => << x, y >> \in R
  BY DEF OpToRel
<1> HIDE DEF R
<1>3. PICK x \in T : \A y \in T : ~ (<< y, x >> \in R)
  BY <1>1, WFMin
<1>4. ASSUME NEW y \in T
      PROVE  x =< y
  <2>1. ~ (y < x)
    BY <1>2, <1>3
  <2>2. QED
    BY <2>1
<1>5. \E z \in T : \A y \in T : z =< y
  BY <1>4
<1>6. QED
  BY <1>5, Zenon DEF Min

LEMMA SocketFits ==
  ASSUME NEW host \in Hosts \cup Nobodies, NEW wire \in Seq(Items)
  PROVE  /\ Socket(host, wire) \in Sockets(Hosts)
         /\ [ Socket(host, wire) EXCEPT !.up = FALSE ] \in Sockets(Hosts)
BY DEF Socket, Sockets

LEMMA EmptySocket ==
  /\ Unused \in Sockets(Hosts) /\ Listening \in Sockets(Hosts)
  /\ Unused.peer = "nobody" /\ Listening.peer = "listener"
  /\ ~ Unused.up /\ ~ Listening.up
  /\ Unused.wire = << >> /\ Listening.wire = << >>
<1>1. << >> \in Seq(Items)
  OBVIOUS
<1>2. Unused \in Sockets(Hosts) /\ Listening \in Sockets(Hosts)
  BY <1>1, SocketFits DEF Unused, Listening, Nobodies
<1>3. QED
  BY <1>2 DEF Unused, Listening, Socket

LEMMA WithFits ==
  ASSUME NEW n \in Nets(Hosts), NEW fd \in Fds, NEW it \in Sockets(Hosts)
  PROVE  /\ With(n, fd, it) \in Nets(Hosts)
         /\ With(n, fd, it).sockets[fd] = it
         /\ \A g \in Fds : g # fd => With(n, fd, it).sockets[g] = n.sockets[g]
         /\ With(n, fd, it).fd = n.fd /\ With(n, fd, it).buffer = n.buffer
BY DEF With, Nets

LEMMA WithCovers ==
  ASSUME NEW n \in Nets(Hosts), NEW fd \in Fds, NEW it \in Sockets(Hosts), NEW A,
         Covers(n, A)
  PROVE  /\ Covers(With(n, fd, it), A \cup { fd })
         /\ IsOpen(n, fd) /\ it.peer = n.sockets[fd].peer
              => Covers(With(n, fd, it), A)
         /\ it.peer = "data" => Covers(With(n, fd, it), A)
         /\ it = Unused => Covers(With(n, fd, it), A \ { fd })
BY WithFits DEF Covers, IsOpen

LEMMA CloseFits ==
  ASSUME NEW n \in Nets(Hosts), NEW fd
  PROVE  /\ Close(n, fd) \in Nets(Hosts)
         /\ \A g \in Fds : Close(n, fd).sockets[g] = IF g = fd THEN Unused ELSE n.sockets[g]
         /\ Close(n, fd).fd = n.fd /\ Close(n, fd).buffer = n.buffer
BY WithFits, EmptySocket DEF Close

LEMMA CloseCovers ==
  ASSUME NEW n \in Nets(Hosts), NEW fd, NEW A, Covers(n, A)
  PROVE  Covers(Close(n, fd), A \ { fd })
BY CloseFits DEF Covers, IsOpen

LEMMA NewSocketFits ==
  ASSUME NEW n \in Nets(Hosts), FreeSockets(n) # { }
  PROVE  NewSocket(n) \in Fds /\ ~ IsOpen(n, NewSocket(n))
<1>1. FreeSockets(n) \in SUBSET Nat
  BY DEF FreeSockets, Fds
<1>2. NewSocket(n) \in FreeSockets(n)
  BY <1>1, Least DEF NewSocket
<1>3. QED
  BY <1>2 DEF FreeSockets, OpenSockets

LEMMA InputFits ==
  ASSUME NEW n \in Nets(Hosts), NEW fd \in Fds \cup { Null }
  PROVE  /\ HTInitInput(n, fd) \in Nets(Hosts)
         /\ HTInitInput(n, fd).sockets = n.sockets
         /\ HTInitInput(n, fd).fd = fd /\ HTInitInput(n, fd).buffer = << >>
         /\ \A A : Covers(n, A) => Covers(HTInitInput(n, fd), A)
<1>1. << >> \in Seq(Items)
  OBVIOUS
<1>2. /\ HTInitInput(n, fd) \in Nets(Hosts)
      /\ HTInitInput(n, fd).sockets = n.sockets
      /\ HTInitInput(n, fd).fd = fd /\ HTInitInput(n, fd).buffer = << >>
  BY <1>1 DEF HTInitInput, Nets
<1>3. QED
  BY <1>2 DEF Covers, IsOpen

LEMMA OverwrittenFits ==
  ASSUME NEW n \in Nets(Hosts)
  PROVE  /\ Overwritten(n) \in Nets(Hosts)
         /\ Overwritten(n).sockets = n.sockets /\ Overwritten(n).fd = n.fd
         /\ Overwritten(n).buffer = [ i \in DOMAIN n.buffer |-> Garbage ]
         /\ \A A : Covers(n, A) => Covers(Overwritten(n), A)
<1>1. [ i \in DOMAIN n.buffer |-> Garbage ] \in Seq(Items)
  BY DEF Nets, Garbage, Items
<1>2. /\ Overwritten(n) \in Nets(Hosts)
      /\ Overwritten(n).sockets = n.sockets /\ Overwritten(n).fd = n.fd
      /\ Overwritten(n).buffer = [ i \in DOMAIN n.buffer |-> Garbage ]
  BY <1>1 DEF Overwritten, Nets
<1>3. QED
  BY <1>2 DEF Covers, IsOpen

LEMMA HeadAndRest ==
  ASSUME NEW T, NEW x \in T, NEW c \in Seq(T)
  PROVE  /\ << x >> \o c \in Seq(T) /\ Len(<< x >> \o c) = 1 + Len(c)
         /\ \A i \in 1 .. 1 + Len(c) :
              (<< x >> \o c)[i] = IF i = 1 THEN x ELSE c[i - 1]
<1> DEFINE u == << x >>
<1>1. u \in Seq(T) /\ Len(u) = 1 /\ u[1] = x
  OBVIOUS
<1> HIDE DEF u
<1>2. /\ u \o c \in Seq(T) /\ Len(u \o c) = Len(u) + Len(c)
      /\ \A i \in 1 .. Len(u) + Len(c) :
           (u \o c)[i] = IF i <= Len(u) THEN u[i] ELSE c[i - Len(u)]
  BY <1>1, ConcatProperties, Zenon
<1>3. /\ u \o c \in Seq(T) /\ Len(u \o c) = 1 + Len(c)
      /\ \A i \in 1 .. 1 + Len(c) :
           (u \o c)[i] = IF i = 1 THEN x ELSE c[i - 1]
  BY <1>1, <1>2
<1>4. QED
  BY <1>3 DEF u

(* A read takes the first item, leaves some in the buffer, and the others. *)
LEMMA TakenInParts ==
  ASSUME NEW T, NEW s \in Seq(T), s # << >>, NEW k \in 1 .. Len(s)
  PROVE  /\ Head(s) \in T
         /\ SubSeq(s, 2, k) \in Seq(T) /\ SubSeq(s, k + 1, Len(s)) \in Seq(T)
         /\ << Head(s) >> \o (SubSeq(s, 2, k) \o SubSeq(s, k + 1, Len(s))) = s
<1>1. Len(s) \in Nat /\ Len(s) >= 1 /\ Head(s) = s[1] /\ Head(s) \in T
  OBVIOUS
<1>2. /\ SubSeq(s, 2, k) \in Seq(T)
      /\ Len(SubSeq(s, 2, k)) = k - 1
      /\ \A i \in 1 .. k - 1 : SubSeq(s, 2, k)[i] = s[i + 1]
  OBVIOUS
<1>3. /\ SubSeq(s, k + 1, Len(s)) \in Seq(T)
      /\ Len(SubSeq(s, k + 1, Len(s))) = Len(s) - k
      /\ \A i \in 1 .. Len(s) - k : SubSeq(s, k + 1, Len(s))[i] = s[i + k]
  OBVIOUS
<1> DEFINE a == SubSeq(s, 2, k)
           b == SubSeq(s, k + 1, Len(s))
           r == << Head(s) >> \o (a \o b)
<1> HIDE DEF a, b
<1>4. /\ a \in Seq(T) /\ b \in Seq(T)
      /\ Len(a) = k - 1 /\ Len(b) = Len(s) - k
      /\ \A i \in 1 .. k - 1 : a[i] = s[i + 1]
      /\ \A i \in 1 .. Len(s) - k : b[i] = s[i + k]
  BY <1>2, <1>3 DEF a, b
<1>5. /\ a \o b \in Seq(T) /\ Len(a \o b) = Len(s) - 1
      /\ \A i \in 1 .. Len(s) - 1 : (a \o b)[i] = s[i + 1]
  <2>1. /\ a \o b \in Seq(T) /\ Len(a \o b) = Len(a) + Len(b)
        /\ \A i \in 1 .. Len(a) + Len(b) :
             (a \o b)[i] = IF i <= Len(a) THEN a[i] ELSE b[i - Len(a)]
    BY <1>4, ConcatProperties, Zenon
  <2>2. Len(a) + Len(b) = Len(s) - 1
    BY <1>1, <1>4
  <2>3. ASSUME NEW i \in 1 .. Len(s) - 1
        PROVE  (a \o b)[i] = s[i + 1]
    <3>1. (a \o b)[i] = IF i <= k - 1 THEN a[i] ELSE b[i - (k - 1)]
      BY <1>4, <2>1, <2>2
    <3>2. CASE i <= k - 1
      BY <1>4, <3>1, <3>2
    <3>3. CASE ~ (i <= k - 1)
      <4>1. i - (k - 1) \in 1 .. Len(s) - k /\ (i - (k - 1)) + k = i + 1
        BY <1>1, <3>3
      <4>2. QED
        BY <1>4, <3>1, <3>3, <4>1
    <3>4. QED
      BY <3>2, <3>3
  <2>4. QED
    BY <2>1, <2>2, <2>3
<1>6. /\ r \in Seq(T) /\ Len(r) = Len(s)
      /\ \A i \in 1 .. Len(s) : r[i] = s[i]
  <2> DEFINE c == a \o b
  <2>1. c \in Seq(T) /\ Len(c) = Len(s) - 1 /\ \A i \in 1 .. Len(s) - 1 : c[i] = s[i + 1]
    BY <1>5
  <2> HIDE DEF c
  <2>2. /\ << Head(s) >> \o c \in Seq(T) /\ Len(<< Head(s) >> \o c) = 1 + Len(c)
        /\ \A i \in 1 .. 1 + Len(c) :
             (<< Head(s) >> \o c)[i] = IF i = 1 THEN Head(s) ELSE c[i - 1]
    <3> HIDE DEF r
    <3>1. Head(s) \in T /\ c \in Seq(T)
      BY <1>1, <2>1
    <3>2. QED
      BY <3>1, HeadAndRest
  <2>3. /\ << Head(s) >> \o c \in Seq(T) /\ Len(<< Head(s) >> \o c) = Len(s)
        /\ \A i \in 1 .. Len(s) : (<< Head(s) >> \o c)[i] = s[i]
    <3> DEFINE d == << Head(s) >> \o c
    <3>1. /\ d \in Seq(T) /\ Len(d) = 1 + Len(c)
          /\ \A i \in 1 .. 1 + Len(c) : d[i] = IF i = 1 THEN Head(s) ELSE c[i - 1]
      BY <2>2
    <3> HIDE DEF d
    <3>2. \A i \in 1 .. Len(s) : i # 1 => i - 1 \in 1 .. Len(s) - 1 /\ (i - 1) + 1 = i
      BY <1>1
    <3>3. d \in Seq(T) /\ Len(d) = Len(s) /\ \A i \in 1 .. Len(s) : d[i] = s[i]
      BY <1>1, <2>1, <3>1, <3>2
    <3>4. QED
      BY <3>3 DEF d
  <2>4. QED
    BY <2>3 DEF c
<1>7. r = s
  BY <1>6, SeqEqual
<1>8. << Head(s) >> \o (SubSeq(s, 2, k) \o SubSeq(s, k + 1, Len(s))) = s
  BY <1>7, Zenon DEF a, b
<1>9. QED
  BY <1>1, <1>2, <1>3, <1>8, Zenon

(* What a read may find: the next item, and the rest of what was pending.  *)
LEMMA GetFits ==
  ASSUME NEW n \in Nets(Hosts), NEW o \in HTGetChararcter(n)
  PROVE  /\ o.net \in Nets(Hosts) /\ o.item \in Items \cup { EOF }
         /\ o.net.fd = n.fd
         /\ \A g \in Fds : /\ o.net.sockets[g].peer = n.sockets[g].peer
                           /\ o.net.sockets[g].up = n.sockets[g].up
                           /\ o.net.sockets[g].session = n.sockets[g].session
                           /\ g # n.fd => o.net.sockets[g] = n.sockets[g]
         /\ ~ IsOpen(n, n.fd) => o.net.sockets = n.sockets
         /\ o.item = EOF => o.net.sockets = n.sockets /\ n.buffer = << >> /\ o.net.buffer = << >>
         /\ o.item # EOF /\ n.fd \in Fds =>
              Pending(n, n.fd) = << o.item >> \o Pending(o.net, n.fd)
         /\ o.item = EOF /\ IsOpen(n, n.fd) =>
              Pending(n, n.fd) = << >> /\ ~ n.sockets[n.fd].up
<1> USE DEF EOF
<1>1. /\ n.buffer \in Seq(Items) /\ n.fd \in Fds \cup { Null }
      /\ \A g \in Fds : n.sockets[g] \in Sockets(Hosts) /\ n.sockets[g].wire \in Seq(Items)
  BY DEF Nets, Sockets
<1> DEFINE take(item, rest) == [ item |-> item, net |-> [ n EXCEPT !.buffer = rest ] ]
<1>2. CASE n.buffer # << >>
  <2>1. o = take(Head(n.buffer), Tail(n.buffer))
    BY <1>2 DEF HTGetChararcter
  <2>2. /\ Head(n.buffer) \in Items /\ Tail(n.buffer) \in Seq(Items)
        /\ n.buffer = << Head(n.buffer) >> \o Tail(n.buffer)
    BY <1>1, <1>2
  <2>3. /\ o.item = Head(n.buffer) /\ o.net.buffer = Tail(n.buffer)
        /\ o.net.sockets = n.sockets /\ o.net.fd = n.fd /\ o.net \in Nets(Hosts)
    BY <2>1, <2>2 DEF Nets
  <2>4. o.item # EOF
    BY <2>2, <2>3 DEF Items, Notice, Text, Dot, Garbage
  <2>5. n.fd \in Fds => Pending(n, n.fd) = << o.item >> \o Pending(o.net, n.fd)
    <3>1. SUFFICES ASSUME n.fd \in Fds
                   PROVE  Pending(n, n.fd) = << o.item >> \o Pending(o.net, n.fd)
      OBVIOUS
    <3>2. /\ << o.item >> \in Seq(Items) /\ o.net.buffer \in Seq(Items)
          /\ n.sockets[n.fd].wire \in Seq(Items)
      BY <1>1, <2>2, <2>3, <3>1
    <3>3. (<< o.item >> \o o.net.buffer) \o n.sockets[n.fd].wire
            = << o.item >> \o (o.net.buffer \o n.sockets[n.fd].wire)
      <4> DEFINE p == << o.item >>
                 q == o.net.buffer
                 w == n.sockets[n.fd].wire
      <4>1. p \in Seq(Items) /\ q \in Seq(Items) /\ w \in Seq(Items)
        BY <3>2
      <4> HIDE DEF p, q, w
      <4>2. (p \o q) \o w = p \o (q \o w)
        BY <4>1, ConcatAssociative
      <4>3. QED
        BY <4>2 DEF p, q, w
    <3>4. Pending(n, n.fd) = n.buffer \o n.sockets[n.fd].wire
      BY DEF Pending
    <3>5. Pending(o.net, n.fd) = o.net.buffer \o n.sockets[n.fd].wire
      BY <2>3 DEF Pending
    <3>6. n.buffer = << o.item >> \o o.net.buffer
      BY <2>2, <2>3
    <3>7. QED
      BY <3>3, <3>4, <3>5, <3>6, Zenon
  <2>6. QED
    BY <2>2, <2>3, <2>4, <2>5
<1>3. CASE n.buffer = << >> /\ ~ IsOpen(n, n.fd)
  <2>1. o = take(EOF, << >>)
    BY <1>3 DEF HTGetChararcter
  <2>2. /\ o.item = EOF /\ o.net.buffer = << >>
        /\ o.net.sockets = n.sockets /\ o.net.fd = n.fd /\ o.net \in Nets(Hosts)
    BY <1>1, <1>3, <2>1 DEF Nets
  <2>3. QED
    BY <1>3, <2>2
<1>4. CASE n.buffer = << >> /\ IsOpen(n, n.fd) /\ n.sockets[n.fd].wire # << >>
  <2> DEFINE it == n.sockets[n.fd]
             m(k) == [ With(n, n.fd, [ it EXCEPT !.wire = SubSeq(@, k + 1, Len(@)) ])
                         EXCEPT !.buffer = SubSeq(it.wire, 2, k) ]
  <2>1. PICK k \in 1 .. Len(it.wire) : o = [ item |-> Head(it.wire), net |-> m(k) ]
    BY <1>4 DEF HTGetChararcter
  <2>2. n.fd \in Fds /\ it \in Sockets(Hosts) /\ it.wire \in Seq(Items)
    BY <1>1, <1>4 DEF IsOpen
  <2> DEFINE rest == SubSeq(it.wire, k + 1, Len(it.wire))
             front == SubSeq(it.wire, 2, k)
             at == [ it EXCEPT !.wire = rest ]
  <2>3. /\ rest \in Seq(Items) /\ front \in Seq(Items) /\ Head(it.wire) \in Items
        /\ << Head(it.wire) >> \o (front \o rest) = it.wire
    BY <1>4, <2>1, <2>2, TakenInParts
  <2>4. /\ at \in Sockets(Hosts) /\ at.wire = rest /\ at.peer = it.peer /\ at.up = it.up
        /\ at.session = it.session
    BY <2>2, <2>3 DEF Sockets
  <2>5. o.item = Head(it.wire) /\ o.net = [ With(n, n.fd, at) EXCEPT !.buffer = front ]
    BY <2>1
  <2> HIDE DEF at, rest, front
  <2>6. /\ o.net \in Nets(Hosts) /\ o.net.buffer = front
        /\ o.net.sockets = With(n, n.fd, at).sockets /\ o.net.fd = n.fd
    <3>1. With(n, n.fd, at) \in Nets(Hosts) /\ With(n, n.fd, at).fd = n.fd
      BY <2>2, <2>4, WithFits
    <3>2. QED
      BY <2>3, <2>5, <3>1 DEF Nets
  <2>7. /\ o.net.sockets[n.fd] = at
        /\ \A g \in Fds : g # n.fd => o.net.sockets[g] = n.sockets[g]
    BY <2>2, <2>4, <2>6, WithFits
  <2>8. o.item \in Items /\ o.item # EOF
    <3>1. o.item \in Items
      BY <2>3, <2>5
    <3>2. EOF \notin Items
      BY DEF Items, Notice, Text, Dot, Garbage, EOF
    <3>3. QED
      BY <3>1, <3>2
  <2>9. Pending(n, n.fd) = << o.item >> \o Pending(o.net, n.fd)
    <3>1. Pending(n, n.fd) = it.wire
      BY <1>4, <2>2 DEF Pending
    <3>2. Pending(o.net, n.fd) = front \o rest
      BY <2>4, <2>6, <2>7 DEF Pending
    <3>3. QED
      BY <2>3, <2>5, <3>1, <3>2
  <2>10. QED
    BY <1>4, <2>4, <2>6, <2>7, <2>8, <2>9
<1>5. CASE n.buffer = << >> /\ IsOpen(n, n.fd) /\ n.sockets[n.fd].wire = << >>
  <2>1. ~ n.sockets[n.fd].up
    BY <1>5 DEF HTGetChararcter
  <2>2. o = take(EOF, << >>)
    BY <1>5, <2>1 DEF HTGetChararcter
  <2>3. /\ o.item = EOF /\ o.net.buffer = << >>
        /\ o.net.sockets = n.sockets /\ o.net.fd = n.fd /\ o.net \in Nets(Hosts)
    BY <1>1, <1>5, <2>2 DEF Nets
  <2>4. Pending(n, n.fd) = << >>
    BY <1>5 DEF Pending
  <2>5. QED
    BY <1>5, <2>1, <2>3, <2>4
<1>6. QED
  BY <1>2, <1>3, <1>4, <1>5


-----------------------------------------------------------------------------
LEMMA FtpInput ==
  /\ FTP!Null = Null /\ FTP!EOF = EOF /\ FTP!Notice = Notice /\ FTP!Fds = Fds
  /\ FTP!Listening = Listening
  /\ \A peer, wire : FTP!Socket(peer, wire) = Socket(peer, wire)
  /\ \A n : /\ FTP!FreeSockets(n) = FreeSockets(n)
            /\ FTP!NewSocket(n) = NewSocket(n)
            /\ FTP!HTGetChararcter(n) = HTGetChararcter(n)
  /\ \A n, fd : /\ FTP!IsOpen(n, fd) = IsOpen(n, fd)
                /\ FTP!Close(n, fd) = Close(n, fd)
                /\ FTP!HTInitInput(n, fd) = HTInitInput(n, fd)
  /\ \A n, fd, it : FTP!With(n, fd, it) = With(n, fd, it)
  /\ \A item : FTP!NumbersOf(item) = NumbersOf(item)
<1> USE DEF FTP!Null, Null, FTP!EOF, EOF, FTP!Notice, Notice, FTP!Fds, Fds
<1>1. /\ FTP!Null = Null /\ FTP!EOF = EOF /\ FTP!Notice = Notice /\ FTP!Fds = Fds
  OBVIOUS
<1>2. \A peer, wire : FTP!Socket(peer, wire) = Socket(peer, wire)
  BY DEF FTP!Socket, Socket
<1>3. FTP!Listening = Listening /\ FTP!Unused = Unused
  BY <1>2, Zenon DEF FTP!Listening, Listening, FTP!Unused, Unused
<1>4. \A n, fd, it : FTP!With(n, fd, it) = With(n, fd, it)
  BY DEF FTP!With, With
<1>5. \A n, fd : /\ FTP!IsOpen(n, fd) = IsOpen(n, fd)
                 /\ FTP!Close(n, fd) = Close(n, fd)
                 /\ FTP!HTInitInput(n, fd) = HTInitInput(n, fd)
  BY <1>3, <1>4 DEF FTP!IsOpen, IsOpen, FTP!Close, Close, FTP!HTInitInput,
                    HTInitInput
<1>6. \A n : FTP!FreeSockets(n) = FreeSockets(n)
  BY <1>5 DEF FTP!FreeSockets, FreeSockets, FTP!OpenSockets, OpenSockets
<1>7. \A n : FTP!NewSocket(n) = NewSocket(n)
  BY <1>6 DEF FTP!NewSocket, NewSocket, FTP!Min, Min
<1>8. \A n : FTP!HTGetChararcter(n) = HTGetChararcter(n)
  BY <1>4, <1>5, Zenon DEF FTP!HTGetChararcter, HTGetChararcter
<1>9. \A item : FTP!NumbersOf(item) = NumbersOf(item)
  BY DEF FTP!NumbersOf, NumbersOf
<1>10. QED
  BY <1>1, <1>2, <1>3, <1>4, <1>5, <1>6, <1>7, <1>8, <1>9

FtpCommands == { "USER", "PASS", "ACCT", "PORT", "CWD", "A", "I", "RETR", "NLST" }

Answer(a, wire, up, session) == a.wire = wire /\ a.up = up /\ a.session = session

(* What an FTP server may answer to a command. *)
FtpAnswer(cmd, session, a) ==
  \/ Answer(a, << 5 >>, TRUE, session)
  \/ Answer(a, << >>, FALSE, session) \/ Answer(a, << Notice >>, FALSE, session)
  \/ /\ cmd \in { "USER", "PASS" }
     /\ Answer(a, << 3 >>, TRUE, "none") \/ Answer(a, << 2 >>, TRUE, "A")
  \/ cmd = "ACCT" /\ Answer(a, << 2 >>, TRUE, "A")
  \/ cmd \in { "PORT", "CWD" } /\ Answer(a, << 2 >>, TRUE, session)
  \/ cmd \in { "A", "I" } /\ Answer(a, << 2 >>, TRUE, cmd)
  \/ /\ cmd \in { "RETR", "NLST" }
     /\ \/ Answer(a, << 1, 2 >>, TRUE, session) \/ Answer(a, << 1, 4 >>, TRUE, session)
        \/ Answer(a, << 1 >>, FALSE, session)

LEMMA FtpAnswers ==
  ASSUME NEW cmd \in FtpCommands, NEW peer, NEW session,
         NEW a \in FTP!FtpServer(cmd, peer, session)
  PROVE  FtpAnswer(cmd, session, a)
<1> DEFINE answer(wire, s) == [ wire |-> wire, up |-> TRUE, session |-> s ]
           gone(wire)      == [ wire |-> wire, up |-> FALSE, session |-> session ]
<1>1. /\ \A wire, s : Answer(answer(wire, s), wire, TRUE, s)
      /\ \A wire : Answer(gone(wire), wire, FALSE, session)
  BY DEF Answer
<1> DEFINE served ==
        CASE cmd = "USER" -> { answer(<< 3 >>, "none"), answer(<< 2 >>, "A") }
          [] cmd = "PASS" -> { answer(<< 3 >>, "none"), answer(<< 2 >>, "A") }
          [] cmd = "ACCT" -> { answer(<< 2 >>, "A") }
          [] cmd \in { "PORT", "CWD" } -> { answer(<< 2 >>, session) }
          [] cmd \in { "A", "I" } -> { answer(<< 2 >>, cmd) }
          [] cmd \in { "RETR", "NLST" } ->
               { answer(<< 1, 2 >>, session), answer(<< 1, 4 >>, session), gone(<< 1 >>) }
<1> HIDE DEF answer, gone
<1>2. \/ a \in { answer(<< 5 >>, session), gone(<< >>), gone(<< Notice >>) }
      \/ a \in served
  BY FtpInput, Zenon DEF FTP!FtpServer, answer, gone
<1>3. CASE a \in { answer(<< 5 >>, session), gone(<< >>), gone(<< Notice >>) }
  BY <1>1, <1>3 DEF FtpAnswer
<1>4. CASE a \in served
  <2>1. CASE cmd \in { "USER", "PASS" }
    BY <1>1, <1>4, <2>1 DEF FtpAnswer
  <2>2. CASE cmd = "ACCT"
    BY <1>1, <1>4, <2>2 DEF FtpAnswer
  <2>3. CASE cmd \in { "PORT", "CWD" }
    BY <1>1, <1>4, <2>3 DEF FtpAnswer
  <2>4. CASE cmd \in { "A", "I" }
    BY <1>1, <1>4, <2>4 DEF FtpAnswer
  <2>5. CASE cmd \in { "RETR", "NLST" }
    BY <1>1, <1>4, <2>5 DEF FtpAnswer
  <2>6. QED
    BY <2>1, <2>2, <2>3, <2>4, <2>5 DEF FtpCommands
<1>5. QED
  BY <1>2, <1>3, <1>4

LEMMA FtpAnswersFit ==
  ASSUME NEW cmd \in FtpCommands, NEW peer, NEW session \in { "none", "A", "I" },
         NEW a \in FTP!FtpServer(cmd, peer, session)
  PROVE  a.wire \in Seq(Items) /\ a.up \in BOOLEAN /\ a.session \in { "none", "A", "I" }
<1>1. FtpAnswer(cmd, session, a)
  BY FtpAnswers
<1>2. { 1, 2, 3, 4, 5, Notice } \subseteq Items
  BY DEF Items
<1>3. /\ << >> \in Seq(Items) /\ << 1 >> \in Seq(Items) /\ << 2 >> \in Seq(Items)
      /\ << 3 >> \in Seq(Items) /\ << 5 >> \in Seq(Items) /\ << Notice >> \in Seq(Items)
      /\ << 1, 2 >> \in Seq(Items) /\ << 1, 4 >> \in Seq(Items)
  BY <1>2
<1>4. a.wire \in { << >>, << 1 >>, << 2 >>, << 3 >>, << 5 >>, << Notice >>,
                   << 1, 2 >>, << 1, 4 >> }
  BY <1>1, Zenon DEF Answer, FtpAnswer
<1>5. a.up \in BOOLEAN
  BY <1>1, Zenon DEF Answer, FtpAnswer
<1>6. a.session \in { "none", "A", "I" }
  BY <1>1 DEF Answer, FtpAnswer
<1>7. QED
  BY <1>3, <1>4, <1>5, <1>6

-----------------------------------------------------------------------------
(* The list of connections leads to the same hosts and sockets in both.    *)
SameList(f, g) ==
  /\ g \in Ftps /\ g.connections = f.connections /\ g.control = f.control
  /\ \A c \in ConnectionIds :
       g.cons[c].host = f.cons[c].host /\ g.cons[c].socket = f.cons[c].socket

LEMMA SameListFits ==
  ASSUME NEW f, FtpFits(f), NEW g, SameList(f, g)
  PROVE  /\ FtpFits(g) /\ (g.control # Null => FTP!Control(g).socket = FTP!Control(f).socket)
         /\ g.master_socket = f.master_socket => FtpSockets(g) = FtpSockets(f)
<1>1. f \in Ftps /\ g \in Ftps
  BY DEF SameList, FtpFits
<1>2. f.connections \in Seq(ConnectionIds) /\ f.control \in ConnectionIds \cup { Null }
  BY <1>1 DEF Ftps
<1>3. \A i \in DOMAIN f.connections : f.connections[i] \in ConnectionIds
  BY <1>2
<1>4. \A i \in DOMAIN f.connections : HostOf(g, i) = HostOf(f, i)
  BY <1>3 DEF SameList, HostOf
<1>5. FtpFits(g)
  BY <1>1, <1>4 DEF SameList, FtpFits
<1>6. FtpSockets(f) = { g.cons[g.connections[i]].socket : i \in DOMAIN g.connections }
                        \cup { f.master_socket }
  BY <1>3 DEF FtpSockets, SameList
<1>7. QED
  BY <1>2, <1>5, <1>6 DEF SameList, FTP!Control, FtpSockets

LEMMA FlagFits ==
  ASSUME NEW f \in Ftps, NEW c \in ConnectionIds, NEW flag \in BOOLEAN
  PROVE  /\ SameList(f, [ f EXCEPT !.cons[c].owes = flag ])
         /\ SameList(f, [ f EXCEPT !.cons[c].binary = flag ])
<1> SUFFICES ASSUME NEW field \in { "owes", "binary" },
                    NEW g, g = [ f EXCEPT !.cons[c] = [ f.cons[c] EXCEPT ![field] = flag ] ]
             PROVE  SameList(f, g)
  OBVIOUS
<1>1. /\ f.cons \in [ ConnectionIds -> FTP!Connections ]
      /\ [ f.cons[c] EXCEPT ![field] = flag ] \in FTP!Connections
  BY DEF Ftps, FTP!Connections
<1>2. g \in Ftps
  BY <1>1 DEF Ftps
<1>3. QED
  BY <1>1, <1>2 DEF SameList, FTP!Connections

Unlisted(f) ==
  IF f.connections # << >> /\ Head(f.connections) = f.control
  THEN [ f EXCEPT !.connections = Tail(@) ] ELSE f

LEMMA UnlistedFits ==
  ASSUME NEW f, FtpFits(f), f.control # Null
  PROVE  /\ FtpFits(Unlisted(f))
         /\ Unlisted(f) = [ f EXCEPT !.connections = Unlisted(f).connections ]
         /\ FtpSockets(f) \subseteq FtpSockets(Unlisted(f)) \cup { FTP!Control(f).socket }
         /\ \A i \in DOMAIN Unlisted(f).connections :
              Unlisted(f).connections[i] # f.control
<1>1. f \in Ftps /\ f.connections \in Seq(ConnectionIds)
  BY DEF Ftps, FtpFits
<1>2. CASE f.connections # << >> /\ Head(f.connections) = f.control
  <2> DEFINE g == [ f EXCEPT !.connections = Tail(@) ]
             t == Tail(f.connections)
  <2>1. Unlisted(f) = g
    BY <1>2 DEF Unlisted
  <2>2. /\ t \in Seq(ConnectionIds) /\ Len(t) = Len(f.connections) - 1
        /\ Len(f.connections) \in Nat /\ Len(f.connections) >= 1
        /\ DOMAIN f.connections = 1 .. Len(f.connections) /\ DOMAIN t = 1 .. Len(t)
        /\ \A i \in DOMAIN t : t[i] = f.connections[i + 1]
        /\ f.connections[1] = f.control
    BY <1>1, <1>2
  <2>3. \A i \in DOMAIN t : i + 1 \in DOMAIN f.connections /\ i + 1 # 1
    BY <2>2
  <2>4. /\ g \in Ftps /\ g.connections = t /\ g.control = f.control /\ g.cons = f.cons
        /\ g.master_socket = f.master_socket
    BY <1>1, <2>2 DEF Ftps
  <2> HIDE DEF g, t
  <2>5. \A i \in DOMAIN t : HostOf(g, i) = HostOf(f, i + 1)
    BY <2>2, <2>4 DEF HostOf
  <2>6. \A i \in DOMAIN t : t[i] # f.control
    BY <2>2, <2>3 DEF FtpFits
  <2>7. \A i, j \in DOMAIN t : HostOf(g, i) = HostOf(g, j) => i = j
    <3>1. SUFFICES ASSUME NEW i \in DOMAIN t, NEW j \in DOMAIN t, HostOf(g, i) = HostOf(g, j)
                   PROVE  i = j
      OBVIOUS
    <3>2. HostOf(f, i + 1) = HostOf(f, j + 1)
      BY <2>5, <3>1
    <3>3. i + 1 = j + 1
      BY <2>3, <3>2 DEF FtpFits
    <3>4. QED
      BY <2>2, <3>3
  <2>8. \A i \in DOMAIN t : HostOf(g, i) \in FtpHosts
    BY <2>3, <2>5 DEF FtpFits
  <2>9. FtpFits(g)
    BY <2>4, <2>6, <2>7, <2>8 DEF FtpFits
  <2>10. FtpSockets(f) \subseteq FtpSockets(g) \cup { FTP!Control(f).socket }
    <3>1. ASSUME NEW i \in DOMAIN f.connections
          PROVE  f.cons[f.connections[i]].socket \in FtpSockets(g) \cup { FTP!Control(f).socket }
      <4>1. CASE i = 1
        BY <2>2, <4>1 DEF FTP!Control
      <4>2. CASE i # 1
        <5>1. i - 1 \in DOMAIN t /\ t[i - 1] = f.connections[i]
          BY <2>2, <4>2
        <5>2. QED
          BY <2>4, <5>1 DEF FtpSockets
      <4>3. QED
        BY <4>1, <4>2
    <3>2. QED
      BY <2>4, <3>1 DEF FtpSockets
  <2>11. Unlisted(f) = [ f EXCEPT !.connections = Unlisted(f).connections ]
    BY <2>1, <2>4 DEF g, t
  <2>12. QED
    BY <2>1, <2>4, <2>6, <2>9, <2>10, <2>11
<1>3. CASE ~ (f.connections # << >> /\ Head(f.connections) = f.control)
  <2>1. Unlisted(f) = f
    BY <1>3 DEF Unlisted
  <2>2. \A i \in DOMAIN f.connections : f.connections[i] # f.control
    BY <1>1, <1>3 DEF FtpFits
  <2>3. f = [ f EXCEPT !.connections = f.connections ]
    BY <1>1 DEF Ftps
  <2>4. QED
    BY <2>1, <2>2, <2>3
<1>4. QED
  BY <1>2, <1>3

LEMMA FtpClosed ==
  ASSUME NEW n, NEW f, FtpFits(f), f.control # Null
  PROVE  LET c == FTP!close_connection(n, f)
         IN  /\ c = [ net |-> Close(n, FTP!Control(f).socket), ftp |-> Unlisted(f) ]
             /\ c.net = Close(n, FTP!Control(f).socket) /\ c.ftp = Unlisted(f)
<1>1. f.connections \in Seq(ConnectionIds)
  BY DEF Ftps, FtpFits
<1>2. CASE f.connections # << >> /\ Head(f.connections) = f.control
  BY <1>2, FtpInput DEF FTP!close_connection, Unlisted
<1>3. CASE ~ (f.connections # << >> /\ Head(f.connections) = f.control)
  <2>1. f.control \notin FTP!Range(f.connections)
    BY <1>1, <1>3 DEF FtpFits, FTP!Range
  <2>2. QED
    BY <1>3, <2>1, FtpInput DEF FTP!close_connection, Unlisted
<1>4. QED
  BY <1>2, <1>3

(* The three ways a command goes: it cannot be written, it is written to a *)
(* server that has gone, or the server answers.                            *)
CommandLost(n, f, o) ==
  LET fd == FTP!Control(f).socket
  IN  /\ o.net = Close(n, fd) /\ o.ftp = [ Unlisted(f) EXCEPT !.lost = TRUE ]
      /\ ~ (IsOpen(n, fd) /\ n.sockets[fd].up /\ n.sockets[fd].peer # "listener")

CommandUnheard(n, f, o) ==
  LET fd == FTP!Control(f).socket
  IN  o.net = n /\ o.ftp = f /\ IsOpen(n, fd) /\ ~ n.sockets[fd].up

CommandAnswered(n, f, cmd, o) ==
  LET fd == FTP!Control(f).socket
      it == n.sockets[fd]
  IN  /\ IsOpen(n, fd) /\ it.up /\ o.ftp = f
      /\ \E a : /\ FtpAnswer(cmd, it.session, a)
                /\ a.wire \in Seq(Items) /\ a.up \in BOOLEAN /\ a.session \in { "none", "A", "I" }
                /\ o.net = With(n, fd, [ it EXCEPT !.wire = @ \o a.wire,
                                           !.up = a.up, !.session = a.session ])

LEMMA FtpCommandGoes ==
  ASSUME NEW n \in Nets(Hosts), NEW f, FtpFits(f), f.control # Null,
         NEW cmd \in FtpCommands, NEW o \in FTP!Command(n, f, cmd)
  PROVE  CommandLost(n, f, o) \/ CommandUnheard(n, f, o) \/ CommandAnswered(n, f, cmd, o)
<1> DEFINE fd == FTP!Control(f).socket
           it == n.sockets[fd]
           next(a) == [ it EXCEPT !.wire = @ \o a.wire, !.up = a.up, !.session = a.session ]
<1>1. PICK w \in FTP!Write(n, fd, LAMBDA peer, session : FTP!FtpServer(cmd, peer, session)) :
        o = IF w.sent THEN [ net |-> w.net, ftp |-> f ]
            ELSE [ FTP!close_connection(w.net, f) EXCEPT !.ftp.lost = TRUE ]
  BY FtpInput DEF FTP!Command
<1>2. ASSUME w.net = n, ~ w.sent,
             ~ (IsOpen(n, fd) /\ n.sockets[fd].up /\ n.sockets[fd].peer # "listener")
      PROVE  CommandLost(n, f, o)
  <2>1. FTP!close_connection(n, f) = [ net |-> Close(n, fd), ftp |-> Unlisted(f) ]
    BY FtpClosed
  <2>2. o = [ [ net |-> Close(n, fd), ftp |-> Unlisted(f) ] EXCEPT !.ftp.lost = TRUE ]
    BY <1>1, <1>2, <2>1
  <2>3. o.net = Close(n, fd) /\ o.ftp = [ Unlisted(f) EXCEPT !.lost = TRUE ]
    BY <2>2
  <2>4. QED
    BY <1>2, <2>3 DEF CommandLost
<1>3. CASE ~ IsOpen(n, fd) \/ it.peer = "listener"
  <2>1. w = [ sent |-> FALSE, net |-> n ]
    BY <1>1, <1>3, FtpInput DEF FTP!Write
  <2>2. QED
    BY <1>2, <1>3, <2>1
<1>4. CASE IsOpen(n, fd) /\ it.peer # "listener" /\ it.up
  <2>1. PICK a \in FTP!FtpServer(cmd, it.peer, it.session) :
          w = [ sent |-> TRUE, net |-> With(n, fd, next(a)) ]
    BY <1>1, <1>4, FtpInput DEF FTP!Write
  <2>2. it.session \in { "none", "A", "I" }
    BY <1>4 DEF Nets, Sockets, IsOpen
  <2>3. /\ FtpAnswer(cmd, it.session, a)
        /\ a.wire \in Seq(Items) /\ a.up \in BOOLEAN /\ a.session \in { "none", "A", "I" }
    BY <2>2, FtpAnswers, FtpAnswersFit
  <2>4. w.sent /\ w.net = With(n, fd, next(a))
    BY <2>1
  <2>5. o.ftp = f /\ o.net = With(n, fd, next(a))
    BY <1>1, <2>4
  <2>6. CommandAnswered(n, f, cmd, o)
    BY <1>4, <2>3, <2>5 DEF CommandAnswered
  <2>7. QED
    BY <2>6
<1>5. CASE IsOpen(n, fd) /\ it.peer # "listener" /\ ~ it.up
  <2>1. w \in [ sent : BOOLEAN, net : { n } ]
    BY <1>1, <1>5, FtpInput DEF FTP!Write
  <2>2. w.net = n /\ w.sent \in BOOLEAN
    BY <2>1
  <2>3. CASE ~ w.sent
    BY <1>2, <1>5, <2>2, <2>3
  <2>4. CASE w.sent
    BY <1>1, <1>5, <2>2, <2>4 DEF CommandUnheard
  <2>5. QED
    BY <2>2, <2>3, <2>4
<1>6. QED
  BY <1>3, <1>4, <1>5

(* What goes on over a control connection leaves the rest as it is.        *)
FtpStep(n, f, m, g) ==
  /\ m \in Nets(Hosts) /\ FtpFits(g) /\ m.fd = n.fd
  /\ g.control = f.control /\ g.cons = f.cons /\ g.master_socket = f.master_socket
  /\ g.retry = f.retry /\ g.fresh = f.fresh /\ g.source = f.source
  /\ \A B : Covers(n, FtpSockets(f) \cup B) => Covers(m, FtpSockets(g) \cup B)

LEMMA FtpCloseSteps ==
  ASSUME NEW n \in Nets(Hosts), NEW f, FtpFits(f), f.control # Null,
         NEW lost \in BOOLEAN,
         NEW g \in { Unlisted(f), [ Unlisted(f) EXCEPT !.lost = lost ] }
  PROVE  FtpStep(n, f, Close(n, FTP!Control(f).socket), g)
<1> DEFINE fd == FTP!Control(f).socket
           u == Unlisted(f)
<1>1. g = u \/ g = [ u EXCEPT !.lost = lost ]
  OBVIOUS
<1>2. /\ FtpFits(u) /\ f \in Ftps /\ u \in Ftps
      /\ u = [ f EXCEPT !.connections = u.connections ]
      /\ FtpSockets(f) \subseteq FtpSockets(u) \cup { fd }
  BY UnlistedFits DEF FtpFits
<1>3. /\ u.control = f.control /\ u.cons = f.cons /\ u.master_socket = f.master_socket
      /\ u.retry = f.retry /\ u.fresh = f.fresh /\ u.source = f.source
  BY <1>2 DEF Ftps
<1> HIDE DEF u
<1>4. /\ g \in Ftps /\ g.connections = u.connections
      /\ g.control = f.control /\ g.cons = f.cons /\ g.master_socket = f.master_socket
      /\ g.retry = f.retry /\ g.fresh = f.fresh /\ g.source = f.source
  <2>1. CASE g = u
    BY <1>2, <1>3, <2>1
  <2>2. CASE g = [ u EXCEPT !.lost = lost ]
    BY <1>2, <1>3, <2>2 DEF Ftps
  <2>3. QED
    BY <1>1, <2>1, <2>2
<1>5. FtpFits(g) /\ FtpSockets(g) = FtpSockets(u)
  BY <1>2, <1>3, <1>4, SameListFits DEF SameList
<1>6. ASSUME NEW B, Covers(n, FtpSockets(f) \cup B)
      PROVE  Covers(Close(n, fd), FtpSockets(g) \cup B)
  <2>1. Covers(Close(n, fd), (FtpSockets(f) \cup B) \ { fd })
    BY <1>6, CloseCovers
  <2>2. QED
    BY <1>2, <1>5, <2>1 DEF Covers
<1>7. Close(n, fd) \in Nets(Hosts) /\ Close(n, fd).fd = n.fd
  BY CloseFits
<1>8. QED
  BY <1>4, <1>5, <1>6, <1>7 DEF FtpStep

LEMMA FtpCommandSteps ==
  ASSUME NEW n \in Nets(Hosts), NEW f, FtpFits(f), f.control # Null,
         NEW cmd \in FtpCommands, NEW o \in FTP!Command(n, f, cmd)
  PROVE  FtpStep(n, f, o.net, o.ftp)
<1> DEFINE fd == FTP!Control(f).socket
           it == n.sockets[fd]
<1>1. CASE CommandLost(n, f, o)
  <2>1. FtpStep(n, f, Close(n, fd), [ Unlisted(f) EXCEPT !.lost = TRUE ])
    <3> DEFINE b == TRUE
    <3>1. b \in BOOLEAN
      OBVIOUS
    <3> HIDE DEF b
    <3>2. FtpStep(n, f, Close(n, fd), [ Unlisted(f) EXCEPT !.lost = b ])
      BY <3>1, FtpCloseSteps
    <3>3. QED
      BY <3>2 DEF b
  <2>2. QED
    BY <1>1, <2>1, Zenon DEF CommandLost
<1>2. CASE CommandUnheard(n, f, o)
  BY <1>2 DEF CommandUnheard, FtpStep
<1>3. CASE CommandAnswered(n, f, cmd, o)
  <2>1. PICK a : /\ a.wire \in Seq(Items) /\ a.up \in BOOLEAN
                 /\ a.session \in { "none", "A", "I" }
                 /\ o.net = With(n, fd, [ it EXCEPT !.wire = @ \o a.wire,
                                            !.up = a.up, !.session = a.session ])
    BY <1>3 DEF CommandAnswered
  <2>2. o.ftp = f /\ IsOpen(n, fd) /\ fd \in Fds /\ it \in Sockets(Hosts)
    BY <1>3 DEF CommandAnswered, IsOpen, Nets
  <2> DEFINE next == [ it EXCEPT !.wire = @ \o a.wire, !.up = a.up, !.session = a.session ]
  <2>3. next \in Sockets(Hosts) /\ next.peer = it.peer
    <3>1. it.wire \o a.wire \in Seq(Items)
      BY <2>1, <2>2, ConcatProperties DEF Sockets
    <3>2. QED
      BY <2>1, <2>2, <3>1 DEF Sockets
  <2>4. o.net = With(n, fd, next)
    BY <2>1
  <2> HIDE DEF next
  <2>5. /\ o.net \in Nets(Hosts) /\ o.net.fd = n.fd
        /\ \A A : Covers(n, A) => Covers(o.net, A)
    <3>1. With(n, fd, next) \in Nets(Hosts) /\ With(n, fd, next).fd = n.fd
      BY <2>2, <2>3, WithFits
    <3>2. \A A : Covers(n, A) => Covers(With(n, fd, next), A)
      BY <2>2, <2>3, WithCovers
    <3>3. QED
      BY <2>4, <3>1, <3>2
  <2>6. QED
    BY <2>2, <2>5 DEF FtpStep
<1>4. QED
  BY <1>1, <1>2, <1>3, FtpCommandGoes

(* The two ways a reply comes: there is none, and the connection is closed *)
(* if it was not before, or it is read.                                    *)
ReplyNone(n, f, r) ==
  /\ r.digit = -1
  /\ \/ f.lost /\ r.net = n /\ r.ftp = [ f EXCEPT !.lost = FALSE ]
     \/ /\ ~ f.lost /\ r.ftp = Unlisted(f)
        /\ \E o \in HTGetChararcter(n) :
             o.item \notin 1 .. 5 /\ r.net = Close(o.net, FTP!Control(f).socket)

ReplyRead(n, f, r) ==
  /\ r.digit \in 0 .. 5 /\ ~ f.lost /\ r.ftp = f
  /\ \E o \in HTGetChararcter(n) :
       /\ o.item \notin { EOF, Notice } /\ r.net = o.net
       /\ o.item \in 1 .. 5 => r.digit = o.item

LEMMA FtpReplyComes ==
  ASSUME NEW n \in Nets(Hosts), NEW f, FtpFits(f), f.control # Null,
         NEW r \in FTP!Reply(n, f)
  PROVE  ReplyNone(n, f, r) \/ ReplyRead(n, f, r)
<1> DEFINE fd == FTP!Control(f).socket
<1>1. CASE f.lost
  <2>1. r = [ digit |-> -1, net |-> n, ftp |-> [ f EXCEPT !.lost = FALSE ] ]
    BY <1>1 DEF FTP!Reply
  <2>2. QED
    BY <1>1, <2>1 DEF ReplyNone
<1>2. CASE ~ f.lost
  <2>1. PICK o \in HTGetChararcter(n) :
          \E number \in IF o.item = EOF THEN { EOF } ELSE NumbersOf(o.item) :
            r = IF number \in { EOF, Notice }
                THEN LET closed == FTP!close_connection(o.net, f)
                     IN  [ digit |-> -1, net |-> closed.net, ftp |-> closed.ftp ]
                ELSE [ digit |-> number, net |-> o.net, ftp |-> f ]
    BY <1>2, FtpInput DEF FTP!Reply
  <2>2. PICK number \in IF o.item = EOF THEN { EOF } ELSE NumbersOf(o.item) :
            r = IF number \in { EOF, Notice }
                THEN LET closed == FTP!close_connection(o.net, f)
                     IN  [ digit |-> -1, net |-> closed.net, ftp |-> closed.ftp ]
                ELSE [ digit |-> number, net |-> o.net, ftp |-> f ]
    BY <2>1
  <2>3. CASE number \in { EOF, Notice }
    <3>1. r.digit = -1 /\ r.net = Close(o.net, fd) /\ r.ftp = Unlisted(f)
      BY <2>2, <2>3, FtpClosed
    <3>2. o.item \notin 1 .. 5
      BY <2>2, <2>3 DEF NumbersOf, EOF, Notice
    <3>3. QED
      BY <1>2, <3>1, <3>2 DEF ReplyNone
  <2>4. CASE number \notin { EOF, Notice }
    <3>1. r.digit = number /\ r.net = o.net /\ r.ftp = f
      BY <2>2, <2>4
    <3>2. o.item # EOF /\ number \in NumbersOf(o.item)
      BY <2>2, <2>4
    <3>3. number \in 0 .. 5 /\ (o.item \in 1 .. 5 => number = o.item) /\ o.item # Notice
      BY <2>4, <3>2 DEF NumbersOf, EOF, Notice
    <3>4. QED
      BY <1>2, <3>1, <3>2, <3>3 DEF ReplyRead
  <2>5. QED
    BY <2>3, <2>4
<1>3. f.lost \in BOOLEAN
  BY DEF FtpFits, Ftps
<1>4. QED
  BY <1>1, <1>2, <1>3

LEMMA GetCovers ==
  ASSUME NEW n \in Nets(Hosts), NEW o \in HTGetChararcter(n)
  PROVE  /\ \A fd \in Fds : IsOpen(o.net, fd) => IsOpen(n, fd)
         /\ \A A : Covers(n, A) => Covers(o.net, A)
<1>1. /\ \A g \in Fds : /\ o.net.sockets[g].peer = n.sockets[g].peer
                        /\ g # n.fd => o.net.sockets[g] = n.sockets[g]
      /\ ~ IsOpen(n, n.fd) => o.net.sockets = n.sockets
  BY GetFits
<1>2. ASSUME NEW fd \in Fds, IsOpen(o.net, fd)
      PROVE  IsOpen(n, fd)
  <2>1. CASE o.net.sockets[fd] = n.sockets[fd]
    BY <1>2, <2>1 DEF IsOpen
  <2>2. CASE o.net.sockets[fd] # n.sockets[fd]
    <3>1. fd = n.fd /\ IsOpen(n, n.fd)
      BY <1>1, <2>2
    <3>2. QED
      BY <3>1
  <2>3. QED
    BY <2>1, <2>2
<1>3. \A fd \in Fds : o.net.sockets[fd].peer = n.sockets[fd].peer
  BY <1>1
<1>4. QED
  BY <1>2, <1>3 DEF Covers

LEMMA FtpReplySteps ==
  ASSUME NEW n \in Nets(Hosts), NEW f, FtpFits(f), f.control # Null,
         NEW r \in FTP!Reply(n, f)
  PROVE  FtpStep(n, f, r.net, r.ftp) /\ r.digit \in -1 .. 5
<1>1. CASE ReplyNone(n, f, r) /\ f.lost
  <2>1. r.digit = -1 /\ r.net = n /\ r.ftp = [ f EXCEPT !.lost = FALSE ]
    BY <1>1 DEF ReplyNone
  <2>2. f \in Ftps
    BY DEF FtpFits
  <2>3. /\ r.ftp \in Ftps /\ r.ftp.connections = f.connections /\ r.ftp.control = f.control
        /\ r.ftp.cons = f.cons /\ r.ftp.master_socket = f.master_socket
        /\ r.ftp.retry = f.retry /\ r.ftp.fresh = f.fresh /\ r.ftp.source = f.source
    BY <2>1, <2>2 DEF Ftps
  <2>4. FtpFits(r.ftp) /\ FtpSockets(r.ftp) = FtpSockets(f)
    <3>1. SameList(f, r.ftp)
      BY <2>3 DEF SameList
    <3>2. QED
      BY <2>3, <3>1, SameListFits, Zenon
  <2>5. r.digit = -1 /\ r.net = n
    BY <2>1
  <2>6. QED
    BY <2>3, <2>4, <2>5 DEF FtpStep
<1>2. CASE ReplyNone(n, f, r) /\ ~ f.lost
  <2>1. PICK o \in HTGetChararcter(n) : r.net = Close(o.net, FTP!Control(f).socket)
    BY <1>2 DEF ReplyNone
  <2>2. r.digit = -1 /\ r.ftp = Unlisted(f)
    BY <1>2 DEF ReplyNone
  <2>4. o.net \in Nets(Hosts) /\ o.net.fd = n.fd /\ \A A : Covers(n, A) => Covers(o.net, A)
    BY GetFits, GetCovers
  <2>5. FtpStep(o.net, f, r.net, r.ftp)
    <3>1. FtpStep(o.net, f, Close(o.net, FTP!Control(f).socket), Unlisted(f))
      BY <2>4, FtpCloseSteps, Zenon
    <3>2. QED
      BY <2>1, <2>2, <3>1
  <2>6. QED
    BY <2>2, <2>4, <2>5 DEF FtpStep
<1>3. CASE ReplyRead(n, f, r)
  <2>1. PICK o \in HTGetChararcter(n) : r.net = o.net
    BY <1>3 DEF ReplyRead
  <2>2. r.digit \in 0 .. 5 /\ r.ftp = f
    BY <1>3 DEF ReplyRead
  <2>3. o.net \in Nets(Hosts) /\ o.net.fd = n.fd /\ \A A : Covers(n, A) => Covers(o.net, A)
    BY GetFits, GetCovers
  <2>4. QED
    BY <2>1, <2>2, <2>3 DEF FtpStep
<1>4. QED
  BY <1>1, <1>2, <1>3, FtpReplyComes

LEMMA FtpStepsCompose ==
  ASSUME NEW n, NEW f, NEW m, NEW g, NEW o, NEW h, FtpStep(n, f, m, g), FtpStep(m, g, o, h)
  PROVE  FtpStep(n, f, o, h)
BY DEF FtpStep

(* What a step within an FTP load leads to.                                *)
FtpReaches(n, f) ==
  /\ n \in Nets(Hosts) /\ FtpFits(f)
  /\ \A B : Covers(net, FtpSockets(ftp) \cup B) => Covers(n, FtpSockets(f) \cup B)

LEMMA FtpMoves ==
  ASSUME Inv, pc \in FtpBusy \cup { "ftp" }, UNCHANGED << news, http, gopher, request >>,
         NEW n \in Nets(Hosts), NEW f, FtpFits(f), net' = n, ftp' = f,
         pc' \in FtpBusy \cup { "ftp", "return" }, pc' \in FtpBusy => f.control # Null,
         status' \in Int, text' \in BOOLEAN,
         (pc' = "return" => status' = HT_LOADED) => FtpReaches(n, f)
  PROVE  Inv'
<1>1. request' = request /\ news' = news /\ http' = http /\ gopher' = gopher
  OBVIOUS
<1>2. FtpFits(ftp') /\ ftp' \in Ftps /\ net' \in Nets(Hosts)
  BY DEF FtpFits
<1>3. TypeOK'
  <2>1. FTP!FtpOK'
    BY <1>2, FtpInput DEF FTP!FtpOK, Ftps
  <2>2. News!NewsOK' /\ Web!HttpOK' /\ Gopher!GopherOK'
    BY <1>1 DEF Inv, TypeOK, News!NewsOK, Web!HttpOK, Gopher!GopherOK
  <2>3. pc' \in Labels
    BY DEF Labels, Reading, FtpBusy, FtpAsks
  <2>4. QED
    BY <1>2, <2>1, <2>2, <2>3 DEF TypeOK
<1>4. ASSUME pc' = "return" => status' = HT_LOADED
      PROVE  Covers(net', request'.open \cup Owned')
  <2> DEFINE B == request.open \cup { news.s, http.s, gopher.s }
  <2>1. Covers(net, request.open \cup Owned)
    BY DEF Inv, FtpBusy, FtpAsks, Stopped
  <2>2. request.open \cup Owned = FtpSockets(ftp) \cup B
    BY DEF Owned
  <2>3. request'.open \cup Owned' = FtpSockets(f) \cup B
    BY <1>1 DEF Owned
  <2> HIDE DEF B
  <2>4. QED
    BY <1>4, <2>1, <2>2, <2>3 DEF FtpReaches
<1>5. QED
  BY <1>1, <1>2, <1>3, <1>4 DEF Inv, RequestFits, LinkFits, FtpBusy, FtpAsks,
                                NewsBusy,
     HttpBusy, GopherBusy, Stopped

LEMMA FtpGoes ==
  ASSUME Inv, pc \in FtpBusy \cup { "ftp" }, UNCHANGED << news, http, gopher >>,
         NEW n, NEW f, FtpReaches(n, f), NEW label \in FtpBusy \cup { "ftp" },
         f.control = Null => label = "ftp", FTP!Goto(n, f, label)
  PROVE  Inv'
<1>1. net' = n /\ ftp' = f /\ pc' = label /\ UNCHANGED << request, status, text >>
  BY DEF FTP!Goto
<1>2. status' \in Int /\ text' \in BOOLEAN
  BY <1>1 DEF Inv, TypeOK
<1>3. "ftp" \notin FtpBusy
  BY DEF FtpBusy, FtpAsks
<1>4. QED
  BY <1>1, <1>2, <1>3, FtpMoves DEF FtpReaches

LEMMA FtpReturns ==
  ASSUME Inv, pc \in FtpBusy \cup { "ftp" }, UNCHANGED << news, http, gopher >>,
         NEW n, NEW f, FtpReaches(n, f), NEW value \in Int, FTP!Return(n, f, value)
  PROVE  Inv'
<1>1. /\ net' = n /\ ftp' = f /\ pc' = "return" /\ status' = value
      /\ UNCHANGED << request, text >>
  BY DEF FTP!Return
<1>2. text' \in BOOLEAN
  BY <1>1 DEF Inv, TypeOK
<1>3. "return" \notin FtpBusy
  BY DEF FtpBusy, FtpAsks
<1>4. QED
  BY <1>1, <1>2, <1>3, FtpMoves DEF FtpReaches

LEMMA FtpFails ==
  ASSUME Inv, pc \in FtpBusy \cup { "ftp" }, UNCHANGED << news, http, gopher >>,
         NEW n \in Nets(Hosts), NEW f, FtpFits(f), FTP!Return(n, f, FTP!Failed)
  PROVE  Inv'
<1>1. /\ net' = n /\ ftp' = f /\ pc' = "return" /\ status' = FTP!Failed
      /\ UNCHANGED << request, text >>
  BY DEF FTP!Return
<1>2. text' \in BOOLEAN /\ FTP!Failed \in Int /\ FTP!Failed # HT_LOADED
  BY <1>1 DEF Inv, TypeOK, FTP!Failed, HT_LOADED
<1>3. "return" \notin FtpBusy
  BY DEF FtpBusy, FtpAsks
<1>4. QED
  BY <1>1, <1>2, <1>3, FtpMoves

LEMMA FtpWaits ==
  ASSUME Inv, pc \in FtpBusy \cup { "ftp" }, UNCHANGED << news, http, gopher >>,
         NEW n, NEW f, FtpReaches(n, f), f.control # Null, NEW cmd \in FtpCommands,
         NEW label \in FtpAsks, FTP!Ask(n, f, cmd, label)
  PROVE  Inv'
<1>1. PICK o \in FTP!Command(n, f, cmd) : FTP!Goto(o.net, o.ftp, label)
  BY DEF FTP!Ask
<1>2. n \in Nets(Hosts) /\ FtpFits(f)
  BY DEF FtpReaches
<1>3. FtpStep(n, f, o.net, o.ftp)
  BY <1>2, FtpCommandSteps
<1>4. FtpReaches(o.net, o.ftp) /\ o.ftp.control # Null
  BY <1>3 DEF FtpReaches, FtpStep
<1>5. label \in FtpBusy \cup { "ftp" }
  BY DEF FtpBusy
<1>6. QED
  BY <1>1, <1>4, <1>5, FtpGoes

LEMMA FtpReplied ==
  ASSUME Inv, pc \in FtpBusy, NEW r \in FTP!Reply(net, ftp)
  PROVE  FtpReaches(r.net, r.ftp) /\ r.ftp.control # Null /\ r.digit \in -1 .. 5
<1>1. net \in Nets(Hosts) /\ FtpFits(ftp) /\ ftp.control # Null
  BY DEF Inv, TypeOK
<1>2. FtpStep(net, ftp, r.net, r.ftp) /\ r.digit \in -1 .. 5
  BY <1>1, FtpReplySteps
<1>3. QED
  BY <1>1, <1>2 DEF FtpReaches, FtpStep

LEMMA SameListReaches ==
  ASSUME NEW n, NEW f, FtpReaches(n, f), NEW g, SameList(f, g),
         g.master_socket = f.master_socket
  PROVE  FtpReaches(n, g)
<1>1. FtpFits(g) /\ FtpSockets(g) = FtpSockets(f)
  BY SameListFits DEF FtpReaches
<1>2. QED
  BY <1>1 DEF FtpReaches
LEMMA LoginFails ==
  ASSUME Inv, pc \in FtpBusy, UNCHANGED << news, http, gopher >>,
         NEW r \in FTP!Reply(net, ftp), FTP!LoginFailed(r)
  PROVE  Inv'
<1>1. FtpReaches(r.net, r.ftp) /\ r.ftp.control # Null
  BY FtpReplied
<1> DEFINE m == Close(r.net, FTP!Control(r.ftp).socket)
           g == Unlisted(r.ftp)
<1>2. r.net \in Nets(Hosts) /\ FtpFits(r.ftp)
  BY <1>1 DEF FtpReaches
<1>3. FTP!Return(m, g, FTP!Failed)
  BY <1>1, <1>2, FtpClosed, FtpInput DEF FTP!LoginFailed
<1>4. FtpReaches(m, g)
  <2>1. FtpStep(r.net, r.ftp, m, g)
    BY <1>1, <1>2, FtpCloseSteps, Zenon
  <2> HIDE DEF m, g
  <2>2. QED
    BY <1>1, <2>1 DEF FtpReaches, FtpStep
<1> HIDE DEF m, g
<1>5. FTP!Failed \in Int
  BY DEF FTP!Failed
<1>6. QED
  BY <1>3, <1>4, <1>5, FtpReturns

LEMMA FtpOnReply ==
  ASSUME Inv, pc \in FtpBusy, UNCHANGED << news, http, gopher >>,
         NEW r \in FTP!Reply(net, ftp)
  PROVE  /\ \A label \in FtpBusy : FTP!Goto(r.net, r.ftp, label) => Inv'
         /\ \A value \in Int : FTP!Return(r.net, r.ftp, value) => Inv'
         /\ \A cmd \in FtpCommands, label \in FtpAsks :
              FTP!Ask(r.net, r.ftp, cmd, label) => Inv'
         /\ FTP!LoginFailed(r) => Inv'
         /\ r.digit \in Int
<1>1. FtpReaches(r.net, r.ftp) /\ r.ftp.control # Null /\ r.digit \in Int
  BY FtpReplied
<1>2. ASSUME NEW label \in FtpBusy, FTP!Goto(r.net, r.ftp, label)
      PROVE  Inv'
  BY <1>1, <1>2, FtpGoes
<1>3. ASSUME NEW value \in Int, FTP!Return(r.net, r.ftp, value)
      PROVE  Inv'
  BY <1>1, <1>3, FtpReturns
<1>4. ASSUME NEW cmd \in FtpCommands, NEW label \in FtpAsks, FTP!Ask(r.net, r.ftp, cmd, label)
      PROVE  Inv'
  BY <1>1, <1>4, FtpWaits
<1>5. FTP!LoginFailed(r) => Inv'
  BY LoginFails
<1>6. QED
  BY <1>1, <1>2, <1>3, <1>4, <1>5

LEMMA GreetingKeepsInv ==
  ASSUME Inv, FTP!Greeting, UNCHANGED << news, http, gopher >>
  PROVE  Inv'
<1>1. PICK r \in FTP!Reply(net, ftp) :
        \/ FTP!Ask(r.net, r.ftp, "USER", "user") \/ FTP!Ask(r.net, r.ftp, "PASS", "pass")
        \/ FTP!LoginFailed(r)
  BY Zenon DEF FTP!Greeting, FTP!OnReply
<1>2. pc \in FtpBusy
  BY DEF FTP!Greeting, FTP!OnReply, FtpBusy, FtpAsks
<1>3. { "USER", "PASS" } \subseteq FtpCommands /\ { "user", "pass" } \subseteq FtpAsks
  BY DEF FtpCommands, FtpAsks
<1>4. QED
  BY <1>1, <1>2, <1>3, FtpOnReply

LEMMA LoginReplyKeepsInv ==
  ASSUME Inv, NEW label \in FtpAsks, NEW cmd \in FtpCommands \cup { "none" }, NEW next,
         cmd # "none" => next \in FtpAsks,
         FTP!LoginReply(label, cmd, next), UNCHANGED << news, http, gopher >>
  PROVE  Inv'
<1>1. PICK r \in FTP!Reply(net, ftp) :
        \/ FTP!Goto(r.net, r.ftp, "listen")
        \/ cmd # "none" /\ FTP!Ask(r.net, r.ftp, cmd, next)
        \/ FTP!LoginFailed(r)
  BY Zenon DEF FTP!LoginReply, FTP!OnReply
<1>2. pc \in FtpBusy /\ "listen" \in FtpBusy
  BY DEF FTP!LoginReply, FTP!OnReply, FtpBusy
<1>3. QED
  BY <1>1, <1>2, FtpOnReply

LEMMA RequestFileKeepsInv ==
  ASSUME Inv, pc \in FtpBusy, NEW r \in FTP!Reply(net, ftp),
         FTP!RequestFile(r.net, r.ftp), UNCHANGED << news, http, gopher >>
  PROVE  Inv'
<1>1. \/ FTP!Ask(r.net, r.ftp, FTP!ModeOf(request.binary), "type")
      \/ FTP!Ask(r.net, r.ftp, "RETR", "retr")
  BY DEF FTP!RequestFile
<1>2. FTP!ModeOf(request.binary) \in FtpCommands /\ "RETR" \in FtpCommands
  BY DEF FTP!ModeOf, FtpCommands
<1>3. { "type", "retr" } \subseteq FtpAsks
  BY DEF FtpAsks
<1>4. QED
  BY <1>1, <1>2, <1>3, FtpOnReply

LEMMA PortReplyKeepsInv ==
  ASSUME Inv, FTP!PortReply, UNCHANGED << news, http, gopher >>
  PROVE  Inv'
<1>1. pc \in FtpBusy
  BY DEF FTP!PortReply, FTP!OnReply, FtpBusy, FtpAsks
<1>2. PICK r \in FTP!Reply(net, ftp) :
        \/ FTP!RequestFile(r.net, r.ftp)
        \/ FTP!Goto(r.net, [ r.ftp EXCEPT !.retry = 1 ], "ftp")
        \/ FTP!Return(r.net, r.ftp, FTP!Failed)
        \/ FTP!Return(r.net, r.ftp, - r.digit)
  BY Zenon DEF FTP!PortReply, FTP!OnReply
<1>3. CASE FTP!RequestFile(r.net, r.ftp)
  BY <1>1, <1>3, RequestFileKeepsInv
<1>4. CASE FTP!Goto(r.net, [ r.ftp EXCEPT !.retry = 1 ], "ftp")
  <2> DEFINE g == [ r.ftp EXCEPT !.retry = 1 ]
  <2>1. FtpReaches(r.net, r.ftp)
    BY <1>1, FtpReplied
  <2>2. r.ftp \in Ftps
    BY <2>1 DEF FtpReaches, FtpFits
  <2>3. SameList(r.ftp, g) /\ g.master_socket = r.ftp.master_socket
    BY <2>2 DEF SameList, Ftps
  <2> HIDE DEF g
  <2>4. FtpReaches(r.net, g)
    BY <2>1, <2>3, SameListReaches
  <2>5. QED
    BY <1>1, <1>4, <2>4, FtpGoes DEF g
<1>5. CASE \/ FTP!Return(r.net, r.ftp, FTP!Failed)
           \/ FTP!Return(r.net, r.ftp, - r.digit)
  <2>1. FTP!Failed \in Int
    BY DEF FTP!Failed
  <2>2. r.digit \in Int
    BY <1>1, FtpOnReply
  <2>3. - r.digit \in Int
    BY <2>2
  <2>4. QED
    BY <1>1, <1>5, <2>1, <2>3, FtpOnReply
<1>6. QED
  BY <1>2, <1>3, <1>4, <1>5

LEMMA TypeReplyKeepsInv ==
  ASSUME Inv, FTP!TypeReply, UNCHANGED << news, http, gopher >>
  PROVE  Inv'
<1>1. pc \in FtpBusy
  BY DEF FTP!TypeReply, FTP!OnReply, FtpBusy, FtpAsks
<1>2. PICK r \in FTP!Reply(net, ftp) :
        \/ FTP!Ask(r.net, [ r.ftp EXCEPT !.cons[r.ftp.control].binary = request.binary ],
                   "RETR", "retr")
        \/ FTP!Return(r.net, r.ftp, - r.digit)
  BY Zenon DEF FTP!TypeReply, FTP!OnReply
<1>3. FtpReaches(r.net, r.ftp) /\ r.ftp.control # Null /\ r.digit \in Int
  BY <1>1, FtpReplied
<1>4. CASE FTP!Ask(r.net, [ r.ftp EXCEPT !.cons[r.ftp.control].binary = request.binary ],
                   "RETR", "retr")
  <2> DEFINE g == [ r.ftp EXCEPT !.cons[r.ftp.control].binary = request.binary ]
  <2>1. r.ftp \in Ftps /\ r.ftp.control \in ConnectionIds
    BY <1>3 DEF FtpReaches, FtpFits, Ftps
  <2>2. request.binary \in BOOLEAN
    BY <1>1 DEF Inv, RequestFits, FtpBusy, FtpAsks, Stopped
  <2>3. SameList(r.ftp, g) /\ g.master_socket = r.ftp.master_socket /\ g.control # Null
    BY <1>3, <2>1, <2>2 DEF SameList, Ftps, FTP!Connections
  <2> HIDE DEF g
  <2>4. FtpReaches(r.net, g)
    BY <1>3, <2>3, SameListReaches
  <2>5. "RETR" \in FtpCommands /\ "retr" \in FtpAsks
    BY DEF FtpCommands, FtpAsks
  <2>6. FTP!Ask(r.net, g, "RETR", "retr")
    BY <1>4 DEF g
  <2>7. QED
    BY <1>1, <2>3, <2>4, <2>5, <2>6, FtpWaits
<1>5. CASE FTP!Return(r.net, r.ftp, - r.digit)
  <2>1. - r.digit \in Int
    BY <1>3
  <2>2. QED
    BY <1>1, <1>5, <2>1, FtpOnReply
<1>6. QED
  BY <1>2, <1>4, <1>5

LEMMA TransferReplyKeepsInv ==
  ASSUME Inv, FTP!RetrReply \/ FTP!CwdReply \/ FTP!NlstReply \/ FTP!FinalReply,
         UNCHANGED << news, http, gopher >>
  PROVE  Inv'
<1>1. pc \in FtpBusy
  BY DEF FTP!RetrReply, FTP!CwdReply, FTP!NlstReply, FTP!FinalReply,
         FTP!OnReply,
     FtpBusy, FtpAsks
<1>2. PICK r \in FTP!Reply(net, ftp) :
        \/ FTP!Goto(r.net, r.ftp, "accept file") \/ FTP!Goto(r.net, r.ftp, "accept directory")
        \/ FTP!Ask(r.net, r.ftp, "CWD", "cwd") \/ FTP!Ask(r.net, r.ftp, "NLST", "nlst")
        \/ FTP!Return(r.net, r.ftp, - r.digit)
        \/ FTP!Return(r.net, r.ftp, IF r.digit = 2 THEN FTP!HT_LOADED ELSE FTP!LoadError)
        \/ FTP!Return(r.net, r.ftp, IF r.digit = 2 THEN FTP!HT_LOADED ELSE FTP!Failed)
  BY Zenon DEF FTP!RetrReply, FTP!CwdReply, FTP!NlstReply, FTP!FinalReply,
               FTP!OnReply
<1>3. r.digit \in Int
  BY <1>1, FtpReplied
<1>4. /\ - r.digit \in Int
      /\ (IF r.digit = 2 THEN FTP!HT_LOADED ELSE FTP!LoadError) \in Int
      /\ (IF r.digit = 2 THEN FTP!HT_LOADED ELSE FTP!Failed) \in Int
  BY <1>3 DEF FTP!HT_LOADED, FTP!LoadError, FTP!Failed
<1>5. /\ { "accept file", "accept directory" } \subseteq FtpBusy
      /\ { "CWD", "NLST" } \subseteq FtpCommands /\ { "cwd", "nlst" } \subseteq FtpAsks
  BY DEF FtpBusy, FtpCommands, FtpAsks
<1>6. QED
  BY <1>1, <1>2, <1>4, <1>5, FtpOnReply
-----------------------------------------------------------------------------
(* The listening socket is another one; the one before is closed.          *)
LEMMA ListenerKeepsInv ==
  ASSUME Inv, FTP!get_listen_socket, UNCHANGED << news, http, gopher >>
  PROVE  Inv'
<1> DEFINE fd == NewSocket(net)
           open == With(net, fd, Listening)
           m == Close(open, ftp.master_socket)
           g == [ ftp EXCEPT !.master_socket = fd ]
<1>1. pc \in FtpBusy /\ FreeSockets(net) # { } /\ FTP!Ask(m, g, "PORT", "port")
  BY FtpInput DEF FTP!get_listen_socket, FtpBusy
<1>2. net \in Nets(Hosts) /\ FtpFits(ftp) /\ ftp \in Ftps /\ ftp.control # Null
  BY <1>1 DEF Inv, TypeOK, FtpFits
<1>3. fd \in Fds /\ Listening \in Sockets(Hosts)
  BY <1>1, <1>2, NewSocketFits, EmptySocket
<1> HIDE DEF fd
<1>4. open \in Nets(Hosts) /\ m \in Nets(Hosts)
  <2>1. open \in Nets(Hosts)
    BY <1>2, <1>3, WithFits
  <2>2. QED
    BY <2>1, CloseFits
<1>5. SameList(ftp, g) /\ g.master_socket = fd
  BY <1>2, <1>3 DEF SameList, Ftps
<1> HIDE DEF g
<1>6. FtpReaches(m, g) /\ g.control # Null
  <2>1. FtpFits(g) /\ g.control # Null
    BY <1>2, <1>5, SameListFits DEF SameList
  <2>2. FtpSockets(ftp) \subseteq FtpSockets(g) \cup { ftp.master_socket } /\ fd \in FtpSockets(g)
    <3>1. \A i \in DOMAIN ftp.connections : ftp.connections[i] \in ConnectionIds
      BY <1>2 DEF Ftps
    <3>2. QED
      BY <1>5, <3>1 DEF FtpSockets, SameList
  <2>3. ASSUME NEW B, Covers(net, FtpSockets(ftp) \cup B)
        PROVE  Covers(m, FtpSockets(g) \cup B)
    <3>1. Covers(open, (FtpSockets(ftp) \cup B) \cup { fd })
      BY <1>2, <1>3, <2>3, WithCovers
    <3>2. Covers(m, ((FtpSockets(ftp) \cup B) \cup { fd }) \ { ftp.master_socket })
      BY <1>4, <3>1, CloseCovers
    <3> HIDE DEF m
    <3>3. QED
      BY <2>2, <3>2 DEF Covers
  <2>4. QED
    BY <1>4, <2>1, <2>3 DEF FtpReaches
<1>7. "PORT" \in FtpCommands /\ "port" \in FtpAsks
  BY DEF FtpCommands, FtpAsks
<1> HIDE DEF m
<1>8. QED
  BY <1>1, <1>6, <1>7, FtpWaits

LEMMA NoListenerKeepsInv ==
  ASSUME Inv, FTP!NoListenSocket, UNCHANGED << news, http, gopher >>
  PROVE  Inv'
<1> DEFINE open == With(net, NewSocket(net), Listening)
           m == Close(open, ftp.master_socket)
           g == [ ftp EXCEPT !.master_socket = Null ]
<1>1. /\ pc \in FtpBusy
      /\ \/ FTP!Return(net, ftp, FTP!Failed)
         \/ FreeSockets(net) # { } /\ FTP!Return(open, ftp, FTP!Failed)
         \/ FreeSockets(net) # { } /\ FTP!Return(m, g, FTP!Failed)
  BY FtpInput DEF FTP!NoListenSocket, FtpBusy
<1>2. net \in Nets(Hosts) /\ FtpFits(ftp) /\ ftp \in Ftps
  BY DEF Inv, TypeOK, FtpFits
<1>3. FtpFits(g)
  <2>1. SameList(ftp, g)
    BY <1>2 DEF SameList, Ftps
  <2> HIDE DEF g
  <2>2. QED
    BY <1>2, <2>1, SameListFits
<1>4. ASSUME FreeSockets(net) # { }
      PROVE  open \in Nets(Hosts) /\ m \in Nets(Hosts)
  <2>1. NewSocket(net) \in Fds
    BY <1>2, <1>4, NewSocketFits
  <2>2. open \in Nets(Hosts)
    BY <1>2, <2>1, EmptySocket, WithFits
  <2>3. QED
    BY <2>2, CloseFits
<1> HIDE DEF open, m, g
<1>5. QED
  BY <1>1, <1>2, <1>3, <1>4, FtpFails

LEMMA AcceptFailsKeepsInv ==
  ASSUME Inv, FTP!AcceptFails, UNCHANGED << news, http, gopher >>
  PROVE  Inv'
<1> DEFINE yes == TRUE
           g == [ ftp EXCEPT !.cons[ftp.control].owes = yes ]
<1>1. pc \in FtpBusy /\ FTP!Return(net, g, FTP!Failed)
  BY DEF FTP!AcceptFails, FtpBusy
<1>2. net \in Nets(Hosts) /\ FtpFits(ftp) /\ ftp \in Ftps /\ ftp.control \in ConnectionIds
  BY <1>1 DEF Inv, TypeOK, FtpFits, Ftps
<1>3. SameList(ftp, g)
  <2>1. yes \in BOOLEAN
    OBVIOUS
  <2> HIDE DEF yes
  <2>2. QED
    BY <1>2, <2>1, FlagFits
<1> HIDE DEF g
<1>4. FtpFits(g)
  BY <1>2, <1>3, SameListFits
<1>5. QED
  BY <1>1, <1>2, <1>4, FtpFails

LEMMA TransferKeepsInv ==
  ASSUME Inv, FTP!TransferFile \/ FTP!read_directory, UNCHANGED << news, http, gopher >>
  PROVE  Inv'
<1> DEFINE g == [ ftp EXCEPT !.source = FTP!Control(ftp).host ]
           file == HTInitInput(net, FTP!Control(ftp).socket)
           data == [ Socket("data", << >>) EXCEPT !.up = FALSE ]
           directory == With(net, NewSocket(net), data)
<1>1. PICK m \in { file, directory } :
        /\ pc \in FtpBusy /\ FreeSockets(net) # { } /\ net' = m /\ ftp' = g
        /\ pc' \in { "final file", "final directory" } /\ text' \in BOOLEAN
        /\ UNCHANGED << request, status >>
  BY FtpInput DEF FTP!TransferFile, FTP!read_directory, FTP!Transferred,
                  FtpBusy
<1>2. net \in Nets(Hosts) /\ FtpFits(ftp) /\ ftp \in Ftps /\ ftp.control \in ConnectionIds
  BY <1>1 DEF Inv, TypeOK, FtpFits, Ftps
<1>3. FTP!Control(ftp) \in FTP!Connections
  BY <1>2 DEF FTP!Control, Ftps
<1>4. FTP!Control(ftp).socket \in Fds \cup { Null }
      /\ FTP!Control(ftp).host \in FtpHosts \cup { "nobody" }
  BY <1>3, FtpInput DEF FTP!Connections
<1>5. SameList(ftp, g) /\ g.master_socket = ftp.master_socket /\ g.control # Null
  <2>1. ftp.control # Null
    BY <1>1 DEF Inv
  <2>2. QED
    BY <1>2, <1>4, <2>1 DEF SameList, Ftps
<1> HIDE DEF g
<1>6. m \in Nets(Hosts) /\ \A A : Covers(net, A) => Covers(m, A)
  <2>1. CASE m = file
    BY <1>2, <1>4, <2>1, InputFits
  <2>2. CASE m = directory
    <3>1. << >> \in Seq(Items) /\ "data" \in Nobodies
      BY DEF Nobodies
    <3>2. data \in Sockets(Hosts) /\ data.peer = "data"
      BY <3>1, SocketFits DEF Socket
    <3> HIDE DEF data
    <3>3. NewSocket(net) \in Fds
      BY <1>1, <1>2, NewSocketFits
    <3>4. QED
      BY <1>2, <2>2, <3>2, <3>3, WithFits, WithCovers
  <2>3. QED
    BY <2>1, <2>2
<1>7. FtpReaches(m, g)
  <2>1. FtpReaches(m, ftp)
    BY <1>2, <1>6 DEF FtpReaches
  <2>2. QED
    BY <1>5, <2>1, SameListReaches
<1>8. pc' \in FtpBusy \cup { "ftp", "return" } /\ status' \in Int
  BY <1>1 DEF FtpBusy, Inv, TypeOK
<1>9. QED
  BY <1>1, <1>5, <1>7, <1>8, FtpMoves DEF FtpReaches
-----------------------------------------------------------------------------
(* There are more places for connections than hosts, so that one is free.  *)
LEMMA FreeConnection ==
  ASSUME NEW f, FtpFits(f), NEW host \in FtpHosts,
         \A i \in DOMAIN f.connections : HostOf(f, i) # host
  PROVE  ConnectionIds \ (Range(f.connections) \cup { f.control }) # { }
<1> DEFINE R == Range(f.connections)
           at == [ c \in ConnectionIds |-> IF c \in R THEN f.cons[c].host ELSE host ]
<1>1. \A c \in R : \E i \in DOMAIN f.connections : c = f.connections[i]
  BY DEF Range
<1>2. \A c \in R : f.cons[c].host \in FtpHosts /\ f.cons[c].host # host
  BY <1>1 DEF FtpFits, HostOf
<1>3. \A c, d \in R : f.cons[c].host = f.cons[d].host => c = d
  <2>1. SUFFICES ASSUME NEW c \in R, NEW d \in R, f.cons[c].host = f.cons[d].host
                 PROVE  c = d
    OBVIOUS
  <2>2. PICK i \in DOMAIN f.connections : c = f.connections[i]
    BY <1>1
  <2>3. PICK j \in DOMAIN f.connections : d = f.connections[j]
    BY <1>1
  <2>4. HostOf(f, i) = HostOf(f, j)
    BY <2>1, <2>2, <2>3 DEF HostOf
  <2>5. i = j
    BY <2>4 DEF FtpFits
  <2>6. QED
    BY <2>2, <2>3, <2>5
<1> HIDE DEF R
<1>4. SUFFICES ASSUME ConnectionIds \subseteq R \cup { f.control }
               PROVE  FALSE
  BY DEF R
<1>5. at \in [ ConnectionIds -> FtpHosts ]
  BY <1>2
<1>6. PICK c, d \in ConnectionIds : c # d /\ at[c] = at[d]
  <2>1. /\ IsFiniteSet(ConnectionIds) /\ IsFiniteSet(FtpHosts)
        /\ Cardinality(FtpHosts) < Cardinality(ConnectionIds)
    BY HostAssumption
  <2> HIDE DEF at
  <2>2. \E x, y \in ConnectionIds : x # y /\ at[x] = at[y]
    BY <1>5, <2>1, FS_PigeonHole, Zenon
  <2>3. QED
    BY <2>2
<1>7. CASE c \in R /\ d \in R
  BY <1>3, <1>6, <1>7
<1>8. CASE c \notin R /\ d \notin R
  BY <1>4, <1>6, <1>8
<1>9. CASE (c \in R) # (d \in R)
  BY <1>2, <1>6, <1>9
<1>10. QED
  BY <1>7, <1>8, <1>9

(* The connection that is made: its host is new to the list, which it heads. *)
Connected(f, c, fd, host) ==
  [ f EXCEPT !.cons = [ i \in ConnectionIds |->
                          IF i = c THEN FTP!Connection(fd, host)
                          ELSE IF i \in Range(f.connections) THEN @[i]
                          ELSE FTP!Connection(Null, "nobody") ],
             !.control = c, !.connections = << c >> \o @, !.fresh = TRUE ]

LEMMA ConnectionMade ==
  ASSUME NEW f, FtpFits(f), NEW host \in FtpHosts, NEW fd \in Fds,
         \A i \in DOMAIN f.connections : HostOf(f, i) # host,
         NEW c \in ConnectionIds, c \notin Range(f.connections)
  PROVE  LET g == Connected(f, c, fd, host)
         IN  FtpFits(g) /\ g.control = c /\ FtpSockets(f) \cup { fd } \subseteq FtpSockets(g)
<1> DEFINE g == Connected(f, c, fd, host)
           R == Range(f.connections)
           yes == TRUE
           list == << c >> \o f.connections
           k == [ i \in ConnectionIds |->
                    IF i = c THEN FTP!Connection(fd, host)
                    ELSE IF i \in R THEN f.cons[i] ELSE FTP!Connection(Null, "nobody") ]
<1>1. /\ f \in Ftps /\ f.connections \in Seq(ConnectionIds)
      /\ f.cons \in [ ConnectionIds -> FTP!Connections ]
  BY DEF FtpFits, Ftps
<1>2. /\ FTP!Connection(fd, host) \in FTP!Connections
      /\ FTP!Connection(Null, "nobody") \in FTP!Connections
      /\ FTP!Connection(fd, host).socket = fd /\ FTP!Connection(fd, host).host = host
  BY FtpInput DEF FTP!Connection, FTP!Connections
<1>3. /\ k \in [ ConnectionIds -> FTP!Connections ] /\ k[c].socket = fd /\ k[c].host = host
      /\ \A i \in R \cap ConnectionIds : k[i] = f.cons[i]
  BY <1>1, <1>2
<1>4. /\ list \in Seq(ConnectionIds) /\ Len(list) = 1 + Len(f.connections)
      /\ \A i \in 1 .. 1 + Len(f.connections) :
           list[i] = IF i = 1 THEN c ELSE f.connections[i - 1]
  BY <1>1, HeadAndRest
<1>5. yes \in BOOLEAN
  OBVIOUS
<1>6. g = [ f EXCEPT !.cons = k, !.control = c, !.connections = list, !.fresh = yes ]
  BY DEF Connected
<1> HIDE DEF g, yes, list, k
<1>7. /\ g \in Ftps /\ g.cons = k /\ g.control = c /\ g.connections = list
      /\ g.master_socket = f.master_socket
  BY <1>1, <1>3, <1>4, <1>5, <1>6 DEF Ftps
<1>8. Len(f.connections) \in Nat /\ DOMAIN f.connections = 1 .. Len(f.connections)
      /\ DOMAIN list = 1 .. 1 + Len(f.connections)
  BY <1>1, <1>4
<1>9. \A i \in DOMAIN list : i = 1 \/ i - 1 \in DOMAIN f.connections
  BY <1>8
<1>10. \A i \in DOMAIN f.connections :
         f.connections[i] \in R \cap ConnectionIds /\ f.connections[i] # c
  BY <1>1 DEF Range
<1>11. HostOf(g, 1) = host /\ list[1] = c /\ 1 \in DOMAIN list
  BY <1>3, <1>4, <1>7, <1>8 DEF HostOf
<1>12. ASSUME NEW i \in DOMAIN list, i # 1
       PROVE  /\ i - 1 \in DOMAIN f.connections /\ HostOf(g, i) = HostOf(f, i - 1)
              /\ list[i] = f.connections[i - 1]
  <2>1. i - 1 \in DOMAIN f.connections
    BY <1>9, <1>12
  <2>2. list[i] = f.connections[i - 1]
    BY <1>4, <1>8, <1>12
  <2>3. QED
    BY <1>3, <1>7, <1>10, <2>1, <2>2 DEF HostOf
<1> HIDE DEF R
<1>13. FtpFits(g)
  <2>1. \A i \in DOMAIN list : HostOf(g, i) \in FtpHosts /\ (list[i] = c => i = 1)
    <3>1. SUFFICES ASSUME NEW i \in DOMAIN list
                   PROVE  HostOf(g, i) \in FtpHosts /\ (list[i] = c => i = 1)
      OBVIOUS
    <3>2. CASE i = 1
      BY <1>11, <3>2
    <3>3. CASE i # 1
      <4>1. i - 1 \in DOMAIN f.connections /\ HostOf(g, i) = HostOf(f, i - 1)
            /\ list[i] = f.connections[i - 1]
        BY <1>12, <3>3
      <4>2. QED
        BY <1>10, <4>1 DEF FtpFits
    <3>4. QED
      BY <3>2, <3>3
  <2>2. ASSUME NEW i \in DOMAIN list, NEW j \in DOMAIN list, HostOf(g, i) = HostOf(g, j)
        PROVE  i = j
    <3>1. CASE i = 1 /\ j # 1
      BY <1>11, <1>12, <2>2, <3>1
    <3>2. CASE i # 1 /\ j = 1
      BY <1>11, <1>12, <2>2, <3>2
    <3>3. CASE i # 1 /\ j # 1
      <4>1. /\ i - 1 \in DOMAIN f.connections /\ HostOf(g, i) = HostOf(f, i - 1)
            /\ j - 1 \in DOMAIN f.connections /\ HostOf(g, j) = HostOf(f, j - 1)
        BY <1>12, <3>3
      <4>2. HostOf(f, i - 1) = HostOf(f, j - 1)
        BY <2>2, <4>1
      <4>3. i - 1 = j - 1
        BY <4>1, <4>2 DEF FtpFits
      <4>4. QED
        BY <1>8, <4>3
    <3>4. QED
      BY <3>1, <3>2, <3>3
  <2>3. c # Null
    BY HostAssumption
  <2>4. QED
    BY <1>7, <2>1, <2>2, <2>3 DEF FtpFits
<1>14. FtpSockets(f) \cup { fd } \subseteq FtpSockets(g)
  <2>1. fd \in FtpSockets(g)
    BY <1>3, <1>7, <1>11 DEF FtpSockets
  <2>2. ASSUME NEW i \in DOMAIN f.connections
        PROVE  f.cons[f.connections[i]].socket \in FtpSockets(g)
    <3>1. i + 1 \in DOMAIN list /\ list[i + 1] = f.connections[i]
      <4>1. i + 1 \in 1 .. 1 + Len(f.connections) /\ i + 1 # 1 /\ (i + 1) - 1 = i
        BY <1>8
      <4>2. QED
        BY <1>4, <1>8, <4>1
    <3>2. k[list[i + 1]] = f.cons[f.connections[i]]
      BY <1>3, <1>10, <3>1
    <3>3. QED
      BY <1>7, <3>1, <3>2 DEF FtpSockets
  <2>3. f.master_socket \in FtpSockets(g)
    BY <1>7 DEF FtpSockets
  <2>4. QED
    BY <2>1, <2>2, <2>3 DEF FtpSockets
<1>15. QED
  BY <1>7, <1>13, <1>14 DEF g
LEMMA ConnectKeepsInv ==
  ASSUME Inv, FTP!Connect, UNCHANGED << news, http, gopher >>
  PROVE  Inv'
<1> DEFINE fd == NewSocket(net)
           c  == Min(ConnectionIds \ (Range(ftp.connections) \cup { ftp.control }))
           g  == [ ftp EXCEPT !.cons = [ i \in ConnectionIds |->
                                           IF i = c THEN FTP!Connection(fd, request.host)
                                           ELSE IF i \in Range(ftp.connections) THEN @[i]
                                           ELSE FTP!Connection(Null, "nobody") ],
                              !.control = c, !.connections = << c >> \o @, !.fresh = TRUE ]
           open(wire) == With(net, fd, Socket(request.host, wire))
<1>1. \A S : FTP!Min(S) = Min(S) /\ FTP!Range(S) = Range(S)
  BY DEF FTP!Min, Min, FTP!Range, Range
<1>2. PICK wire \in { << 2 >>, << 5 >>, << Notice >> } :
        FTP!Goto(HTInitInput(open(wire), fd), g, "greeting")
  BY <1>1, FtpInput DEF FTP!Connect
<1>3. /\ pc = "ftp" /\ FreeSockets(net) # { }
      /\ \A i \in DOMAIN ftp.connections : HostOf(ftp, i) # request.host
  BY <1>1, FtpInput DEF FTP!Connect, FTP!Listed, HostOf, Range
<1>4. net \in Nets(Hosts) /\ FtpFits(ftp) /\ request.host \in FtpHosts
  BY <1>3 DEF Inv, TypeOK, RequestFits
<1>5. fd \in Fds
  BY <1>3, <1>4, NewSocketFits
<1>6. c \in ConnectionIds /\ c \notin Range(ftp.connections)
  <2> DEFINE T == ConnectionIds \ (Range(ftp.connections) \cup { ftp.control })
  <2>1. T # { }
    BY <1>3, <1>4, FreeConnection
  <2>2. T \in SUBSET Nat
    BY HostAssumption
  <2>3. Min(T) \in T
    BY <2>1, <2>2, Least
  <2>4. QED
    BY <2>3
<1> HIDE DEF fd, c
<1>7. FtpFits(g) /\ g.control = c /\ FtpSockets(ftp) \cup { fd } \subseteq FtpSockets(g)
  <2>1. g = Connected(ftp, c, fd, request.host)
    BY DEF Connected
  <2> HIDE DEF g
  <2>2. QED
    BY <1>3, <1>4, <1>5, <1>6, <2>1, ConnectionMade
<1> HIDE DEF g
<1>8. Socket(request.host, wire) \in Sockets(Hosts)
  <2>1. << 2 >> \in Seq(Items) /\ << 5 >> \in Seq(Items) /\ << Notice >> \in Seq(Items)
    BY DEF Items
  <2>2. request.host \in Hosts
    BY <1>4 DEF Hosts
  <2>3. QED
    BY <2>1, <2>2, SocketFits
<1>9. FtpReaches(HTInitInput(open(wire), fd), g)
  <2> DEFINE m == HTInitInput(open(wire), fd)
  <2>1. open(wire) \in Nets(Hosts)
    BY <1>4, <1>5, <1>8, WithFits
  <2>2. ASSUME NEW B, Covers(net, FtpSockets(ftp) \cup B)
        PROVE  Covers(m, FtpSockets(g) \cup B)
    <3>1. Covers(open(wire), (FtpSockets(ftp) \cup B) \cup { fd })
      BY <1>4, <1>5, <1>8, <2>2, WithCovers
    <3>2. Covers(m, (FtpSockets(ftp) \cup B) \cup { fd })
      BY <1>5, <2>1, <3>1, InputFits
    <3> HIDE DEF m
    <3>3. QED
      BY <1>7, <3>2 DEF Covers
  <2>3. m \in Nets(Hosts)
    BY <1>5, <2>1, InputFits
  <2> HIDE DEF m
  <2>4. FtpReaches(m, g)
    BY <1>7, <2>2, <2>3 DEF FtpReaches
  <2>5. QED
    BY <2>4 DEF m
<1> HIDE DEF open
<1>10. c # Null /\ "greeting" \in FtpBusy \cup { "ftp" }
  BY <1>6, HostAssumption DEF FtpBusy, FtpAsks
<1>11. QED
  BY <1>2, <1>3, <1>7, <1>9, <1>10, FtpGoes

(* The load's steps that only look, or give up at once.                    *)
LEMMA ConnectionFoundOrNot ==
  ASSUME Inv, FTP!HostUnknown \/ FTP!AlreadyConnected \/ FTP!CannotConnect,
         UNCHANGED << news, http, gopher >>
  PROVE  Inv'
<1>1. net \in Nets(Hosts) /\ FtpFits(ftp)
  BY DEF Inv, TypeOK
<1>2. FtpReaches(net, ftp)
  BY <1>1 DEF FtpReaches
<1>3. pc = "ftp"
  BY DEF FTP!HostUnknown, FTP!AlreadyConnected, FTP!CannotConnect
<1>4. CASE FTP!HostUnknown \/ FTP!CannotConnect
  BY <1>1, <1>3, <1>4, FtpFails DEF FTP!HostUnknown, FTP!CannotConnect
<1>5. CASE FTP!AlreadyConnected
  <2>1. FTP!Goto(net, ftp, "listen") /\ FTP!Listed(ftp, request.host) # { }
    BY <1>5 DEF FTP!AlreadyConnected
  <2>2. ftp.connections # << >>
    <3>1. PICK c : c \in FTP!Range(ftp.connections)
      BY <2>1 DEF FTP!Listed
    <3>2. DOMAIN ftp.connections # { }
      BY <3>1 DEF FTP!Range
    <3>3. QED
      BY <3>2
  <2>3. ftp.control # Null /\ "listen" \in FtpBusy \cup { "ftp" }
    BY <1>1, <2>2 DEF FtpFits, FtpBusy
  <2>4. QED
    BY <1>2, <1>3, <2>1, <2>3, FtpGoes
<1>6. QED
  BY <1>4, <1>5

LEMMA FtpKeepsInv ==
  ASSUME Inv, FTP!HTFTPLoad, UNCHANGED << news, http, gopher >>
  PROVE  Inv'
<1>1. CASE FTP!get_connection
  <2>1. CASE FTP!HostUnknown \/ FTP!AlreadyConnected \/ FTP!CannotConnect
    BY <2>1, ConnectionFoundOrNot
  <2>2. CASE FTP!Connect
    BY <2>2, ConnectKeepsInv
  <2>3. CASE FTP!Greeting
    BY <2>3, GreetingKeepsInv
  <2>4. /\ { "user", "pass", "acct" } \subseteq FtpAsks
        /\ { "PASS", "ACCT", "none" } \subseteq FtpCommands \cup { "none" }
    BY DEF FtpAsks, FtpCommands
  <2>5. CASE FTP!LoginReply("user", "PASS", "pass")
    BY <2>4, <2>5, LoginReplyKeepsInv
  <2>6. CASE FTP!LoginReply("pass", "ACCT", "acct")
    BY <2>4, <2>6, LoginReplyKeepsInv
  <2>7. CASE FTP!LoginReply("acct", "none", "none")
    BY <2>4, <2>7, LoginReplyKeepsInv
  <2>8. QED
    BY <1>1, <2>1, <2>2, <2>3, <2>5, <2>6, <2>7 DEF FTP!get_connection
<1>2. CASE FTP!get_listen_socket
  BY <1>2, ListenerKeepsInv
<1>3. CASE FTP!NoListenSocket
  BY <1>3, NoListenerKeepsInv
<1>4. CASE FTP!PortReply
  BY <1>4, PortReplyKeepsInv
<1>5. CASE FTP!TypeReply
  BY <1>5, TypeReplyKeepsInv
<1>6. CASE FTP!RetrReply \/ FTP!CwdReply \/ FTP!NlstReply \/ FTP!FinalReply
  BY <1>6, TransferReplyKeepsInv
<1>7. CASE FTP!AcceptFails
  BY <1>7, AcceptFailsKeepsInv
<1>8. CASE FTP!TransferFile \/ FTP!read_directory
  BY <1>8, TransferKeepsInv
<1>9. QED
  BY <1>1, <1>2, <1>3, <1>4, <1>5, <1>6, <1>7, <1>8 DEF FTP!HTFTPLoad
-----------------------------------------------------------------------------
LEMMA NewsInput ==
  /\ News!Null = Null /\ News!EOF = EOF /\ News!Notice = Notice /\ News!Fds = Fds
  /\ News!Dot = Dot /\ News!Text = Text
  /\ \A peer, wire : News!Socket(peer, wire) = Socket(peer, wire)
  /\ \A n : /\ News!FreeSockets(n) = FreeSockets(n)
            /\ News!NewSocket(n) = NewSocket(n)
            /\ News!HTGetChararcter(n) = HTGetChararcter(n)
  /\ \A n, fd : /\ News!IsOpen(n, fd) = IsOpen(n, fd)
                /\ News!Close(n, fd) = Close(n, fd)
                /\ News!HTInitInput(n, fd) = HTInitInput(n, fd)
  /\ \A n, fd, it : News!With(n, fd, it) = With(n, fd, it)
  /\ \A item : News!NumbersOf(item) = NumbersOf(item)
<1> USE DEF News!Null, Null, News!EOF, EOF, News!Notice, Notice, News!Fds, Fds
<1>1. /\ News!Null = Null /\ News!EOF = EOF /\ News!Notice = Notice /\ News!Fds = Fds
      /\ News!Dot = Dot /\ News!Text = Text
  BY DEF News!Dot, Dot, News!Text, Text
<1>2. \A peer, wire : News!Socket(peer, wire) = Socket(peer, wire)
  BY DEF News!Socket, Socket
<1>3. News!Unused = Unused
  BY <1>2, Zenon DEF News!Unused, Unused
<1>4. \A n, fd, it : News!With(n, fd, it) = With(n, fd, it)
  BY DEF News!With, With
<1>5. \A n, fd : /\ News!IsOpen(n, fd) = IsOpen(n, fd)
                 /\ News!Close(n, fd) = Close(n, fd)
                 /\ News!HTInitInput(n, fd) = HTInitInput(n, fd)
  BY <1>3, <1>4 DEF News!IsOpen, IsOpen, News!Close, Close, News!HTInitInput,
                    HTInitInput
<1>6. \A n : News!FreeSockets(n) = FreeSockets(n)
  BY <1>5 DEF News!FreeSockets, FreeSockets, News!OpenSockets, OpenSockets
<1>7. \A n : News!NewSocket(n) = NewSocket(n)
  BY <1>6 DEF News!NewSocket, NewSocket, News!Min, Min
<1>8. \A n : News!HTGetChararcter(n) = HTGetChararcter(n)
  BY <1>4, <1>5, Zenon DEF News!HTGetChararcter, HTGetChararcter
<1>9. \A item : News!NumbersOf(item) = NumbersOf(item)
  BY DEF News!NumbersOf, NumbersOf
<1>10. QED
  BY <1>1, <1>2, <1>3, <1>4, <1>5, <1>6, <1>7, <1>8, <1>9

NewsStates ==
  [ s : Fds \cup { Null }, initialized : BOOLEAN, retries : 0 .. 1,
    article : 0 .. MaxArticles, lost : BOOLEAN ]

(* What goes on over the news connection leaves the rest as it is.         *)
NewsStep(n, w, m, v) ==
  /\ m \in Nets(Hosts) /\ v \in NewsStates /\ v.initialized = w.initialized
  /\ \A B : Covers(n, { w.s } \cup B) => Covers(m, { v.s } \cup B)

LEMMA NewsCloseSteps ==
  ASSUME NEW n \in Nets(Hosts), NEW w \in NewsStates, NEW lost \in BOOLEAN
  PROVE  /\ NewsStep(n, w, Close(n, w.s), [ w EXCEPT !.s = Null ])
         /\ NewsStep(n, w, Close(n, w.s), [ [ w EXCEPT !.s = Null ] EXCEPT !.lost = lost ])
         /\ NewsStep(n, w, n, [ w EXCEPT !.lost = lost ])
<1>1. Close(n, w.s) \in Nets(Hosts)
  BY CloseFits
<1>2. /\ [ w EXCEPT !.s = Null ] \in NewsStates
      /\ [ [ w EXCEPT !.s = Null ] EXCEPT !.lost = lost ] \in NewsStates
      /\ [ w EXCEPT !.lost = lost ] \in NewsStates
  BY DEF NewsStates
<1>3. ASSUME NEW B, Covers(n, { w.s } \cup B), NEW fd
      PROVE  Covers(Close(n, w.s), { fd } \cup B)
  <2>1. Covers(Close(n, w.s), ({ w.s } \cup B) \ { w.s })
    BY <1>3, CloseCovers
  <2>2. QED
    BY <2>1 DEF Covers
<1>4. \A v : v = [ w EXCEPT !.s = Null ] => v.initialized = w.initialized
  BY DEF NewsStates
<1>5. \A v : v = [ [ w EXCEPT !.s = Null ] EXCEPT !.lost = lost ]
               => v.initialized = w.initialized
  BY DEF NewsStates
<1>6. \A v : v = [ w EXCEPT !.lost = lost ] => v.initialized = w.initialized /\ v.s = w.s
  BY DEF NewsStates
<1>7. NewsStep(n, w, Close(n, w.s), [ w EXCEPT !.s = Null ])
  BY <1>1, <1>2, <1>3, <1>4 DEF NewsStep
<1>8. NewsStep(n, w, Close(n, w.s), [ [ w EXCEPT !.s = Null ] EXCEPT !.lost = lost ])
  BY <1>1, <1>2, <1>3, <1>5 DEF NewsStep
<1>9. NewsStep(n, w, n, [ w EXCEPT !.lost = lost ])
  BY <1>2, <1>6 DEF NewsStep
<1>10. QED
  BY <1>7, <1>8, <1>9

LEMMA NewsAnswersFit ==
  ASSUME NEW cmd, NEW peer, NEW session \in { "none", "A", "I" },
         NEW a \in News!NewsServer(cmd, peer, session)
  PROVE  a.wire \in Seq(Items) /\ a.up \in BOOLEAN /\ a.session \in { "none", "A", "I" }
<1> DEFINE answer(wire, up) == [ wire |-> wire, up |-> up, session |-> session ]
<1>1. \A wire, up : /\ answer(wire, up).wire = wire /\ answer(wire, up).up = up
                    /\ answer(wire, up).session = session
  OBVIOUS
<1>2. /\ << 5 >> \in Seq(Items) /\ << 2 >> \in Seq(Items) /\ << >> \in Seq(Items)
      /\ << 2, Dot >> \in Seq(Items) /\ << 2, Text, Dot >> \in Seq(Items)
      /\ << 2, Text >> \in Seq(Items)
  BY DEF Items
<1> HIDE DEF answer
<1>3. a \in { answer(<< 5 >>, TRUE), answer(<< 5 >>, FALSE), answer(<< >>, FALSE),
              answer(<< 2 >>, TRUE), answer(<< 2, Dot >>, TRUE),
              answer(<< 2, Text, Dot >>, TRUE), answer(<< 2, Text >>, FALSE) }
  BY NewsInput, Zenon DEF News!NewsServer, answer
<1>4. PICK wire \in { << 5 >>, << >>, << 2 >>, << 2, Dot >>, << 2, Text, Dot >>,
                      << 2, Text >> }, up \in BOOLEAN : a = answer(wire, up)
  BY <1>3, Zenon
<1>5. wire \in Seq(Items)
  BY <1>2, <1>4, Zenon
<1>6. QED
  BY <1>1, <1>4, <1>5

LEMMA NewsCommandSteps ==
  ASSUME NEW n \in Nets(Hosts), NEW w \in NewsStates, NEW cmd,
         NEW o \in News!Command(n, w, cmd)
  PROVE  NewsStep(n, w, o.net, o.news)
<1> DEFINE fd == w.s
           it == n.sockets[fd]
           next(a) == [ it EXCEPT !.wire = @ \o a.wire, !.up = a.up, !.session = a.session ]
<1>1. PICK q \in News!Write(n, fd, LAMBDA peer, session : News!NewsServer(cmd, peer, session)) :
        o = IF q.sent THEN [ net |-> q.net, news |-> w ]
            ELSE [ News!Disconnected(q.net, w) EXCEPT !.news.lost = TRUE ]
  BY DEF News!Command
<1>2. ASSUME q.net = n, ~ q.sent
      PROVE  NewsStep(n, w, o.net, o.news)
  <2> DEFINE yes == TRUE
  <2>1. o.net = Close(n, fd) /\ o.news = [ [ w EXCEPT !.s = Null ] EXCEPT !.lost = yes ]
    BY <1>1, <1>2, NewsInput DEF News!Disconnected
  <2>2. yes \in BOOLEAN
    OBVIOUS
  <2> HIDE DEF yes
  <2>3. QED
    BY <2>1, <2>2, NewsCloseSteps
<1>3. ASSUME q.net = n, q.sent
      PROVE  NewsStep(n, w, o.net, o.news)
  <2>1. o.net = n /\ o.news = w
    BY <1>1, <1>3
  <2>2. QED
    BY <2>1 DEF NewsStep
<1>4. CASE ~ IsOpen(n, fd) \/ it.peer = "listener"
  <2>1. q = [ sent |-> FALSE, net |-> n ]
    BY <1>1, <1>4, NewsInput DEF News!Write
  <2>2. QED
    BY <1>2, <2>1
<1>5. CASE IsOpen(n, fd) /\ it.peer # "listener" /\ it.up
  <2>1. PICK a \in News!NewsServer(cmd, it.peer, it.session) :
          q = [ sent |-> TRUE, net |-> With(n, fd, next(a)) ]
    BY <1>1, <1>5, NewsInput DEF News!Write
  <2>2. fd \in Fds /\ it \in Sockets(Hosts) /\ it.wire \in Seq(Items)
    BY <1>5 DEF Nets, Sockets, IsOpen
  <2>3. a.wire \in Seq(Items) /\ a.up \in BOOLEAN /\ a.session \in { "none", "A", "I" }
    <3>1. it.session \in { "none", "A", "I" }
      BY <2>2 DEF Sockets
    <3>2. QED
      BY <2>1, <3>1, NewsAnswersFit
  <2>4. it.wire \o a.wire \in Seq(Items)
    BY <2>2, <2>3, ConcatProperties
  <2>5. next(a) \in Sockets(Hosts) /\ next(a).peer = it.peer
    BY <2>2, <2>3, <2>4 DEF Sockets
  <2>6. o.news = w /\ o.net = With(n, fd, next(a))
    BY <1>1, <2>1
  <2> DEFINE x == next(a)
  <2>7. x \in Sockets(Hosts) /\ x.peer = it.peer /\ o.net = With(n, fd, x)
    BY <2>5, <2>6
  <2> HIDE DEF x
  <2>8. o.net \in Nets(Hosts) /\ \A A : Covers(n, A) => Covers(o.net, A)
    <3>1. With(n, fd, x) \in Nets(Hosts)
      BY <2>2, <2>7, WithFits
    <3>2. \A A : Covers(n, A) => Covers(With(n, fd, x), A)
      BY <1>5, <2>2, <2>7, WithCovers
    <3>3. QED
      BY <2>7, <3>1, <3>2
  <2>9. QED
    BY <2>6, <2>8 DEF NewsStep
<1>6. CASE IsOpen(n, fd) /\ it.peer # "listener" /\ ~ it.up
  <2>1. q \in [ sent : BOOLEAN, net : { n } ]
    BY <1>1, <1>6, NewsInput DEF News!Write
  <2>2. q.net = n /\ q.sent \in BOOLEAN
    BY <2>1
  <2>3. QED
    BY <1>2, <1>3, <2>2
<1>7. QED
  BY <1>4, <1>5, <1>6
LEMMA NewsReplySteps ==
  ASSUME NEW n \in Nets(Hosts), NEW w \in NewsStates, NEW r \in News!Response(n, w)
  PROVE  NewsStep(n, w, r.net, r.news) /\ r.digit \in -1 .. 5
<1>1. CASE w.lost
  <2> DEFINE no == FALSE
  <2>1. r.digit = -1 /\ r.net = n /\ r.news = [ w EXCEPT !.lost = no ]
    BY <1>1 DEF News!Response
  <2>2. no \in BOOLEAN
    OBVIOUS
  <2> HIDE DEF no
  <2>3. NewsStep(n, w, n, [ w EXCEPT !.lost = no ])
    BY <2>2, NewsCloseSteps
  <2>4. QED
    BY <2>1, <2>3
<1>2. CASE ~ w.lost
  <2>1. PICK o \in HTGetChararcter(n) :
          r \in IF o.item = EOF
                THEN LET closed == News!Disconnected(o.net, w)
                     IN  { [ digit |-> -1, net |-> closed.net, news |-> closed.news ] }
                ELSE { [ digit |-> IF d = Notice THEN 4 ELSE d, net |-> o.net, news |-> w ]
                       : d \in NumbersOf(o.item) }
    BY <1>2, NewsInput DEF News!Response
  <2>2. o.net \in Nets(Hosts) /\ \A A : Covers(n, A) => Covers(o.net, A)
    BY GetFits, GetCovers
  <2>3. CASE o.item = EOF
    <3>1. r.digit = -1 /\ r.net = Close(o.net, w.s) /\ r.news = [ w EXCEPT !.s = Null ]
      BY <2>1, <2>3, NewsInput DEF News!Disconnected
    <3>2. NewsStep(o.net, w, Close(o.net, w.s), [ w EXCEPT !.s = Null ])
      BY <2>2, NewsCloseSteps, Zenon
    <3>3. QED
      BY <2>2, <3>1, <3>2 DEF NewsStep
  <2>4. CASE o.item # EOF
    <3>1. PICK d \in NumbersOf(o.item) :
            r = [ digit |-> IF d = Notice THEN 4 ELSE d, net |-> o.net, news |-> w ]
      BY <2>1, <2>4
    <3>2. d \in 0 .. 5 \cup { Notice }
      BY DEF NumbersOf
    <3>3. r.digit \in -1 .. 5 /\ r.net = o.net /\ r.news = w
      BY <3>1, <3>2
    <3>4. QED
      BY <2>2, <3>3 DEF NewsStep
  <2>5. QED
    BY <2>3, <2>4
<1>3. QED
  BY <1>1, <1>2 DEF NewsStates

NewsReaches(n, w) ==
  /\ n \in Nets(Hosts) /\ w \in NewsStates /\ w.initialized
  /\ \A B : Covers(net, { news.s } \cup B) => Covers(n, { w.s } \cup B)

LEMMA NewsMoves ==
  ASSUME Inv, pc \in NewsBusy \cup { "news" },
         UNCHANGED << ftp, http, gopher, request >>,
         NEW n, NEW w, NewsReaches(n, w), net' = n, news' = w,
         pc' \in NewsBusy \cup { "return" }, status' \in Int, text' \in BOOLEAN
  PROVE  Inv'
<1>1. request' = request /\ ftp' = ftp /\ http' = http /\ gopher' = gopher
  OBVIOUS
<1>2. news' \in NewsStates /\ net' \in Nets(Hosts) /\ news'.initialized
  BY DEF NewsReaches
<1>3. TypeOK'
  <2>1. News!NewsOK'
    BY <1>2, NewsInput DEF News!NewsOK, NewsStates
  <2>2. FTP!FtpOK' /\ Web!HttpOK' /\ Gopher!GopherOK'
    BY <1>1 DEF Inv, TypeOK, FTP!FtpOK, Web!HttpOK, Gopher!GopherOK
  <2>3. pc' \in Labels
    BY DEF Labels, Reading, NewsBusy
  <2>4. QED
    BY <1>2, <2>1, <2>2, <2>3 DEF TypeOK
<1>4. Covers(net', request'.open \cup Owned')
  <2> DEFINE B == request.open \cup FtpSockets(ftp) \cup { http.s, gopher.s }
  <2>1. Covers(net, request.open \cup Owned)
    BY DEF Inv, NewsBusy, Stopped
  <2>2. request.open \cup Owned = { news.s } \cup B
    BY DEF Owned
  <2>3. request'.open \cup Owned' = { w.s } \cup B
    BY <1>1 DEF Owned
  <2> HIDE DEF B
  <2>4. QED
    BY <2>1, <2>2, <2>3 DEF NewsReaches
<1>5. QED
  BY <1>1, <1>2, <1>3, <1>4 DEF Inv, RequestFits, LinkFits, FtpBusy, FtpAsks,
                                NewsBusy,
     HttpBusy, GopherBusy, Stopped

LEMMA NewsGoes ==
  ASSUME Inv, pc \in NewsBusy \cup { "news" }, UNCHANGED << ftp, http, gopher >>,
         NEW n, NEW w, NewsReaches(n, w)
  PROVE  /\ \A label \in NewsBusy : News!Goto(n, w, label) => Inv'
         /\ \A value \in Int, shown \in BOOLEAN : News!Return(n, w, value, shown) => Inv'
         /\ \A cmd, label : label \in NewsBusy /\ News!Ask(n, w, cmd, label) => Inv'
<1>1. ASSUME NEW m, NEW v, NewsReaches(m, v), NEW label \in NewsBusy, News!Goto(m, v, label)
      PROVE  Inv'
  <2>1. net' = m /\ news' = v /\ pc' = label /\ UNCHANGED << request, status, text >>
    BY <1>1 DEF News!Goto
  <2>2. status' \in Int /\ text' \in BOOLEAN
    BY <2>1 DEF Inv, TypeOK
  <2>3. QED
    BY <1>1, <2>1, <2>2, NewsMoves
<1>2. ASSUME NEW value \in Int, NEW shown \in BOOLEAN, News!Return(n, w, value, shown)
      PROVE  Inv'
  <2>1. /\ net' = n /\ news' = w /\ pc' = "return" /\ UNCHANGED request
        /\ status' = value /\ text' = shown
    BY <1>2 DEF News!Return
  <2>2. QED
    BY <1>2, <2>1, NewsMoves
<1>3. ASSUME NEW cmd, NEW label \in NewsBusy, News!Ask(n, w, cmd, label)
      PROVE  Inv'
  <2>1. PICK o \in News!Command(n, w, cmd) : News!Goto(o.net, o.news, label)
    BY <1>3 DEF News!Ask
  <2>2. n \in Nets(Hosts) /\ w \in NewsStates
    BY DEF NewsReaches
  <2>3. NewsStep(n, w, o.net, o.news)
    BY <2>2, NewsCommandSteps
  <2>4. NewsReaches(o.net, o.news)
    BY <2>3 DEF NewsReaches, NewsStep
  <2>5. QED
    BY <1>1, <2>1, <2>4
<1>4. QED
  BY <1>1, <1>2, <1>3

LEMMA NewsStands ==
  ASSUME Inv, pc \in NewsBusy
  PROVE  /\ NewsReaches(net, news) /\ net \in Nets(Hosts) /\ news \in NewsStates
         /\ \A m, v : NewsStep(net, news, m, v) => NewsReaches(m, v)
<1>1. net \in Nets(Hosts) /\ news \in NewsStates /\ news.initialized
  BY NewsInput DEF Inv, TypeOK, News!NewsOK, NewsStates
<1>2. QED
  BY <1>1 DEF NewsReaches, NewsStep

LEMMA NewsDisconnects ==
  ASSUME Inv, pc \in NewsBusy, UNCHANGED << ftp, http, gopher >>,
         NEW n, NEW w, NewsReaches(n, w), NEW c, c = News!Disconnected(n, w)
  PROVE  NewsReaches(c.net, c.news)
<1>1. n \in Nets(Hosts) /\ w \in NewsStates
  BY DEF NewsReaches
<1>2. c.net = Close(n, w.s) /\ c.news = [ w EXCEPT !.s = Null ]
  BY NewsInput DEF News!Disconnected
<1>3. NewsStep(n, w, c.net, c.news)
  BY <1>1, <1>2, NewsCloseSteps, Zenon
<1>4. QED
  BY <1>3 DEF NewsReaches, NewsStep

LEMMA NextArticleKeepsInv ==
  ASSUME Inv, pc \in NewsBusy, UNCHANGED << ftp, http, gopher >>,
         NEW n, NEW w, NewsReaches(n, w), News!NextArticle(n, w)
  PROVE  Inv'
<1>1. CASE w.article = 0
  <2>1. News!Return(n, w, News!HT_LOADED, TRUE)
    BY <1>1 DEF News!NextArticle
  <2>2. News!HT_LOADED \in Int
    BY DEF News!HT_LOADED
  <2>3. QED
    BY <2>1, <2>2, NewsGoes
<1>2. CASE w.article # 0
  <2> DEFINE v == [ w EXCEPT !.article = @ - 1 ]
  <2>1. News!Ask(n, v, "HEAD", "news head reply") /\ "news head reply" \in NewsBusy
    BY <1>2 DEF News!NextArticle, NewsBusy
  <2>2. w \in NewsStates
    BY DEF NewsReaches
  <2>3. w.article - 1 \in 0 .. MaxArticles
    BY <1>2, <2>2, BoundAssumption DEF NewsStates
  <2>4. v \in NewsStates /\ v.s = w.s /\ v.initialized = w.initialized
    BY <2>2, <2>3 DEF NewsStates
  <2> HIDE DEF v
  <2>5. NewsReaches(n, v)
    BY <2>4 DEF NewsReaches
  <2>6. QED
    BY <2>1, <2>5, NewsGoes
<1>3. QED
  BY <1>1, <1>2
LEMMA NewsStarts ==
  ASSUME Inv, UNCHANGED << ftp, http, gopher >>,
         \/ News!CannotInitialize \/ News!Initialize \/ News!CannotConnect \/ News!Connect
         \/ News!Reuse
  PROVE  Inv'
<1>1. net \in Nets(Hosts) /\ news \in NewsStates
  BY NewsInput DEF Inv, TypeOK, News!NewsOK, NewsStates
<1>2. CASE News!CannotInitialize
  <2>1. /\ pc = "news" /\ net' = net /\ news' = news /\ pc' = "return" /\ status' = -1
        /\ text' \in BOOLEAN /\ request' = request
        /\ ftp' = ftp /\ http' = http /\ gopher' = gopher
    BY <1>2, Zenon DEF News!CannotInitialize, News!Return
  <2>2. TypeOK'
    <3>1. FTP!FtpOK' /\ News!NewsOK' /\ Web!HttpOK' /\ Gopher!GopherOK'
      BY <2>1 DEF Inv, TypeOK, FTP!FtpOK, News!NewsOK, Web!HttpOK,
                  Gopher!GopherOK
    <3>2. pc' \in Labels /\ status' \in Int
      BY <2>1 DEF Labels
    <3>3. QED
      BY <1>1, <2>1, <3>1, <3>2 DEF TypeOK
  <2>3. ~ (pc' = "return" => status' = HT_LOADED)
    BY <2>1 DEF HT_LOADED
  <2>4. QED
    BY <2>1, <2>2, <2>3 DEF Inv, RequestFits, LinkFits, FtpBusy, FtpAsks,
                            NewsBusy, HttpBusy,
       GopherBusy, Stopped
<1>3. CASE News!Initialize
  <2> DEFINE yes == TRUE
             no  == FALSE
             s0  == IF news.initialized THEN news.s ELSE Null
             w == [ news EXCEPT !.s = s0, !.initialized = yes, !.retries = 0, !.lost = no ]
  <2>1. pc = "news" /\ News!Goto(net, w, "news try")
    BY <1>3, NewsInput DEF News!Initialize
  <2>2. yes \in BOOLEAN /\ no \in BOOLEAN /\ yes
    OBVIOUS
  <2>3. s0 = news.s
    BY DEF Inv
  <2> HIDE DEF yes, no, s0
  <2>4. w \in NewsStates /\ w.initialized /\ w.s = news.s
    <3>1. yes \in BOOLEAN /\ no \in BOOLEAN /\ 0 \in 0 .. 1
      BY <2>2
    <3>2. s0 \in Fds \cup { Null }
      BY <1>1, <2>3 DEF NewsStates
    <3>3. w \in NewsStates
      BY <1>1, <3>1, <3>2 DEF NewsStates
    <3>4. w.s = s0
      BY <1>1 DEF NewsStates
    <3>5. w.initialized = yes
      BY <1>1, <3>1 DEF NewsStates
    <3>6. QED
      BY <2>2, <2>3, <3>3, <3>4, <3>5
  <2> HIDE DEF w
  <2>5. NewsReaches(net, w) /\ "news try" \in NewsBusy
    BY <1>1, <2>4 DEF NewsReaches, NewsBusy
  <2>6. QED
    BY <2>1, <2>5, NewsGoes
<1>4. CASE News!CannotConnect
  <2>1. pc \in NewsBusy /\ News!Return(net, news, News!LoadError, FALSE)
    BY <1>4 DEF News!CannotConnect, NewsBusy
  <2>2. News!LoadError \in Int
    BY DEF News!LoadError
  <2>3. QED
    BY <2>1, <2>2, NewsStands, NewsGoes
<1>5. CASE News!Connect
  <2> DEFINE fd == NewSocket(net)
             it(wire) == [ Socket(NewsHost, wire) EXCEPT !.up = wire # << >> ]
             w == [ news EXCEPT !.s = fd ]
  <2>1. PICK wire \in { << 2 >>, << 5 >>, << >> } :
          News!Goto(HTInitInput(With(net, fd, it(wire)), fd), w, "news greeting")
    BY <1>5, NewsInput DEF News!Connect
  <2>2. pc \in NewsBusy /\ "news greeting" \in NewsBusy /\ FreeSockets(net) # { }
    BY <1>5, NewsInput DEF News!Connect, NewsBusy
  <2>3. fd \in Fds
    BY <1>1, <2>2, NewSocketFits
  <2>4. NewsReaches(HTInitInput(With(net, fd, it(wire)), fd), w)
    <3>1. << 2 >> \in Seq(Items) /\ << 5 >> \in Seq(Items) /\ << >> \in Seq(Items)
      BY DEF Items
    <3> DEFINE up == wire # << >>
               x == [ Socket(NewsHost, wire) EXCEPT !.up = up ]
    <3>2. up \in BOOLEAN
      OBVIOUS
    <3>3. Socket(NewsHost, wire) \in Sockets(Hosts)
      BY <3>1, SocketFits DEF Hosts
    <3> HIDE DEF up
    <3>4. x \in Sockets(Hosts)
      BY <3>2, <3>3 DEF Sockets
    <3> DEFINE m == With(net, fd, x)
    <3>5. it(wire) = x
      BY DEF up
    <3> HIDE DEF x, fd
    <3>6. m \in Nets(Hosts)
      BY <1>1, <2>3, <3>4, WithFits
    <3>7. news.initialized
      BY <2>2 DEF Inv
    <3>8. w \in NewsStates /\ w.initialized /\ w.s = fd
      BY <1>1, <2>3, <3>7 DEF NewsStates
    <3> HIDE DEF w
    <3>9. ASSUME NEW B, Covers(net, { news.s } \cup B)
          PROVE  Covers(HTInitInput(m, fd), { w.s } \cup B)
      <4>1. CASE news.s = Null
        <5>1. Covers(m, ({ news.s } \cup B) \cup { fd })
          BY <1>1, <2>3, <3>4, <3>9, WithCovers
        <5> HIDE DEF m
        <5>2. Covers(m, { fd } \cup B)
          BY <4>1, <5>1 DEF Covers, Fds, Null
        <5>3. QED
          BY <2>3, <3>6, <3>8, <5>2, InputFits
      <4>2. QED
        BY <1>5, <4>1, NewsInput DEF News!Connect
    <3>10. HTInitInput(m, fd) \in Nets(Hosts)
      BY <2>3, <3>6, InputFits
    <3> HIDE DEF m
    <3>11. NewsReaches(HTInitInput(m, fd), w)
      BY <3>8, <3>9, <3>10 DEF NewsReaches
    <3>12. QED
      BY <3>5, <3>11 DEF m
  <2> HIDE DEF fd, it, w
  <2>5. QED
    BY <2>1, <2>2, <2>4, NewsGoes
<1>6. CASE News!Reuse
  <2>1. pc \in NewsBusy /\ News!Ask(net, news, News!Wanted, "news command")
        /\ "news command" \in NewsBusy
    BY <1>6 DEF News!Reuse, NewsBusy
  <2>2. QED
    BY <2>1, NewsStands, NewsGoes
<1>7. QED
  BY <1>2, <1>3, <1>4, <1>5, <1>6

LEMMA NewsRepliesKeepInv ==
  ASSUME Inv, News!Greeting \/ News!CommandReply \/ News!HeadReply,
         UNCHANGED << ftp, http, gopher >>
  PROVE  Inv'
<1>1. pc \in NewsBusy /\ { "news command", "news try", "news body", "news head" } \subseteq NewsBusy
  BY DEF News!Greeting, News!CommandReply, News!HeadReply, News!OnReply,
         NewsBusy
<1>2. News!LoadError \in Int /\ News!HT_LOADED \in Int
  BY DEF News!LoadError, News!HT_LOADED
<1>3. PICK r \in News!Response(net, news) :
        LET closed == News!Disconnected(r.net, r.news)
        IN  \/ News!Ask(r.net, r.news, News!Wanted, "news command")
            \/ News!Return(closed.net, closed.news, News!LoadError, FALSE)
            \/ News!Return(r.net, r.news, News!HT_LOADED, FALSE)
            \/ News!Goto(closed.net, [ closed.news EXCEPT !.retries = 1 ], "news try")
            \/ News!Return(closed.net, closed.news, News!HT_LOADED, FALSE)
            \/ News!Goto(r.net, r.news, "news body")
            \/ \E k \in 0 .. MaxArticles :
                 News!NextArticle(r.net, [ r.news EXCEPT !.article = k ])
            \/ News!Goto(r.net, r.news, "news head")
            \/ News!NextArticle(r.net, r.news)
  BY Zenon DEF News!Greeting, News!CommandReply, News!HeadReply, News!OnReply
<1>4. NewsReaches(r.net, r.news) /\ r.news \in NewsStates
  <2>1. NewsStep(net, news, r.net, r.news)
    BY <1>1, NewsStands, NewsReplySteps
  <2>2. QED
    BY <1>1, <2>1, NewsStands DEF NewsReaches
<1> DEFINE closed == News!Disconnected(r.net, r.news)
<1>5. NewsReaches(closed.net, closed.news)
  BY <1>1, <1>4, NewsDisconnects
<1>6. CASE \/ News!Ask(r.net, r.news, News!Wanted, "news command")
           \/ News!Return(r.net, r.news, News!HT_LOADED, FALSE)
           \/ News!Goto(r.net, r.news, "news body")
           \/ News!Goto(r.net, r.news, "news head")
  BY <1>1, <1>2, <1>4, <1>6, NewsGoes
<1> HIDE DEF closed
<1>7. CASE \/ News!Return(closed.net, closed.news, News!LoadError, FALSE)
           \/ News!Return(closed.net, closed.news, News!HT_LOADED, FALSE)
  BY <1>1, <1>2, <1>5, <1>7, NewsGoes
<1>8. CASE News!Goto(closed.net, [ closed.news EXCEPT !.retries = 1 ], "news try")
  <2> DEFINE w == [ closed.news EXCEPT !.retries = 1 ]
  <2>1. closed.news \in NewsStates
    BY <1>5 DEF NewsReaches
  <2>2. w \in NewsStates /\ w.s = closed.news.s /\ w.initialized = closed.news.initialized
    BY <2>1 DEF NewsStates
  <2> HIDE DEF w
  <2>3. NewsReaches(closed.net, w)
    BY <1>5, <2>2 DEF NewsReaches
  <2>4. News!Goto(closed.net, w, "news try")
    BY <1>8 DEF w
  <2>5. QED
    BY <1>1, <2>3, <2>4, NewsGoes
<1>9. CASE \E k \in 0 .. MaxArticles :
             News!NextArticle(r.net, [ r.news EXCEPT !.article = k ])
  <2>1. PICK k \in 0 .. MaxArticles :
          News!NextArticle(r.net, [ r.news EXCEPT !.article = k ])
    BY <1>9
  <2> DEFINE w == [ r.news EXCEPT !.article = k ]
  <2>2. w \in NewsStates /\ w.s = r.news.s /\ w.initialized = r.news.initialized
    BY <1>4 DEF NewsStates
  <2>3. News!NextArticle(r.net, w)
    BY <2>1
  <2> HIDE DEF w
  <2>4. NewsReaches(r.net, w)
    BY <1>4, <2>2 DEF NewsReaches
  <2>5. QED
    BY <1>1, <2>3, <2>4, NextArticleKeepsInv
<1>10. CASE News!NextArticle(r.net, r.news)
  BY <1>1, <1>4, <1>10, NextArticleKeepsInv
<1>11. QED
  BY <1>3, <1>6, <1>7, <1>8, <1>9, <1>10 DEF closed

LEMMA NewsLinesKeepInv ==
  ASSUME Inv, News!Body \/ News!Head_, UNCHANGED << ftp, http, gopher >>
  PROVE  Inv'
<1>1. pc \in NewsBusy
  BY DEF News!Body, News!Head_, News!Line, NewsBusy
<1>2. PICK o \in HTGetChararcter(net) :
        LET closed == News!Disconnected(o.net, news)
        IN  \/ News!Return(o.net, news, News!HT_LOADED, TRUE)
            \/ News!NextArticle(o.net, news)
            \/ News!Return(closed.net, closed.news, News!HT_LOADED, TRUE)
            \/ News!Goto(o.net, news, "news body") \/ News!Goto(o.net, news, "news head")
  BY NewsInput, Zenon DEF News!Body, News!Head_, News!Line
<1>3. { "news body", "news head" } \subseteq NewsBusy /\ News!HT_LOADED \in Int
  BY DEF NewsBusy, News!HT_LOADED
<1>4. NewsReaches(o.net, news)
  <2>1. net \in Nets(Hosts) /\ news \in NewsStates /\ NewsReaches(net, news)
    BY <1>1, NewsStands
  <2>2. o.net \in Nets(Hosts) /\ \A A : Covers(net, A) => Covers(o.net, A)
    BY <2>1, GetFits, GetCovers
  <2>3. QED
    BY <2>1, <2>2 DEF NewsReaches
<1> DEFINE closed == News!Disconnected(o.net, news)
<1>5. NewsReaches(closed.net, closed.news)
  BY <1>1, <1>4, NewsDisconnects
<1> HIDE DEF closed
<1>6. CASE News!Return(closed.net, closed.news, News!HT_LOADED, TRUE)
  BY <1>1, <1>3, <1>5, <1>6, NewsGoes
<1>7. CASE \/ News!Return(o.net, news, News!HT_LOADED, TRUE)
           \/ News!Goto(o.net, news, "news body") \/ News!Goto(o.net, news, "news head")
  BY <1>1, <1>3, <1>4, <1>7, NewsGoes
<1>8. CASE News!NextArticle(o.net, news)
  BY <1>1, <1>4, <1>8, NextArticleKeepsInv
<1>9. QED
  BY <1>2, <1>6, <1>7, <1>8 DEF closed

LEMMA NewsKeepsInv ==
  ASSUME Inv, News!HTLoadNews, UNCHANGED << ftp, http, gopher >>
  PROVE  Inv'
BY NewsStarts, NewsRepliesKeepInv, NewsLinesKeepInv DEF News!HTLoadNews
-----------------------------------------------------------------------------
LEMMA WebInput ==
  /\ Web!Null = Null /\ Web!Fds = Fds
  /\ \A peer, wire : Web!Socket(peer, wire) = Socket(peer, wire)
  /\ \A n : /\ Web!FreeSockets(n) = FreeSockets(n) /\ Web!NewSocket(n) = NewSocket(n)
            /\ Web!Overwritten(n) = Overwritten(n)
  /\ \A n, fd : Web!Close(n, fd) = Close(n, fd)
  /\ \A n, fd, it : Web!With(n, fd, it) = With(n, fd, it)
<1> USE DEF Web!Null, Null, Web!Fds, Fds
<1>1. \A peer, wire : Web!Socket(peer, wire) = Socket(peer, wire)
  BY DEF Web!Socket, Socket
<1>2. Web!Unused = Unused
  BY <1>1, Zenon DEF Web!Unused, Unused
<1>3. \A n, fd, it : Web!With(n, fd, it) = With(n, fd, it)
  BY DEF Web!With, With
<1>4. \A n, fd : Web!IsOpen(n, fd) = IsOpen(n, fd) /\ Web!Close(n, fd) = Close(n, fd)
  BY <1>2, <1>3 DEF Web!IsOpen, IsOpen, Web!Close, Close
<1>5. \A n : Web!FreeSockets(n) = FreeSockets(n)
  BY <1>4 DEF Web!FreeSockets, FreeSockets, Web!OpenSockets, OpenSockets
<1>6. \A n : Web!NewSocket(n) = NewSocket(n)
  BY <1>5 DEF Web!NewSocket, NewSocket, Web!Min, Min
<1>7. \A n : Web!Overwritten(n) = Overwritten(n)
  BY Zenon DEF Web!Overwritten, Overwritten, Web!Garbage, Garbage
<1>8. QED
  BY <1>1, <1>3, <1>4, <1>5, <1>6, <1>7

WebStates == [ s : Fds \cup { Null }, extensions : BOOLEAN ]

LEMMA WebMoves ==
  ASSUME Inv, pc \in { "http", "http send", "http reply" },
         UNCHANGED << ftp, news, gopher, request >>,
         net' \in Nets(Hosts), http' \in WebStates,
         pc' \in { "http", "http send", "http reply", "return" },
         pc' \in { "http", "return" } => http'.s = Null,
         status' \in Int, text' \in BOOLEAN,
         ASSUME pc' = "return" => status' = HT_LOADED, NEW B,
                Covers(net, { http.s } \cup B)
         PROVE  Covers(net', { http'.s } \cup B)
  PROVE  Inv'
<1>1. request' = request /\ ftp' = ftp /\ news' = news /\ gopher' = gopher
  OBVIOUS
<1>2. TypeOK'
  <2>1. Web!HttpOK'
    BY WebInput DEF Web!HttpOK, WebStates
  <2>2. FTP!FtpOK' /\ News!NewsOK' /\ Gopher!GopherOK'
    BY <1>1 DEF Inv, TypeOK, FTP!FtpOK, News!NewsOK, Gopher!GopherOK
  <2>3. pc' \in Labels
    BY DEF Labels
  <2>4. QED
    BY <2>1, <2>2, <2>3 DEF TypeOK
<1>3. ASSUME pc' = "return" => status' = HT_LOADED
      PROVE  Covers(net', request'.open \cup Owned')
  <2> DEFINE B == request.open \cup FtpSockets(ftp) \cup { news.s, gopher.s }
  <2>1. Covers(net, request.open \cup Owned)
    BY DEF Inv, Stopped
  <2>2. request.open \cup Owned = { http.s } \cup B
    BY DEF Owned
  <2>3. request'.open \cup Owned' = { http'.s } \cup B
    BY <1>1 DEF Owned
  <2> HIDE DEF B
  <2>4. QED
    BY <1>3, <2>1, <2>2, <2>3
<1>4. QED
  BY <1>1, <1>2, <1>3 DEF Inv, RequestFits, LinkFits, FtpBusy, FtpAsks,
                          NewsBusy, HttpBusy,
     GopherBusy, Stopped

LEMMA WebReturns ==
  ASSUME Inv, pc \in { "http", "http send", "http reply" }, UNCHANGED << ftp, news, gopher >>,
         NEW n \in Nets(Hosts), NEW value \in Int, NEW shown \in BOOLEAN,
         Web!Return(n, value, shown),
         ASSUME value = HT_LOADED, NEW B, Covers(net, { http.s } \cup B)
         PROVE  Covers(n, { Null } \cup B)
  PROVE  Inv'
<1> DEFINE h == [ http EXCEPT !.s = Null ]
<1>1. /\ net' = n /\ http' = h /\ pc' = "return" /\ status' = value /\ text' = shown
      /\ request' = request
  BY WebInput DEF Web!Return
<1>2. http \in WebStates
  BY WebInput DEF Inv, TypeOK, Web!HttpOK, WebStates
<1>3. h \in WebStates /\ h.s = Null
  BY <1>2 DEF WebStates
<1> HIDE DEF h
<1>4. QED
  BY <1>1, <1>3, WebMoves

LEMMA WebGoes ==
  ASSUME Inv, pc \in { "http", "http send", "http reply" }, UNCHANGED << ftp, news, gopher >>,
         NEW n \in Nets(Hosts), NEW h \in WebStates,
         NEW label \in { "http", "http send", "http reply" }, label = "http" => h.s = Null,
         Web!Goto(n, h, label),
         ASSUME NEW B, Covers(net, { http.s } \cup B)
         PROVE  Covers(n, { h.s } \cup B)
  PROVE  Inv'
<1>1. net' = n /\ http' = h /\ pc' = label /\ UNCHANGED << request, status, text >>
  BY DEF Web!Goto
<1>2. status' \in Int /\ text' \in BOOLEAN
  BY <1>1 DEF Inv, TypeOK
<1>3. QED
  BY <1>1, <1>2, WebMoves

LEMMA WebKeepsInv ==
  ASSUME Inv, Web!HTLoadHTTP, UNCHANGED << ftp, news, gopher >>
  PROVE  Inv'
<1> DEFINE fd == NewSocket(net)
           it == Socket(request.host, << >>)
           open == With(net, fd, it)
           closed == Close(net, http.s)
<1>1. net \in Nets(Hosts) /\ http \in WebStates
  BY WebInput DEF Inv, TypeOK, Web!HttpOK, WebStates
<1>2. pc \in { "http", "http send", "http reply" } /\ request.host \in Hosts
  BY DEF Web!HTLoadHTTP, Web!CannotConnect, Web!Connect, Web!CannotSend,
         Web!Send,
     Web!ReadError, Web!Answer, Web!Retry, Web!BadStatus, Web!Copy, Web!NoConverter,
     Inv, RequestFits, Stopped
<1>3. it \in Sockets(Hosts)
  <2>1. << >> \in Seq(Items)
    OBVIOUS
  <2>2. QED
    BY <1>2, <2>1, SocketFits
<1>4. closed \in Nets(Hosts)
  BY <1>1, CloseFits
<1>5. ASSUME NEW B, Covers(net, { http.s } \cup B), NEW g
      PROVE  Covers(closed, { g } \cup B)
  <2>1. Covers(closed, ({ http.s } \cup B) \ { http.s })
    BY <1>1, <1>5, CloseCovers
  <2> HIDE DEF closed
  <2>2. QED
    BY <2>1 DEF Covers
<1>6. ASSUME FreeSockets(net) # { }
      PROVE  fd \in Fds /\ open \in Nets(Hosts)
  BY <1>1, <1>3, <1>6, NewSocketFits, WithFits
<1>7. -1 \in Int /\ -1 # HT_LOADED /\ Web!LoadError \in Int /\ Web!HT_LOADED \in Int
      /\ Web!LoadError # HT_LOADED /\ FALSE \in BOOLEAN
  BY DEF Web!LoadError, Web!HT_LOADED, HT_LOADED
<1> HIDE DEF it
<1>8. CASE Web!CannotConnect
  <2> HIDE DEF fd, open
  <2>1. \/ Web!Return(net, -1, FALSE)
        \/ FreeSockets(net) # { } /\ Web!Return(open, -1, FALSE)
    BY <1>8, WebInput DEF Web!CannotConnect, fd, open, it
  <2>2. QED
    BY <1>1, <1>2, <1>6, <1>7, <2>1, WebReturns
<1>9. CASE Web!Connect
  <2> DEFINE h == [ http EXCEPT !.s = fd ]
  <2>1. FreeSockets(net) # { } /\ Web!Goto(open, h, "http send") /\ pc = "http"
    BY <1>9, WebInput DEF Web!Connect, it
  <2>2. fd \in Fds /\ open \in Nets(Hosts)
    BY <1>6, <2>1
  <2>3. h \in WebStates /\ h.s = fd
    BY <1>1, <2>2 DEF WebStates
  <2> HIDE DEF fd, h
  <2>4. ASSUME NEW B, Covers(net, { http.s } \cup B)
        PROVE  Covers(open, { h.s } \cup B)
    <3>1. Covers(open, ({ http.s } \cup B) \cup { fd })
      BY <1>1, <1>3, <2>2, <2>4, WithCovers
    <3>2. http.s = Null
      BY <2>1 DEF Inv, HttpBusy
    <3> HIDE DEF open
    <3>3. QED
      BY <2>3, <3>1, <3>2 DEF Covers, Fds, Null
  <2> HIDE DEF open
  <2>5. QED
    BY <1>2, <2>1, <2>2, <2>3, <2>4, WebGoes
<1>10. CASE Web!CannotSend
  BY <1>1, <1>2, <1>7, <1>10, WebReturns DEF Web!CannotSend
<1>11. CASE Web!Send
  BY <1>1, <1>2, <1>11, WebGoes DEF Web!Send
<1> HIDE DEF closed
<1>12. CASE Web!ReadError
  <2>1. Web!Return(closed, -1, FALSE)
    BY <1>12, WebInput DEF Web!ReadError, closed
  <2>2. QED
    BY <1>2, <1>4, <1>7, <2>1, WebReturns
<1>13. CASE Web!Retry
  <2> DEFINE h == [ s |-> Null, extensions |-> FALSE ]
  <2>1. Web!Goto(closed, h, "http")
    BY <1>13, WebInput DEF Web!Retry, closed
  <2>2. h \in WebStates /\ h.s = Null
    BY DEF WebStates
  <2> HIDE DEF h
  <2>3. QED
    BY <1>2, <1>4, <1>5, <2>1, <2>2, WebGoes
<1>14. CASE Web!BadStatus
  <2>1. Web!Return(closed, Web!LoadError, FALSE)
    BY <1>14, WebInput DEF Web!BadStatus, closed
  <2>2. QED
    BY <1>2, <1>4, <1>7, <2>1, WebReturns
<1>15. CASE Web!Copy
  <2>1. PICK shown \in BOOLEAN : Web!Return(Overwritten(closed), Web!HT_LOADED, shown)
    BY <1>15, WebInput DEF Web!Copy, closed
  <2>2. /\ Overwritten(closed) \in Nets(Hosts)
        /\ \A A : Covers(closed, A) => Covers(Overwritten(closed), A)
    BY <1>4, OverwrittenFits
  <2>3. QED
    BY <1>2, <1>5, <1>7, <2>1, <2>2, WebReturns
<1>16. CASE Web!NoConverter
  <2>1. pc' = "double free" /\ UNCHANGED << net, http, request, status, text, ftp, news, gopher >>
    BY <1>16 DEF Web!NoConverter
  <2>2. TypeOK'
    <3>1. FTP!FtpOK' /\ News!NewsOK' /\ Web!HttpOK' /\ Gopher!GopherOK'
      BY <2>1 DEF Inv, TypeOK, FTP!FtpOK, News!NewsOK, Web!HttpOK,
                  Gopher!GopherOK
    <3>2. pc' \in Labels /\ status' \in Int /\ text' \in BOOLEAN /\ net' \in Nets(Hosts)
      BY <2>1 DEF Labels, Stopped, Inv, TypeOK
    <3>3. QED
      BY <3>1, <3>2 DEF TypeOK
  <2>3. QED
    BY <1>2, <2>1, <2>2 DEF Inv, RequestFits, LinkFits, FtpBusy, FtpAsks,
                            NewsBusy, HttpBusy,
       GopherBusy, Stopped
<1>17. QED
  BY <1>8, <1>9, <1>10, <1>11, <1>12, <1>13, <1>14, <1>15, <1>16
     DEF Web!HTLoadHTTP, Web!Answer
-----------------------------------------------------------------------------
LEMMA GopherInput ==
  /\ Gopher!Null = Null /\ Gopher!EOF = EOF /\ Gopher!Fds = Fds
  /\ Gopher!Dot = Dot /\ Gopher!Text = Text
  /\ \A peer, wire : Gopher!Socket(peer, wire) = Socket(peer, wire)
  /\ \A n : /\ Gopher!FreeSockets(n) = FreeSockets(n)
            /\ Gopher!NewSocket(n) = NewSocket(n)
            /\ Gopher!HTGetChararcter(n) = HTGetChararcter(n)
            /\ Gopher!Overwritten(n) = Overwritten(n)
  /\ \A n, fd : /\ Gopher!Close(n, fd) = Close(n, fd)
                /\ Gopher!HTInitInput(n, fd) = HTInitInput(n, fd)
  /\ \A n, fd, it : Gopher!With(n, fd, it) = With(n, fd, it)
<1> USE DEF Gopher!Null, Null, Gopher!EOF, EOF, Gopher!Fds, Fds
<1>1. Gopher!Dot = Dot /\ Gopher!Text = Text
  BY DEF Gopher!Dot, Dot, Gopher!Text, Text
<1>2. \A peer, wire : Gopher!Socket(peer, wire) = Socket(peer, wire)
  BY DEF Gopher!Socket, Socket
<1>3. Gopher!Unused = Unused
  BY <1>2, Zenon DEF Gopher!Unused, Unused
<1>4. \A n, fd, it : Gopher!With(n, fd, it) = With(n, fd, it)
  BY DEF Gopher!With, With
<1>5. \A n, fd : /\ Gopher!IsOpen(n, fd) = IsOpen(n, fd)
                 /\ Gopher!Close(n, fd) = Close(n, fd)
                 /\ Gopher!HTInitInput(n, fd) = HTInitInput(n, fd)
  BY <1>3, <1>4 DEF Gopher!IsOpen, IsOpen, Gopher!Close, Close,
                    Gopher!HTInitInput,
     HTInitInput
<1>6. \A n : Gopher!FreeSockets(n) = FreeSockets(n)
  BY <1>5 DEF Gopher!FreeSockets, FreeSockets, Gopher!OpenSockets, OpenSockets
<1>7. \A n : Gopher!NewSocket(n) = NewSocket(n)
  BY <1>6 DEF Gopher!NewSocket, NewSocket, Gopher!Min, Min
<1>8. \A n : Gopher!HTGetChararcter(n) = HTGetChararcter(n)
  BY <1>4, <1>5, Zenon DEF Gopher!HTGetChararcter, HTGetChararcter
<1>9. \A n : Gopher!Overwritten(n) = Overwritten(n)
  BY Zenon DEF Gopher!Overwritten, Overwritten, Gopher!Garbage, Garbage
<1>10. QED
  BY <1>1, <1>2, <1>4, <1>5, <1>6, <1>7, <1>8, <1>9

GopherStates ==
  [ s : Fds \cup { Null }, name : Gopher!Fields, selector : Gopher!Fields,
    link : [ by : { "none", "www", "other" }, text : Gopher!Fields, address : Gopher!Fields ] ]

LinkOf(g) ==
  g.link.by = "other" => g.link.text = "this line" /\ g.link.address = "this line"

LEMMA GopherMoves ==
  ASSUME Inv, pc \in { "gopher", "gopher send", "gopher menu", "gopher cso", "gopher file" },
         UNCHANGED << ftp, news, http, request >>,
         net' \in Nets(Hosts), gopher' \in GopherStates, LinkOf(gopher'),
         pc' \in { "gopher send", "gopher menu", "gopher cso", "gopher file", "return",
                   "null pointer" },
         pc' = "return" <=> gopher'.s = Null,
         status' \in Int, text' \in BOOLEAN,
         ASSUME pc' # "null pointer", pc' = "return" => status' = HT_LOADED, NEW B,
                Covers(net, { gopher.s } \cup B)
         PROVE  Covers(net', { gopher'.s } \cup B)
  PROVE  Inv'
<1>1. request' = request /\ ftp' = ftp /\ news' = news /\ http' = http
  OBVIOUS
<1>2. TypeOK'
  <2>1. Gopher!GopherOK'
    BY GopherInput DEF Gopher!GopherOK, GopherStates
  <2>2. FTP!FtpOK' /\ News!NewsOK' /\ Web!HttpOK'
    BY <1>1 DEF Inv, TypeOK, FTP!FtpOK, News!NewsOK, Web!HttpOK
  <2>3. pc' \in Labels
    BY DEF Labels, Reading, Stopped
  <2>4. QED
    BY <2>1, <2>2, <2>3 DEF TypeOK
<1>3. ASSUME pc' # "null pointer", pc' = "return" => status' = HT_LOADED
      PROVE  Covers(net', request'.open \cup Owned')
  <2> DEFINE B == request.open \cup FtpSockets(ftp) \cup { news.s, http.s }
  <2>1. Covers(net, request.open \cup Owned)
    BY DEF Inv, Stopped
  <2>2. request.open \cup Owned = { gopher.s } \cup B
    BY DEF Owned
  <2>3. request'.open \cup Owned' = { gopher'.s } \cup B
    BY <1>1 DEF Owned
  <2> HIDE DEF B
  <2>4. QED
    BY <1>3, <2>1, <2>2, <2>3
<1>4. LinkFits'
  BY DEF LinkFits, LinkOf
<1>5. QED
  BY <1>1, <1>2, <1>3, <1>4 DEF Inv, RequestFits, FtpBusy, FtpAsks, NewsBusy,
                                HttpBusy,
     GopherBusy, Stopped

LEMMA GopherReturns ==
  ASSUME Inv, pc \in { "gopher", "gopher send", "gopher menu", "gopher cso", "gopher file" },
         UNCHANGED << ftp, news, http >>,
         NEW n \in Nets(Hosts), NEW value \in Int, NEW shown \in BOOLEAN,
         Gopher!Return(n, value, shown),
         ASSUME value = HT_LOADED, NEW B, Covers(net, { gopher.s } \cup B)
         PROVE  Covers(n, { Null } \cup B)
  PROVE  Inv'
<1> DEFINE g == Gopher!InitialGopher
<1>1. /\ net' = n /\ gopher' = g /\ pc' = "return" /\ status' = value /\ text' = shown
      /\ request' = request
  BY DEF Gopher!Return
<1>2. g \in GopherStates /\ g.s = Null /\ LinkOf(g)
  BY GopherInput DEF GopherStates, Gopher!InitialGopher, Gopher!Fields, LinkOf
<1> HIDE DEF g
<1>3. QED
  BY <1>1, <1>2, GopherMoves

LEMMA GopherGoes ==
  ASSUME Inv, pc \in { "gopher", "gopher send", "gopher menu", "gopher cso", "gopher file" },
         UNCHANGED << ftp, news, http >>,
         NEW n \in Nets(Hosts), NEW g \in GopherStates, LinkOf(g), g.s # Null,
         NEW label \in { "gopher send", "gopher menu", "gopher cso", "gopher file" },
         Gopher!Goto(n, g, label),
         ASSUME NEW B, Covers(net, { gopher.s } \cup B)
         PROVE  Covers(n, { g.s } \cup B)
  PROVE  Inv'
<1>1. net' = n /\ gopher' = g /\ pc' = label /\ UNCHANGED << request, status, text >>
  BY DEF Gopher!Goto
<1>2. status' \in Int /\ text' \in BOOLEAN
  BY <1>1 DEF Inv, TypeOK
<1>3. QED
  BY <1>1, <1>2, GopherMoves

LEMMA PagesFit ==
  ASSUME NEW page \in Gopher!Pages
  PROVE  page \in Seq(Items)
<1>1. PICK k \in 0 .. MaxLines : page \in [ 1 .. k -> { Text, Dot } ]
  BY GopherInput DEF Gopher!Pages
<1>2. page \in [ 1 .. k -> Items ]
  BY <1>1 DEF Items
<1>3. k \in Nat
  BY BoundAssumption
<1>4. QED
  BY <1>2, <1>3

(* A link of another protocol is written of a line that has all it needs.  *)
LEMMA LineFits ==
  ASSUME NEW g \in GopherStates, LinkOf(g), NEW line \in Gopher!MenuLines
  PROVE  LET h == Gopher!Written(Gopher!Parsed(g, line), line)
         IN  h \in GopherStates /\ LinkOf(h) /\ h.s = g.s
<1> DEFINE name == IF line.named THEN "this line" ELSE Gopher!Before(g.name)
           selector == IF ~ line.named THEN Gopher!Before(g.selector)
                       ELSE IF line.tabs > 0 THEN "this line" ELSE "null"
           p == Gopher!Parsed(g, line)
           h == Gopher!Written(p, line)
<1>1. /\ name \in Gopher!Fields /\ selector \in Gopher!Fields
      /\ line.named => name = "this line"
      /\ line.named /\ line.tabs = 3 => selector = "this line"
  BY DEF Gopher!Before, Gopher!Fields
<1>2. p = [ g EXCEPT !.name = name, !.selector = selector ]
  BY DEF Gopher!Parsed
<1> HIDE DEF name, selector, p
<1>3. p \in GopherStates /\ p.name = name /\ p.selector = selector /\ p.link = g.link /\ p.s = g.s
  BY <1>1, <1>2 DEF GopherStates
<1>4. SUFFICES h \in GopherStates /\ LinkOf(h) /\ h.s = g.s
  BY DEF p
<1>5. CASE line.www
  <2> DEFINE link == [ by |-> "www", text |-> name, address |-> selector ]
  <2>1. h = [ p EXCEPT !.link = link ]
    BY <1>3, <1>5 DEF Gopher!Written
  <2>2. link \in [ by : { "none", "www", "other" }, text : Gopher!Fields, address : Gopher!Fields ]
        /\ link.by = "www"
    BY <1>1
  <2> HIDE DEF link, h
  <2>3. h \in GopherStates /\ h.link = link /\ h.s = g.s
    BY <1>3, <2>1, <2>2 DEF GopherStates
  <2>4. QED
    BY <2>2, <2>3 DEF LinkOf, h
<1>6. CASE ~ line.www /\ Gopher!HasPort(p, line)
  <2> DEFINE link == [ by |-> "other", text |-> name, address |-> selector ]
  <2>1. h = [ p EXCEPT !.link = link ]
    BY <1>3, <1>6 DEF Gopher!Written
  <2>2. link \in [ by : { "none", "www", "other" }, text : Gopher!Fields, address : Gopher!Fields ]
        /\ link.text = name /\ link.address = selector
    BY <1>1
  <2>3. name = "this line" /\ selector = "this line"
    BY <1>1, <1>6 DEF Gopher!HasPort
  <2> HIDE DEF link, h
  <2>4. h \in GopherStates /\ h.link = link /\ h.s = g.s
    BY <1>3, <2>1, <2>2 DEF GopherStates
  <2>5. QED
    BY <2>2, <2>3, <2>4 DEF LinkOf, h
<1>7. CASE ~ line.www /\ ~ Gopher!HasPort(p, line)
  <2>1. h = [ p EXCEPT !.link = p.link ]
    BY <1>7 DEF Gopher!Written
  <2> HIDE DEF h
  <2>2. h \in GopherStates /\ h.link = g.link /\ h.s = g.s
    BY <1>3, <2>1 DEF GopherStates
  <2>3. QED
    BY <2>2 DEF LinkOf, h
<1>8. QED
  BY <1>5, <1>6, <1>7
LEMMA GopherKeepsInv ==
  ASSUME Inv, Gopher!HTLoadGopher, UNCHANGED << ftp, news, http >>
  PROVE  Inv'
<1> DEFINE Pcs == { "gopher", "gopher send", "gopher menu", "gopher cso", "gopher file" }
           fd == NewSocket(net)
           it == Socket(request.host, << >>)
           open == With(net, fd, it)
<1>1. net \in Nets(Hosts) /\ gopher \in GopherStates /\ LinkOf(gopher)
  BY GopherInput DEF Inv, TypeOK, Gopher!GopherOK, GopherStates, LinkFits,
                     LinkOf
<1>2. pc \in Pcs /\ request.host \in Hosts
  BY DEF Gopher!HTLoadGopher, Gopher!CoverPage, Gopher!CannotConnect,
         Gopher!Connect,
     Gopher!CannotSend, Gopher!Send, Gopher!parse_menu, Gopher!parse_cso, Gopher!File,
     Inv, RequestFits, Stopped
<1>3. it \in Sockets(Hosts)
  <2>1. << >> \in Seq(Items)
    OBVIOUS
  <2>2. QED
    BY <1>2, <2>1, SocketFits
<1>4. ASSUME FreeSockets(net) # { }
      PROVE  fd \in Fds /\ open \in Nets(Hosts)
  BY <1>1, <1>3, <1>4, NewSocketFits, WithFits
<1>5. -1 \in Int /\ -1 # HT_LOADED /\ Gopher!HT_LOADED \in Int
  BY DEF Gopher!HT_LOADED, HT_LOADED
<1>6. ASSUME NEW n \in Nets(Hosts), NEW B, Covers(n, { gopher.s } \cup B), NEW g
      PROVE  Covers(Close(n, gopher.s), { g } \cup B)
  <2> DEFINE m == Close(n, gopher.s)
  <2>1. Covers(m, ({ gopher.s } \cup B) \ { gopher.s })
    BY <1>6, CloseCovers
  <2> HIDE DEF m
  <2>2. Covers(m, { g } \cup B)
    BY <2>1 DEF Covers
  <2>3. QED
    BY <2>2 DEF m
<1>7. ASSUME pc # "gopher"
      PROVE  gopher.s \in Fds
  BY <1>1, <1>2, <1>7 DEF Inv, GopherBusy, GopherStates
<1>8. ASSUME NEW n \in Nets(Hosts), Gopher!Done(n), \A A : Covers(net, A) => Covers(n, A)
      PROVE  Inv'
  <2> DEFINE m == Close(n, gopher.s)
  <2>1. Gopher!Return(m, Gopher!HT_LOADED, TRUE)
    BY <1>8, GopherInput DEF Gopher!Done
  <2>2. m \in Nets(Hosts)
    BY <1>8, CloseFits
  <2>3. ASSUME NEW B, Covers(net, { gopher.s } \cup B)
        PROVE  Covers(m, { Null } \cup B)
    BY <1>6, <1>8, <2>3
  <2> HIDE DEF m
  <2>4. TRUE \in BOOLEAN
    OBVIOUS
  <2>5. QED
    BY <1>2, <1>5, <2>1, <2>2, <2>3, <2>4, GopherReturns
<1> HIDE DEF it
<1>9. CASE Gopher!CoverPage \/ Gopher!CannotConnect \/ Gopher!CannotSend
  <2>1. CASE Gopher!CoverPage
    <3>1. pc = "gopher" /\ Gopher!Return(net, Gopher!HT_LOADED, TRUE)
      BY <2>1 DEF Gopher!CoverPage
    <3>2. gopher.s = Null
      BY <3>1 DEF Inv, GopherBusy
    <3>3. QED
      BY <1>1, <1>2, <1>5, <3>1, <3>2, GopherReturns
  <2>2. CASE Gopher!CannotConnect \/ Gopher!CannotSend
    <3> HIDE DEF fd, open
    <3>1. \/ Gopher!Return(net, -1, FALSE)
          \/ FreeSockets(net) # { } /\ Gopher!Return(open, -1, FALSE)
      BY <2>2, GopherInput DEF Gopher!CannotConnect, Gopher!CannotSend, fd,
                               open, it
    <3>2. QED
      BY <1>1, <1>2, <1>4, <1>5, <3>1, GopherReturns
  <2>3. QED
    BY <1>9, <2>1, <2>2
<1>10. CASE Gopher!Connect
  <2> DEFINE g == [ gopher EXCEPT !.s = fd ]
             m == HTInitInput(open, fd)
  <2>1. FreeSockets(net) # { } /\ Gopher!Goto(m, g, "gopher send") /\ pc = "gopher"
    BY <1>10, GopherInput DEF Gopher!Connect, it
  <2>2. fd \in Fds /\ open \in Nets(Hosts)
    BY <1>4, <2>1
  <2>3. g \in GopherStates /\ g.s = fd /\ g.s # Null /\ g.link = gopher.link
    BY <1>1, <2>2 DEF GopherStates, Fds, Null
  <2> HIDE DEF fd, g
  <2>4. LinkOf(g)
    BY <1>1, <2>3 DEF LinkOf
  <2>5. ASSUME NEW B, Covers(net, { gopher.s } \cup B)
        PROVE  Covers(m, { g.s } \cup B)
    <3>1. Covers(open, ({ gopher.s } \cup B) \cup { fd })
      BY <1>1, <1>3, <2>2, <2>5, WithCovers
    <3>2. gopher.s = Null
      BY <2>1 DEF Inv, GopherBusy
    <3> HIDE DEF open
    <3>3. Covers(open, { g.s } \cup B)
      BY <2>3, <3>1, <3>2 DEF Covers, Fds, Null
    <3>4. QED
      BY <2>2, <3>3, InputFits
  <2>6. m \in Nets(Hosts)
    BY <2>2, InputFits
  <2> HIDE DEF m
  <2>7. QED
    BY <1>2, <2>1, <2>3, <2>4, <2>5, <2>6, GopherGoes
<1>11. CASE Gopher!Send
  <2> DEFINE down(page) == [ Socket(request.host, page) EXCEPT !.up = FALSE ]
  <2>1. PICK page \in Gopher!Pages :
          \E label \in { "gopher menu", "gopher cso", "gopher file" } :
            Gopher!Goto(With(net, gopher.s, down(page)), gopher, label)
    BY <1>11, GopherInput DEF Gopher!Send
  <2>2. gopher.s \in Fds /\ gopher.s # Null
    <3>1. pc # "gopher"
      BY <1>11 DEF Gopher!Send
    <3>2. QED
      BY <1>7, <3>1 DEF Fds, Null
  <2>3. page \in Seq(Items)
    BY <2>1, PagesFit
  <2> DEFINE x == down(page)
  <2>4. x \in Sockets(Hosts)
    BY <1>2, <2>3, SocketFits
  <2> HIDE DEF x
  <2> DEFINE m == With(net, gopher.s, x)
  <2>5. m \in Nets(Hosts)
    BY <1>1, <2>2, <2>4, WithFits
  <2>6. ASSUME NEW B, Covers(net, { gopher.s } \cup B)
        PROVE  Covers(m, { gopher.s } \cup B)
    <3>1. Covers(m, ({ gopher.s } \cup B) \cup { gopher.s })
      BY <1>1, <2>2, <2>4, <2>6, WithCovers
    <3> HIDE DEF m
    <3>2. ({ gopher.s } \cup B) \cup { gopher.s } = { gopher.s } \cup B
      OBVIOUS
    <3>3. QED
      BY <3>1, <3>2
  <2>7. PICK label \in { "gopher menu", "gopher cso", "gopher file" } :
          Gopher!Goto(m, gopher, label)
    BY <2>1 DEF x
  <2> HIDE DEF m
  <2>8. QED
    BY <1>1, <1>2, <2>2, <2>5, <2>6, <2>7, GopherGoes
<1>12. CASE Gopher!parse_menu \/ Gopher!parse_cso
  <2>1. /\ pc \in { "gopher menu", "gopher cso" }
        /\ \E o \in HTGetChararcter(net) :
             \/ Gopher!Done(o.net)
             \/ Gopher!Goto(o.net, gopher, "gopher cso")
             \/ Gopher!NullPointer
             \/ \E line \in Gopher!MenuLines : Gopher!MenuLine(o.net, line)
    BY <1>12, GopherInput, Zenon DEF Gopher!parse_menu, Gopher!parse_cso
  <2>2. PICK o \in HTGetChararcter(net) :
             \/ Gopher!Done(o.net)
             \/ Gopher!Goto(o.net, gopher, "gopher cso")
             \/ Gopher!NullPointer
             \/ \E line \in Gopher!MenuLines : Gopher!MenuLine(o.net, line)
    BY <2>1
  <2>3. o.net \in Nets(Hosts) /\ \A A : Covers(net, A) => Covers(o.net, A)
    BY <1>1, GetFits, GetCovers
  <2>4. gopher.s \in Fds /\ gopher.s # Null
    <3>1. pc # "gopher"
      BY <2>1
    <3>2. QED
      BY <1>7, <3>1 DEF Fds, Null
  <2>5. CASE Gopher!Done(o.net)
    BY <1>8, <2>3, <2>5
  <2>6. CASE Gopher!Goto(o.net, gopher, "gopher cso")
    BY <1>1, <1>2, <2>3, <2>4, <2>6, GopherGoes
  <2>7. ASSUME Gopher!NullPointer
        PROVE  Inv'
    <3>1. /\ pc' = "null pointer" /\ status' \in Int /\ text' \in BOOLEAN
          /\ net' = net /\ gopher' = gopher /\ request' = request
      BY <2>7 DEF Gopher!NullPointer, Inv, TypeOK
    <3>2. QED
      BY <1>1, <1>2, <2>4, <3>1, GopherMoves
  <2>8. ASSUME NEW line \in Gopher!MenuLines, Gopher!MenuLine(o.net, line)
        PROVE  Inv'
    <3> DEFINE g == Gopher!Written(Gopher!Parsed(gopher, line), line)
    <3>1. g \in GopherStates /\ LinkOf(g) /\ g.s = gopher.s
      BY <1>1, LineFits
    <3>2. \/ Gopher!Goto(o.net, g, "gopher menu")
          \/ Gopher!NullPointer
      BY <2>8 DEF Gopher!MenuLine
    <3> HIDE DEF g
    <3>3. CASE Gopher!Goto(o.net, g, "gopher menu")
      BY <1>2, <2>3, <2>4, <3>1, <3>3, GopherGoes
    <3>4. QED
      BY <2>7, <3>2, <3>3
  <2>9. QED
    BY <2>2, <2>5, <2>6, <2>8, <2>7
<1>13. CASE Gopher!File
  <2>1. pc = "gopher file"
    BY <1>13 DEF Gopher!File
  <2>2. gopher.s \in Fds
    BY <1>7, <2>1
  <2>3. PICK shown \in BOOLEAN,
             n \in { HTInitInput(net, gopher.s), Overwritten(net), net } :
          Gopher!Return(Close(n, gopher.s), Gopher!HT_LOADED, shown)
    BY <1>13, GopherInput DEF Gopher!File
  <2>4. n \in Nets(Hosts) /\ \A A : Covers(net, A) => Covers(n, A)
    <3>1. CASE n = HTInitInput(net, gopher.s)
      BY <1>1, <2>2, <3>1, InputFits
    <3>2. CASE n = Overwritten(net)
      BY <1>1, <3>2, OverwrittenFits
    <3>3. CASE n = net
      BY <1>1, <3>3
    <3>4. QED
      BY <2>3, <3>1, <3>2, <3>3
  <2> DEFINE m == Close(n, gopher.s)
  <2>5. m \in Nets(Hosts)
    BY <2>4, CloseFits
  <2>6. ASSUME NEW B, Covers(net, { gopher.s } \cup B)
        PROVE  Covers(m, { Null } \cup B)
    BY <1>6, <2>4, <2>6
  <2>7. Gopher!Return(m, Gopher!HT_LOADED, shown)
    BY <2>3
  <2> HIDE DEF m
  <2>8. QED
    BY <1>2, <1>5, <2>3, <2>5, <2>6, <2>7, GopherReturns
<1>14. QED
  BY <1>9, <1>10, <1>11, <1>12, <1>13 DEF Gopher!HTLoadGopher
-----------------------------------------------------------------------------
LEMMA FileInput == \A n : File!Overwritten(n) = Overwritten(n)
BY Zenon DEF File!Overwritten, Overwritten, File!Garbage, Garbage

LEMMA FileKeepsInv ==
  ASSUME Inv, File!HTLoadFile \/ File!HTLoadTelnet, UNCHANGED << ftp, news, http, gopher >>
  PROVE  Inv'
<1>1. net \in Nets(Hosts) /\ pc \in { "file", "telnet" }
  BY DEF Inv, TypeOK, File!HTLoadFile, File!HTLoadTelnet, File!LocalFile,
         File!RemoteFile,
     File!NoFile
<1>2. ftp' = ftp /\ news' = news /\ http' = http /\ gopher' = gopher
  OBVIOUS
<1>3. FTP!FtpOK' /\ News!NewsOK' /\ Web!HttpOK' /\ Gopher!GopherOK'
  BY <1>2 DEF Inv, TypeOK, FTP!FtpOK, News!NewsOK, Web!HttpOK, Gopher!GopherOK
<1>4. ASSUME NEW n \in { net, Overwritten(net) }, NEW value \in Int, NEW shown \in BOOLEAN,
             File!Return(n, value, shown)
      PROVE  Inv'
  <2>1. /\ net' = n /\ pc' = "return" /\ status' = value /\ text' = shown
        /\ request' = request
    BY <1>4 DEF File!Return
  <2>2. n \in Nets(Hosts) /\ \A A : Covers(net, A) => Covers(n, A)
    BY <1>1, OverwrittenFits
  <2>3. TypeOK'
    <3>1. pc' \in Labels
      BY <2>1 DEF Labels
    <3>2. QED
      BY <1>3, <1>4, <2>1, <2>2, <3>1 DEF TypeOK
  <2>4. Covers(net', request'.open \cup Owned')
    <3>1. Covers(net, request.open \cup Owned)
      BY <1>1 DEF Inv, Stopped
    <3>2. request'.open \cup Owned' = request.open \cup Owned
      BY <1>2, <2>1 DEF Owned
    <3>3. QED
      BY <2>1, <2>2, <3>1, <3>2
  <2>5. QED
    BY <1>1, <1>2, <2>1, <2>3, <2>4 DEF Inv, RequestFits, LinkFits, FtpBusy,
       FtpAsks,
       NewsBusy, HttpBusy, GopherBusy, Stopped
<1>5. /\ File!HT_LOADED \in Int /\ File!HT_NO_ACCESS \in Int /\ File!HT_NO_DATA \in Int
      /\ File!LoadError403 \in Int /\ -1 \in Int /\ TRUE \in BOOLEAN /\ FALSE \in BOOLEAN
  BY DEF File!HT_LOADED, File!HT_NO_ACCESS, File!HT_NO_DATA, File!LoadError403
<1>6. CASE File!LocalFile \/ File!NoFile \/ File!HTLoadTelnet
  <2>1. \E n \in { net, Overwritten(net) }, value \in Int, shown \in BOOLEAN :
          File!Return(n, value, shown)
    BY <1>5, <1>6, FileInput, Zenon DEF File!LocalFile, File!NoFile,
       File!HTLoadTelnet
  <2>2. QED
    BY <1>4, <2>1
<1>7. CASE File!RemoteFile
  <2>1. /\ pc = "file" /\ pc' = "ftp" /\ request.host # ThisHost
        /\ UNCHANGED << net, request, status, text >>
    BY <1>7 DEF File!RemoteFile
  <2>2. request.host \in FtpHosts
    BY <2>1 DEF Inv, RequestFits
  <2>3. TypeOK'
    <3>1. pc' \in Labels /\ status' \in Int /\ text' \in BOOLEAN
      BY <2>1 DEF Labels, Inv, TypeOK
    <3>2. QED
      BY <1>1, <1>3, <2>1, <3>1 DEF TypeOK
  <2>4. Covers(net', request'.open \cup Owned')
    <3>1. Covers(net, request.open \cup Owned)
      BY <1>1 DEF Inv, Stopped
    <3>2. request'.open \cup Owned' = request.open \cup Owned
      BY <1>2, <2>1 DEF Owned
    <3>3. QED
      BY <2>1, <3>1, <3>2
  <2>5. QED
    BY <1>2, <2>1, <2>2, <2>3, <2>4 DEF Inv, RequestFits, LinkFits, FtpBusy,
       FtpAsks,
       NewsBusy, HttpBusy, GopherBusy, Stopped
<1>8. QED
  BY <1>6, <1>7 DEF File!HTLoadFile

LEMMA FtpCalledFits ==
  ASSUME NEW f, FtpFits(f)
  PROVE  FtpFits(FTP!FtpCalled(f)) /\ FtpSockets(FTP!FtpCalled(f)) = FtpSockets(f)
<1> DEFINE no == FALSE
           none == "nobody"
           g == FTP!FtpCalled(f)
<1>1. no \in BOOLEAN /\ none \in FtpHosts \cup { "nobody" } /\ f \in Ftps
  BY DEF FtpFits
<1>2. g = [ f EXCEPT !.retry = 0, !.lost = no, !.fresh = no, !.source = none ]
  BY DEF FTP!FtpCalled
<1> HIDE DEF no, none, g
<1>3. SameList(f, g) /\ g.master_socket = f.master_socket
  <2>1. 0 \in 0 .. 1
    OBVIOUS
  <2>2. g \in Ftps
    BY <1>1, <1>2, <2>1 DEF Ftps
  <2>3. /\ g.connections = f.connections /\ g.control = f.control /\ g.cons = f.cons
        /\ g.master_socket = f.master_socket
    BY <1>1, <1>2 DEF Ftps
  <2>4. QED
    BY <2>2, <2>3 DEF SameList
<1>4. FtpFits(g) /\ FtpSockets(g) = FtpSockets(f)
  BY <1>3, SameListFits
<1>5. QED
  BY <1>4 DEF g

LEMMA HttpCalledFits ==
  ASSUME NEW h \in WebStates
  PROVE  Web!HttpCalled(h) \in WebStates /\ Web!HttpCalled(h).s = h.s
BY DEF Web!HttpCalled, WebStates

LEMMA LoadKeepsInv ==
  ASSUME Inv, Load
  PROVE  Inv'
<1>1. /\ pc = "idle" /\ pc' = "load"
      /\ UNCHANGED << net, ftp, news, http, gopher, status, text >>
  BY DEF Load
<1>2. PICK r \in Requests :
        request' = [ access |-> r.access, host |-> r.host, kind |-> r.kind,
                     binary |-> r.binary, inside |-> r.inside, rule |-> r.rule,
                     open |-> OpenSockets(net) ]
  BY DEF Load
<1>3. r \in RequestSet /\ r.host \in Hosts
      /\ (r.access \in { "ftp", "file" } => r.host \in FtpHosts \cup { ThisHost })
  BY RequestAssumption DEF Hosts
<1>4. /\ request'.open = OpenSockets(net) /\ request'.host = r.host
      /\ request'.access = r.access /\ request'.binary = r.binary
  BY <1>2
<1>5. r.binary \in BOOLEAN
  BY <1>3 DEF RequestSet
<1>6. TypeOK'
  <2>1. FTP!FtpOK' /\ News!NewsOK' /\ Web!HttpOK' /\ Gopher!GopherOK'
    BY <1>1 DEF Inv, TypeOK, FTP!FtpOK, News!NewsOK, Web!HttpOK,
                Gopher!GopherOK
  <2>2. pc' \in Labels /\ status' \in Int /\ text' \in BOOLEAN /\ net' \in Nets(Hosts)
    BY <1>1 DEF Labels, Inv, TypeOK
  <2>3. QED
    BY <2>1, <2>2 DEF TypeOK
<1>7. Covers(net', request'.open \cup Owned')
  BY <1>1, <1>4 DEF Covers, OpenSockets
<1>8. RequestFits'
  BY <1>1, <1>3, <1>4, <1>5 DEF RequestFits, FtpBusy, FtpAsks, Stopped
<1>9. QED
  BY <1>1, <1>6, <1>7, <1>8 DEF Inv, LinkFits, FtpBusy, FtpAsks, NewsBusy,
                                HttpBusy,
     GopherBusy, Stopped
LEMMA DispatchKeepsInv ==
  ASSUME Inv, AlreadyLoaded \/ Forbidden \/ NoProtocol \/ CallProtocol
  PROVE  Inv'
<1>1. /\ pc = "load" /\ UNCHANGED << net, news, gopher, request >>
      /\ net \in Nets(Hosts) /\ FtpFits(ftp) /\ http \in WebStates
  BY WebInput DEF AlreadyLoaded, Forbidden, NoProtocol, CallProtocol, Inv,
                  TypeOK,
     Web!HttpOK, WebStates
<1>2. /\ FtpFits(ftp') /\ FtpSockets(ftp') = FtpSockets(ftp)
      /\ http' \in WebStates /\ http'.s = http.s
  <2>1. CASE AlreadyLoaded \/ Forbidden \/ NoProtocol
    BY <1>1, <2>1 DEF AlreadyLoaded, Forbidden, NoProtocol
  <2>2. CASE CallProtocol
    BY <1>1, <2>2, FtpCalledFits, HttpCalledFits DEF CallProtocol
  <2>3. QED
    BY <2>1, <2>2
<1>3. /\ pc' \in { "return", "file", "news", "http", "gopher", "telnet" }
      /\ pc' = "file" => request.access \in { "ftp", "file" }
      /\ status' \in Int /\ text' \in BOOLEAN
  <2>1. CASE AlreadyLoaded \/ Forbidden \/ NoProtocol
    <3>1. HT_LOADED \in Int /\ LoadError \in Int /\ HT_NO_ACCESS \in Int /\ TRUE \in BOOLEAN
      BY DEF HT_LOADED, LoadError, HT_NO_ACCESS
    <3>2. pc' = "return"
      BY <2>1 DEF AlreadyLoaded, Forbidden, NoProtocol
    <3>3. status' \in Int
      BY <2>1, <3>1 DEF AlreadyLoaded, Forbidden, NoProtocol
    <3>4. text' \in BOOLEAN
      <4>1. text' = TRUE \/ text' = text
        BY <2>1, Zenon DEF AlreadyLoaded, Forbidden, NoProtocol
      <4>2. text \in BOOLEAN
        BY DEF Inv, TypeOK
      <4>3. QED
        BY <4>1, <4>2
    <3>5. QED
      BY <3>2, <3>3, <3>4
  <2>2. CASE CallProtocol
    <3>1. Access \in Protocols /\ pc' = LoadRoutine(Access) /\ UNCHANGED << status, text >>
      BY <2>2 DEF CallProtocol
    <3>2. Access = "http" \/ Access = request.access
      BY DEF Access
    <3>3. QED
      BY <3>1, <3>2 DEF LoadRoutine, Protocols, Inv, TypeOK
  <2>3. QED
    BY <2>1, <2>2
<1>4. TypeOK'
  <2>1. FTP!FtpOK' /\ Web!HttpOK'
    BY <1>2, FtpInput, WebInput DEF FtpFits, FTP!FtpOK, Ftps, Web!HttpOK,
       WebStates
  <2>2. News!NewsOK' /\ Gopher!GopherOK'
    BY <1>1 DEF Inv, TypeOK, News!NewsOK, Gopher!GopherOK
  <2>3. pc' \in Labels
    BY <1>3 DEF Labels
  <2>4. QED
    BY <1>1, <1>3, <2>1, <2>2, <2>3 DEF TypeOK
<1>5. Covers(net', request'.open \cup Owned')
  <2>1. Covers(net, request.open \cup Owned)
    BY <1>1 DEF Inv, Stopped
  <2>2. request'.open \cup Owned' = request.open \cup Owned
    BY <1>1, <1>2 DEF Owned
  <2>3. QED
    BY <1>1, <2>1, <2>2
<1>6. RequestFits'
  BY <1>1, <1>3 DEF Inv, RequestFits, FtpBusy, FtpAsks, Stopped
<1>7. LinkFits'
  BY <1>1 DEF Inv, LinkFits
<1>8. QED
  BY <1>1, <1>2, <1>3, <1>4, <1>5, <1>6, <1>7 DEF Inv, FtpBusy, FtpAsks,
     NewsBusy, HttpBusy,
     GopherBusy, Stopped

LEMMA FinishKeepsInv ==
  ASSUME Inv, Finish
  PROVE  Inv'
<1>1. /\ pc = "return" /\ pc' \in { "exit", "null text", "idle" } /\ status' = 0
      /\ UNCHANGED << net, news, gopher >>
      /\ ftp' = FTP!FtpCalled(ftp) /\ http' = Web!HttpCalled(http)
  BY DEF Finish
<1>2. text' \in BOOLEAN
  <2>1. text' = FALSE
    BY Zenon DEF Finish
  <2>2. QED
    BY <2>1
<1>3. FtpFits(ftp) /\ http \in WebStates /\ net \in Nets(Hosts)
  BY WebInput DEF Inv, TypeOK, Web!HttpOK, WebStates
<1>4. FtpFits(ftp') /\ http' \in WebStates /\ http'.s = http.s
  BY <1>1, <1>3, FtpCalledFits, HttpCalledFits
<1>5. TypeOK'
  <2>1. FTP!FtpOK' /\ Web!HttpOK'
    BY <1>4, FtpInput, WebInput DEF FtpFits, FTP!FtpOK, Ftps, Web!HttpOK,
       WebStates
  <2>2. News!NewsOK' /\ Gopher!GopherOK'
    BY <1>1 DEF Inv, TypeOK, News!NewsOK, Gopher!GopherOK
  <2>3. pc' \in Labels
    BY <1>1 DEF Labels, Stopped
  <2>4. net' \in Nets(Hosts)
    BY <1>1, <1>3
  <2>5. status' \in Int
    <3>1. status' = 0
      BY Zenon DEF Finish
    <3>2. QED
      BY <3>1
  <2>6. QED
    BY <1>2, <2>1, <2>2, <2>3, <2>4, <2>5 DEF TypeOK
<1>6. RequestFits' /\ LinkFits'
  BY <1>1 DEF Inv, RequestFits, LinkFits, FtpBusy, FtpAsks, Stopped
<1>7. QED
  BY <1>1, <1>4, <1>5, <1>6 DEF Inv, FtpBusy, FtpAsks, NewsBusy, HttpBusy,
                                GopherBusy, Stopped

LEMMA ServerClosesKeepsInv ==
  ASSUME Inv, ServerCloses
  PROVE  Inv'
<1>1. pc = "idle" /\ UNCHANGED << ftp, news, http, gopher, pc, request, status, text >>
  BY DEF ServerCloses
<1>2. PICK fd \in OpenSockets(net), last \in { << >>, << Notice >> } :
        net' = With(net, fd, [ net.sockets[fd] EXCEPT !.up = FALSE, !.wire = @ \o last ])
  BY DEF ServerCloses
<1> DEFINE no == FALSE
           it == net.sockets[fd]
           wire == it.wire \o last
           next == [ it EXCEPT !.up = no, !.wire = wire ]
<1>3. net \in Nets(Hosts) /\ fd \in Fds /\ it \in Sockets(Hosts) /\ it.wire \in Seq(Items)
  BY DEF Inv, TypeOK, OpenSockets, Nets, Sockets
<1>4. last \in Seq(Items)
  <2>1. << >> \in Seq(Items) /\ << Notice >> \in Seq(Items)
    BY DEF Items
  <2>2. QED
    BY <1>2, <2>1
<1>5. wire \in Seq(Items) /\ no \in BOOLEAN
  BY <1>3, <1>4, ConcatProperties
<1>6. net' = With(net, fd, next)
  BY <1>2
<1> HIDE DEF no, wire, it
<1>7. next \in Sockets(Hosts)
  BY <1>3, <1>5 DEF Sockets
<1> HIDE DEF next
<1>8. net' \in Nets(Hosts)
  BY <1>3, <1>6, <1>7, WithFits
<1>9. TypeOK'
  <2>1. FTP!FtpOK' /\ News!NewsOK' /\ Web!HttpOK' /\ Gopher!GopherOK'
    BY <1>1 DEF Inv, TypeOK, FTP!FtpOK, News!NewsOK, Web!HttpOK,
                Gopher!GopherOK
  <2>2. pc' \in Labels /\ status' \in Int /\ text' \in BOOLEAN
    BY <1>1 DEF Inv, TypeOK
  <2>3. QED
    BY <1>8, <2>1, <2>2 DEF TypeOK
<1>10. RequestFits' /\ LinkFits'
  BY <1>1 DEF Inv, RequestFits, LinkFits
<1>11. QED
  BY <1>1, <1>9, <1>10 DEF Inv, Stopped

-----------------------------------------------------------------------------
LEMMA InvInit == Init => Inv
<1> SUFFICES ASSUME Init
             PROVE  Inv
  OBVIOUS
<1>1. << >> \in Seq(Items) /\ << >> \in Seq(ConnectionIds)
  OBVIOUS
<1>2. net \in Nets(Hosts)
  <2>1. net = [ sockets |-> [ fd \in Fds |-> Unused ], fd |-> Null, buffer |-> << >> ]
    BY DEF Init, InitialNet
  <2>2. Unused \in Sockets(Hosts)
    BY EmptySocket
  <2>3. QED
    BY <1>1, <2>1, <2>2 DEF Nets
<1>3. FtpFits(ftp)
  <2> DEFINE no == FALSE
             none == "nobody"
             free == FTP!Connection(Null, "nobody")
  <2>1. no \in BOOLEAN /\ none \in FtpHosts \cup { "nobody" } /\ 0 \in 0 .. 1
    OBVIOUS
  <2>2. free \in FTP!Connections
    BY FtpInput DEF FTP!Connection, FTP!Connections
  <2>3. ftp = [ connections |-> << >>, cons |-> [ c \in ConnectionIds |-> free ],
                control |-> Null, master_socket |-> Null,
                retry |-> 0, lost |-> no, fresh |-> no, source |-> none ]
    BY FtpInput DEF Init, FTP!InitialFtp
  <2> HIDE DEF no, none, free
  <2>4. ftp \in Ftps /\ ftp.connections = << >>
    BY <1>1, <2>1, <2>2, <2>3 DEF Ftps
  <2>5. QED
    BY <2>4 DEF FtpFits
<1>4. news \in NewsStates /\ news.s = Null
  <2> DEFINE no == FALSE
  <2>1. no \in BOOLEAN /\ 0 \in 0 .. 1 /\ 0 \in 0 .. MaxArticles
    BY BoundAssumption
  <2>2. news = [ s |-> Null, initialized |-> no, retries |-> 0, article |-> 0, lost |-> no ]
    BY NewsInput DEF Init, News!InitialNews
  <2> HIDE DEF no
  <2>3. QED
    BY <2>1, <2>2 DEF NewsStates
<1>5. http \in WebStates /\ http.s = Null
  BY WebInput DEF Init, Web!InitialHttp, WebStates
<1>6. gopher \in GopherStates /\ gopher.s = Null /\ LinkOf(gopher)
  BY GopherInput DEF Init, Gopher!InitialGopher, GopherStates, LinkOf,
                     Gopher!Fields
<1>7. pc = "idle" /\ status = 0
  BY DEF Init
<1>8. text \in BOOLEAN
  <2>1. text = FALSE
    BY Zenon DEF Init
  <2>2. QED
    BY <2>1
<1>9. TypeOK
  <2>1. FTP!FtpOK /\ News!NewsOK /\ Web!HttpOK /\ Gopher!GopherOK
    BY <1>3, <1>4, <1>5, <1>6, FtpInput, NewsInput, WebInput, GopherInput
       DEF FtpFits, FTP!FtpOK, Ftps, News!NewsOK, NewsStates, Web!HttpOK,
           WebStates,
           Gopher!GopherOK, GopherStates
  <2>2. pc \in Labels
    BY <1>7 DEF Labels, Stopped
  <2>3. QED
    BY <1>2, <1>7, <1>8, <2>1, <2>2 DEF TypeOK
<1>10. QED
  BY <1>3, <1>4, <1>5, <1>6, <1>7, <1>9 DEF Inv, RequestFits, LinkFits,
     LinkOf, FtpBusy,
     FtpAsks, NewsBusy, HttpBusy, GopherBusy, Stopped

LEMMA InvStep == Inv /\ [Next]_vars => Inv'
<1> SUFFICES ASSUME Inv, [Next]_vars
             PROVE  Inv'
  OBVIOUS
<1>1. CASE Load
  BY <1>1, LoadKeepsInv
<1>2. CASE AlreadyLoaded \/ Forbidden \/ NoProtocol \/ CallProtocol
  BY <1>2, DispatchKeepsInv
<1>3. CASE FTP!HTFTPLoad /\ UNCHANGED << news, http, gopher >>
  BY <1>3, FtpKeepsInv
<1>4. CASE News!HTLoadNews /\ UNCHANGED << ftp, http, gopher >>
  BY <1>4, NewsKeepsInv
<1>5. CASE Web!HTLoadHTTP /\ UNCHANGED << ftp, news, gopher >>
  BY <1>5, WebKeepsInv
<1>6. CASE Gopher!HTLoadGopher /\ UNCHANGED << ftp, news, http >>
  BY <1>6, GopherKeepsInv
<1>7. CASE (File!HTLoadFile \/ File!HTLoadTelnet) /\ UNCHANGED << ftp, news, http, gopher >>
  BY <1>7, FileKeepsInv
<1>8. CASE Finish
  BY <1>8, FinishKeepsInv
<1>9. CASE ServerCloses
  BY <1>9, ServerClosesKeepsInv
<1>10. CASE UNCHANGED vars
  <2>1. UNCHANGED << net, ftp, news, http, gopher, pc, request, status, text >>
    BY <1>10 DEF vars
  <2>2. TypeOK'
    BY <2>1 DEF Inv, TypeOK, FTP!FtpOK, News!NewsOK, Web!HttpOK,
                Gopher!GopherOK
  <2>3. Covers(net', request'.open \cup Owned') <=> Covers(net, request.open \cup Owned)
    BY <2>1 DEF Owned
  <2>4. QED
    BY <2>1, <2>2, <2>3 DEF Inv, RequestFits, LinkFits
<1>11. QED
  BY <1>1, <1>2, <1>3, <1>4, <1>5, <1>6, <1>7, <1>8, <1>9, <1>10
     DEF Next, HTLoadAnchor, LoadByProtocol

(* The invariant above holds in every state of the loads through           *)
(* HTLoadAnchor, HTLoad and the protocol modules they call.                *)
THEOREM AccessInvariant == Spec => []Inv
BY InvInit, InvStep, PTL DEF Spec

(* The variables of HTAccess and of the protocol modules keep the values   *)
(* the code can give them, in whatever order loads come and servers close: *)
(* the counts of retries and of articles, what a socket holds, and the     *)
(* label of the load are in range.                                         *)
THEOREM AccessTyped == Spec => []TypeOK
<1>1. Inv => TypeOK
  BY DEF Inv
<1>2. QED
  BY <1>1, AccessInvariant, PTL

(* A load that returns HT_LOADED has closed what it opened: each socket    *)
(* still open was so before, is kept on purpose (the FTP connections, the  *)
(* news socket, the master socket), or is the data socket of a directory.  *)
THEOREM LoadsLeakNoSocket == Spec => []SuccessLeaksNoSocket
<1>1. Inv => SuccessLeaksNoSocket
  <2> SUFFICES ASSUME Inv, pc = "return", status = HT_LOADED, NEW fd \in OpenSockets(net),
                      net.sockets[fd].peer # "data"
               PROVE  fd \in request.open \cup { k.socket : k \in Kept }
                                \cup { news.s, ftp.master_socket }
    BY DEF SuccessLeaksNoSocket, OpenSockets
  <2>1. fd \in Fds /\ IsOpen(net, fd)
    BY DEF OpenSockets
  <2>2. fd \in request.open \cup Owned
    BY <2>1 DEF Inv, Covers, Stopped
  <2>3. http.s = Null /\ gopher.s = Null /\ fd # Null
    BY <2>1 DEF Inv, HttpBusy, GopherBusy, Fds, Null
  <2>4. FtpSockets(ftp) \subseteq { k.socket : k \in Kept } \cup { ftp.master_socket }
    BY DEF FtpSockets, Kept, Range
  <2>5. QED
    BY <2>2, <2>3, <2>4 DEF Owned
<1>2. QED
  BY <1>1, AccessInvariant, PTL

(* The list of FTP connections never has two to the same host:             *)
(* get_connection looks for the host before it adds one, and a connection  *)
(* made again has taken the dead one off the list.                         *)
THEOREM OneConnectionToAHost ==
  Spec => [](\A i, j \in DOMAIN ftp.connections :
               HostOf(ftp, i) = HostOf(ftp, j) => i = j)
<1>1. Inv => \A i, j \in DOMAIN ftp.connections : HostOf(ftp, i) = HostOf(ftp, j) => i = j
  BY DEF Inv, FtpFits
<1>2. QED
  BY <1>1, AccessInvariant, PTL

(* Each link of a Gopher menu, but for one to a Web address, has the text  *)
(* and the address of its own line, though parse_menu keeps both in        *)
(* variables that outlive the line.                                        *)
THEOREM LinksAreOfTheirLine == Spec => []MenuAnchorsAreOfTheirLine
<1>1. Inv => MenuAnchorsAreOfTheirLine
  BY DEF Inv, LinkFits, MenuAnchorsAreOfTheirLine
<1>2. QED
  BY <1>1, AccessInvariant, PTL

-----------------------------------------------------------------------------
(* FTP serves one host.  With a second one get_connection finds the first  *)
(* host's connection and leaves `control' at the other's (HTFTP.c:362).    *)
OneHost == \A g, h \in FtpHosts : g = h

(* Where a new connection waits until the server has let the user in. *)
LogsIn == { "greeting", "user", "pass", "acct" }

(* With one host the list is the connection in use or empty; it is empty   *)
(* once a command is lost, and when a load starts again.                   *)
OnlyControl(f) == f.connections # << >> => f.connections = << f.control >>

Again(f, label) ==
  /\ OnlyControl(f)
  /\ f.lost => f.connections = << >> /\ label \in FtpAsks
  /\ label = "file" => f.retry = 0
  /\ label = "ftp" /\ f.retry = 1 => f.connections = << >>
  /\ label \in LogsIn \cup { "listen", "port" } /\ f.retry = 1 => f.fresh

LEMMA UnlistedIsEmpty ==
  ASSUME NEW f, FtpFits(f), OnlyControl(f), f.control # Null
  PROVE  Unlisted(f).connections = << >>
<1>1. f \in Ftps /\ f.control \in ConnectionIds
  BY DEF FtpFits, Ftps
<1>2. CASE f.connections = << >>
  BY <1>2 DEF Unlisted
<1>3. CASE f.connections # << >>
  <2>1. f.connections = << f.control >>
    BY <1>3 DEF OnlyControl
  <2>2. Head(f.connections) = f.control /\ Tail(f.connections) = << >>
    BY <1>1, <2>1
  <2>3. Unlisted(f) = [ f EXCEPT !.connections = << >> ]
    BY <1>3, <2>2 DEF Unlisted
  <2>4. QED
    BY <1>1, <2>3 DEF Ftps
<1>4. QED
  BY <1>2, <1>3

LEMMA CommandKeepsOne ==
  ASSUME NEW n \in Nets(Hosts), NEW f, FtpFits(f), f.control # Null, OnlyControl(f), ~ f.lost,
         NEW cmd \in FtpCommands, NEW o \in FTP!Command(n, f, cmd)
  PROVE  /\ OnlyControl(o.ftp) /\ (o.ftp.lost => o.ftp.connections = << >>)
         /\ o.ftp.retry = f.retry /\ o.ftp.fresh = f.fresh
<1>1. FtpStep(n, f, o.net, o.ftp)
  BY FtpCommandSteps
<1>2. CASE CommandLost(n, f, o)
  <2>1. Unlisted(f).connections = << >> /\ Unlisted(f) \in Ftps
    BY UnlistedIsEmpty, UnlistedFits DEF FtpFits
  <2>2. o.ftp.connections = << >>
    BY <1>2, <2>1 DEF CommandLost, Ftps
  <2>3. QED
    BY <1>1, <2>2 DEF FtpStep, OnlyControl
<1>3. CASE CommandUnheard(n, f, o) \/ CommandAnswered(n, f, cmd, o)
  BY <1>3 DEF CommandUnheard, CommandAnswered
<1>4. QED
  BY <1>2, <1>3, FtpCommandGoes

LEMMA ReplyKeepsOne ==
  ASSUME NEW n \in Nets(Hosts), NEW f, FtpFits(f), f.control # Null, OnlyControl(f),
         f.lost => f.connections = << >>, NEW r \in FTP!Reply(n, f)
  PROVE  /\ OnlyControl(r.ftp) /\ ~ r.ftp.lost
         /\ r.digit = -1 => r.ftp.connections = << >>
         /\ r.ftp.retry = f.retry /\ r.ftp.fresh = f.fresh
<1>1. FtpStep(n, f, r.net, r.ftp)
  BY FtpReplySteps
<1>2. f \in Ftps /\ Unlisted(f).connections = << >>
  BY UnlistedIsEmpty DEF FtpFits
<1>3. CASE ReplyNone(n, f, r) /\ f.lost
  <2>1. r.ftp = [ f EXCEPT !.lost = FALSE ]
    BY <1>3 DEF ReplyNone
  <2>2. r.ftp.connections = << >> /\ ~ r.ftp.lost
    BY <1>2, <1>3, <2>1 DEF Ftps
  <2>3. QED
    BY <1>1, <2>2 DEF FtpStep, OnlyControl
<1>4. CASE ReplyNone(n, f, r) /\ ~ f.lost
  <2>1. r.ftp = Unlisted(f)
    BY <1>4 DEF ReplyNone
  <2>2. Unlisted(f) = [ f EXCEPT !.connections = Unlisted(f).connections ]
    BY UnlistedFits
  <2>3. ~ r.ftp.lost
    BY <1>2, <1>4, <2>1, <2>2 DEF Ftps
  <2>4. QED
    BY <1>1, <1>2, <2>1, <2>3 DEF FtpStep, OnlyControl
<1>5. CASE ReplyRead(n, f, r)
  BY <1>5 DEF ReplyRead
<1>6. QED
  BY <1>3, <1>4, <1>5, FtpReplyComes

LEMMA AgainWaits ==
  ASSUME NEW n \in Nets(Hosts), NEW f, FtpFits(f), f.control # Null, OnlyControl(f), ~ f.lost,
         NEW cmd \in FtpCommands, NEW label \in FtpAsks, FTP!Ask(n, f, cmd, label),
         label \in LogsIn \cup { "port" } /\ f.retry = 1 => f.fresh
  PROVE  Again(ftp', pc')
<1>1. PICK o \in FTP!Command(n, f, cmd) : FTP!Goto(o.net, o.ftp, label)
  BY DEF FTP!Ask
<1>2. ftp' = o.ftp /\ pc' = label
  BY <1>1 DEF FTP!Goto
<1>3. /\ OnlyControl(o.ftp) /\ (o.ftp.lost => o.ftp.connections = << >>)
      /\ o.ftp.retry = f.retry /\ o.ftp.fresh = f.fresh
  BY CommandKeepsOne
<1>4. label \notin { "file", "ftp", "listen" }
  BY DEF FtpAsks
<1>5. QED
  BY <1>2, <1>3, <1>4 DEF Again

LEMMA AgainOnReply ==
  ASSUME Inv, pc \in FtpBusy, Again(ftp, pc), NEW r \in FTP!Reply(net, ftp)
  PROVE  /\ \A label \in FtpBusy : FTP!Goto(r.net, r.ftp, label) 
              /\ (label \in LogsIn \cup { "listen", "port" } => pc \in LogsIn) => Again(ftp', pc')
         /\ \A value : FTP!Return(r.net, r.ftp, value) => Again(ftp', pc')
         /\ \A cmd \in FtpCommands, label \in FtpAsks :
              FTP!Ask(r.net, r.ftp, cmd, label) 
              /\ (label \in LogsIn \cup { "port" } => pc \in LogsIn) => Again(ftp', pc')
         /\ FTP!LoginFailed(r) => Again(ftp', pc')
<1>1. FtpFits(r.ftp) /\ r.net \in Nets(Hosts) /\ r.ftp.control # Null
  BY FtpReplied DEF FtpReaches
<1>2. /\ OnlyControl(r.ftp) /\ ~ r.ftp.lost
      /\ r.ftp.retry = ftp.retry /\ r.ftp.fresh = ftp.fresh
  BY ReplyKeepsOne DEF Inv, TypeOK, Again
<1>3. pc \in LogsIn /\ ftp.retry = 1 => ftp.fresh
  BY DEF Again
<1>4. ASSUME NEW label \in FtpBusy, FTP!Goto(r.net, r.ftp, label),
             label \in LogsIn \cup { "listen", "port" } => pc \in LogsIn
      PROVE  Again(ftp', pc')
  <2>1. ftp' = r.ftp /\ pc' = label /\ label \notin { "file", "ftp" }
    BY <1>4 DEF FTP!Goto, FtpBusy, FtpAsks
  <2>2. QED
    BY <1>2, <1>3, <1>4, <2>1 DEF Again
<1>5. ASSUME NEW cmd \in FtpCommands, NEW label \in FtpAsks, FTP!Ask(r.net, r.ftp, cmd, label),
             label \in LogsIn \cup { "port" } => pc \in LogsIn
      PROVE  Again(ftp', pc')
  BY <1>1, <1>2, <1>3, <1>5, AgainWaits
<1>6. ASSUME NEW value, NEW n, NEW f, OnlyControl(f), ~ f.lost, FTP!Return(n, f, value)
      PROVE  Again(ftp', pc')
  BY <1>6 DEF FTP!Return, Again, LogsIn
<1>7. ASSUME FTP!LoginFailed(r)
      PROVE  Again(ftp', pc')
  <2>1. FTP!Return(Close(r.net, FTP!Control(r.ftp).socket), Unlisted(r.ftp), FTP!Failed)
    BY <1>1, <1>7, FtpClosed, FtpInput DEF FTP!LoginFailed
  <2>2. Unlisted(r.ftp).connections = << >>
    BY <1>1, <1>2, UnlistedIsEmpty
  <2>3. Unlisted(r.ftp) = [ r.ftp EXCEPT !.connections = Unlisted(r.ftp).connections ]
    BY <1>1, UnlistedFits
  <2>4. ~ Unlisted(r.ftp).lost
    BY <1>1, <1>2, <2>3 DEF FtpFits, Ftps
  <2>5. QED
    BY <1>6, <2>1, <2>2, <2>4 DEF OnlyControl
<1>8. QED
  BY <1>2, <1>4, <1>5, <1>6, <1>7

LEMMA LoginKeepsAgain ==
  ASSUME Inv, Again(ftp, pc),
         \/ FTP!Greeting \/ FTP!LoginReply("user", "PASS", "pass")
         \/ FTP!LoginReply("pass", "ACCT", "acct") \/ FTP!LoginReply("acct", "none", "none")
  PROVE  Again(ftp', pc')
<1>1. pc \in LogsIn /\ pc \in FtpBusy
  BY DEF FTP!Greeting, FTP!LoginReply, FTP!OnReply, LogsIn, FtpBusy, FtpAsks
<1>2. PICK r \in FTP!Reply(net, ftp) :
        \/ FTP!Ask(r.net, r.ftp, "USER", "user") \/ FTP!Ask(r.net, r.ftp, "PASS", "pass")
        \/ FTP!Ask(r.net, r.ftp, "ACCT", "acct") \/ FTP!Goto(r.net, r.ftp, "listen")
        \/ FTP!LoginFailed(r)
  BY Zenon DEF FTP!Greeting, FTP!LoginReply, FTP!OnReply
<1>3. /\ { "USER", "PASS", "ACCT" } \subseteq FtpCommands
      /\ { "user", "pass", "acct" } \subseteq FtpAsks /\ "listen" \in FtpBusy
  BY DEF FtpCommands, FtpAsks, FtpBusy
<1>4. QED
  BY <1>1, <1>2, <1>3, AgainOnReply

LEMMA PortReplyKeepsAgain ==
  ASSUME Inv, Again(ftp, pc), FTP!PortReply
  PROVE  /\ Again(ftp', pc')
         /\ pc' = "return" /\ status' = FTP!Failed => ftp.fresh
<1>1. pc \in FtpBusy /\ pc = "port"
  BY DEF FTP!PortReply, FTP!OnReply, FtpBusy, FtpAsks
<1>2. PICK r \in FTP!Reply(net, ftp) :
        \/ FTP!RequestFile(r.net, r.ftp)
        \/ r.digit < 0 /\ ftp.retry = 0 /\ FTP!Goto(r.net, [ r.ftp EXCEPT !.retry = 1 ], "ftp")
        \/ ftp.retry # 0 /\ FTP!Return(r.net, r.ftp, FTP!Failed)
        \/ r.digit >= 0 /\ FTP!Return(r.net, r.ftp, - r.digit)
  BY Zenon DEF FTP!PortReply, FTP!OnReply
<1>3. FtpReaches(r.net, r.ftp) /\ r.ftp.control # Null /\ r.digit \in -1 .. 5
  BY <1>1, FtpReplied
<1>4. ftp.retry \in 0 .. 1 /\ (ftp.retry = 1 => ftp.fresh)
  BY <1>1 DEF Again, Inv, FtpFits, Ftps
<1>5. CASE FTP!RequestFile(r.net, r.ftp)
  <2>1. \/ FTP!Ask(r.net, r.ftp, FTP!ModeOf(request.binary), "type")
        \/ FTP!Ask(r.net, r.ftp, "RETR", "retr")
    BY <1>5 DEF FTP!RequestFile
  <2>2. FTP!ModeOf(request.binary) \in FtpCommands /\ "RETR" \in FtpCommands
    BY DEF FTP!ModeOf, FtpCommands
  <2>3. { "type", "retr" } \subseteq FtpAsks /\ "type" \notin LogsIn /\ "retr" \notin LogsIn
    BY DEF FtpAsks, LogsIn
  <2>4. Again(ftp', pc')
    BY <1>1, <2>1, <2>2, <2>3, AgainOnReply
  <2>5. pc' # "return"
    BY <2>1 DEF FTP!Ask, FTP!Goto
  <2>6. QED
    BY <2>4, <2>5
<1>6. CASE r.digit < 0 /\ FTP!Goto(r.net, [ r.ftp EXCEPT !.retry = 1 ], "ftp")
  <2>1. ftp' = [ r.ftp EXCEPT !.retry = 1 ] /\ pc' = "ftp"
    BY <1>6 DEF FTP!Goto
  <2>2. r.ftp.connections = << >> /\ ~ r.ftp.lost
    BY <1>1, <1>3, <1>6, ReplyKeepsOne DEF Inv, TypeOK, Again
  <2>3. ftp'.connections = << >> /\ ~ ftp'.lost
    BY <1>3, <2>1, <2>2 DEF FtpReaches, FtpFits, Ftps
  <2>4. QED
    BY <2>1, <2>3 DEF Again, OnlyControl, LogsIn
<1>7. CASE ftp.retry # 0 /\ FTP!Return(r.net, r.ftp, FTP!Failed)
  BY <1>1, <1>4, <1>7, AgainOnReply
<1>8. CASE r.digit >= 0 /\ FTP!Return(r.net, r.ftp, - r.digit)
  <2>1. Again(ftp', pc')
    BY <1>1, <1>8, AgainOnReply
  <2>2. status' = - r.digit /\ - r.digit # FTP!Failed
    BY <1>3, <1>8 DEF FTP!Return, FTP!Failed
  <2>3. QED
    BY <2>1, <2>2
<1>9. QED
  BY <1>2, <1>5, <1>6, <1>7, <1>8

LEMMA RepliesKeepAgain ==
  ASSUME Inv, Again(ftp, pc),
         FTP!TypeReply \/ FTP!RetrReply \/ FTP!CwdReply \/ FTP!NlstReply \/ FTP!FinalReply
  PROVE  Again(ftp', pc')
<1>1. pc \in FtpBusy
  BY DEF FTP!TypeReply, FTP!RetrReply, FTP!CwdReply, FTP!NlstReply, FTP!FinalReply,
         FTP!OnReply, FtpBusy, FtpAsks
<1>2. PICK r \in FTP!Reply(net, ftp) :
        \/ FTP!Goto(r.net, r.ftp, "accept file") \/ FTP!Goto(r.net, r.ftp, "accept directory")
        \/ FTP!Ask(r.net, r.ftp, "CWD", "cwd") \/ FTP!Ask(r.net, r.ftp, "NLST", "nlst")
        \/ \E value : FTP!Return(r.net, r.ftp, value)
        \/ FTP!Ask(r.net, [ r.ftp EXCEPT !.cons[r.ftp.control].binary = request.binary ],
                   "RETR", "retr")
  BY Zenon DEF FTP!TypeReply, FTP!RetrReply, FTP!CwdReply, FTP!NlstReply, FTP!FinalReply,
               FTP!OnReply
<1>3. /\ { "CWD", "NLST", "RETR" } \subseteq FtpCommands
      /\ { "cwd", "nlst", "retr" } \subseteq FtpAsks
      /\ { "accept file", "accept directory" } \subseteq FtpBusy
      /\ \A label \in { "cwd", "nlst", "retr", "accept file", "accept directory" } :
           label \notin LogsIn \cup { "listen", "port" }
  BY DEF FtpCommands, FtpAsks, FtpBusy, LogsIn
<1>4. CASE \/ FTP!Goto(r.net, r.ftp, "accept file") \/ FTP!Goto(r.net, r.ftp, "accept directory")
           \/ FTP!Ask(r.net, r.ftp, "CWD", "cwd") \/ FTP!Ask(r.net, r.ftp, "NLST", "nlst")
           \/ \E value : FTP!Return(r.net, r.ftp, value)
  BY <1>1, <1>3, <1>4, AgainOnReply
<1>5. CASE FTP!Ask(r.net, [ r.ftp EXCEPT !.cons[r.ftp.control].binary = request.binary ],
                   "RETR", "retr")
  <2> DEFINE g == [ r.ftp EXCEPT !.cons[r.ftp.control].binary = request.binary ]
  <2>1. FtpReaches(r.net, r.ftp) /\ r.ftp.control # Null
    BY <1>1, FtpReplied
  <2>2. FtpFits(r.ftp) /\ r.ftp \in Ftps /\ r.ftp.control \in ConnectionIds
    BY <2>1 DEF FtpReaches, FtpFits, Ftps
  <2>3. request.binary \in BOOLEAN
    BY <1>1 DEF Inv, RequestFits, FtpBusy, FtpAsks, Stopped
  <2>4. SameList(r.ftp, g) /\ g.lost = r.ftp.lost
    BY <2>2, <2>3, FlagFits DEF Ftps
  <2>5. FTP!Ask(r.net, g, "RETR", "retr")
    BY <1>5
  <2> HIDE DEF g
  <2>6. FtpFits(g) /\ g.control # Null
    BY <2>1, <2>2, <2>4, SameListFits DEF SameList
  <2>7. OnlyControl(g) /\ ~ g.lost
    BY <1>1, <2>4, ReplyKeepsOne DEF Inv, TypeOK, Again, SameList, OnlyControl
  <2>8. QED
    BY <1>3, <2>1, <2>5, <2>6, <2>7, AgainWaits DEF FtpReaches
<1>6. QED
  BY <1>2, <1>4, <1>5

LEMMA ConnectKeepsAgain ==
  ASSUME OneHost, Inv, Again(ftp, pc),
         FTP!HostUnknown \/ FTP!AlreadyConnected \/ FTP!CannotConnect \/ FTP!Connect
  PROVE  Again(ftp', pc')
<1>1. pc = "ftp" /\ "ftp" \notin FtpAsks
  BY DEF FTP!HostUnknown, FTP!AlreadyConnected, FTP!CannotConnect, FTP!Connect, FtpAsks
<1>2. FtpFits(ftp) /\ ftp \in Ftps /\ request.host \in FtpHosts
  BY <1>1 DEF Inv, FtpFits, RequestFits
<1>3. OnlyControl(ftp) /\ ~ ftp.lost
  BY <1>1 DEF Again
<1>4. CASE FTP!HostUnknown \/ FTP!CannotConnect
  <2>1. ftp' = ftp /\ pc' = "return"
    BY <1>4 DEF FTP!HostUnknown, FTP!CannotConnect, FTP!Return
  <2>2. QED
    BY <1>3, <2>1 DEF Again, LogsIn
<1>5. CASE FTP!AlreadyConnected
  <2>1. ftp' = ftp /\ pc' = "listen" /\ FTP!Listed(ftp, request.host) # { }
    BY <1>5 DEF FTP!AlreadyConnected, FTP!Goto
  <2>2. ftp.connections # << >>
    <3>1. PICK c : c \in FTP!Range(ftp.connections)
      BY <2>1 DEF FTP!Listed
    <3>2. DOMAIN ftp.connections # { }
      BY <3>1 DEF FTP!Range
    <3>3. QED
      BY <3>2
  <2>3. ftp.retry # 1
    BY <1>1, <2>2 DEF Again
  <2>4. QED
    BY <1>3, <2>1, <2>3 DEF Again
<1>6. CASE FTP!Connect
  <2>1. ftp.connections = << >>
    <3>1. \A i \in DOMAIN ftp.connections : HostOf(ftp, i) # request.host
      BY <1>6 DEF FTP!Connect, FTP!Listed, FTP!Range, HostOf
    <3>2. \A i \in DOMAIN ftp.connections : HostOf(ftp, i) = request.host
      BY <1>2 DEF OneHost, FtpFits
    <3>3. ftp.connections \in Seq(ConnectionIds)
      BY <1>2 DEF Ftps
    <3>4. ftp.connections # << >> => 1 \in DOMAIN ftp.connections
      BY <3>3
    <3>5. QED
      BY <3>1, <3>2, <3>4
  <2>2. \E k, c : /\ ftp' = [ ftp EXCEPT !.cons = k, !.control = c,
                                         !.connections = << c >> \o @, !.fresh = TRUE ]
                  /\ pc' = "greeting"
    BY <1>6, Zenon DEF FTP!Connect, FTP!Goto
  <2>3. PICK k, c : /\ ftp' = [ ftp EXCEPT !.cons = k, !.control = c,
                                           !.connections = << c >> \o @, !.fresh = TRUE ]
                    /\ pc' = "greeting"
    BY <2>2
  <2>4. << c >> \o << >> = << c >>
    OBVIOUS
  <2>5. ftp'.connections = << c >> /\ ftp'.control = c /\ ftp'.fresh /\ ~ ftp'.lost
    BY <1>2, <1>3, <2>1, <2>3, <2>4 DEF Ftps
  <2>6. QED
    BY <2>3, <2>5 DEF Again, OnlyControl
<1>7. QED
  BY <1>4, <1>5, <1>6

LEMMA ListenKeepsAgain ==
  ASSUME Inv, Again(ftp, pc), FTP!get_listen_socket \/ FTP!NoListenSocket
  PROVE  Again(ftp', pc')
<1>1. pc = "listen" /\ pc \in FtpBusy /\ pc \notin FtpAsks
  BY DEF FTP!get_listen_socket, FTP!NoListenSocket, FtpBusy, FtpAsks
<1>2. net \in Nets(Hosts) /\ FtpFits(ftp) /\ ftp \in Ftps /\ ftp.control # Null
  BY <1>1 DEF Inv, TypeOK, FtpFits
<1>3. OnlyControl(ftp) /\ ~ ftp.lost /\ (ftp.retry = 1 => ftp.fresh)
  BY <1>1 DEF Again
<1>4. CASE FTP!get_listen_socket
  <2> DEFINE fd == NewSocket(net)
             m == Close(With(net, fd, Listening), ftp.master_socket)
             g == [ ftp EXCEPT !.master_socket = fd ]
  <2>1. FreeSockets(net) # { } /\ FTP!Ask(m, g, "PORT", "port")
    BY <1>4, FtpInput DEF FTP!get_listen_socket
  <2>2. fd \in Fds
    BY <1>2, <2>1, NewSocketFits
  <2> HIDE DEF fd
  <2>3. m \in Nets(Hosts)
    BY <1>2, <2>2, EmptySocket, WithFits, CloseFits
  <2>4. /\ SameList(ftp, g) /\ g.lost = ftp.lost /\ g.retry = ftp.retry
        /\ g.fresh = ftp.fresh
    BY <1>2, <2>2 DEF SameList, Ftps
  <2> HIDE DEF g, m
  <2>5. FtpFits(g) /\ g.control # Null /\ OnlyControl(g)
    BY <1>2, <1>3, <2>4, SameListFits DEF SameList, OnlyControl
  <2>6. "PORT" \in FtpCommands /\ "port" \in FtpAsks
    BY DEF FtpCommands, FtpAsks
  <2>7. QED
    BY <1>3, <2>1, <2>3, <2>4, <2>5, <2>6, AgainWaits
<1>5. CASE FTP!NoListenSocket
  <2>1. pc' = "return" /\ (ftp' = ftp \/ ftp' = [ ftp EXCEPT !.master_socket = Null ])
    BY <1>5, FtpInput DEF FTP!NoListenSocket, FTP!Return
  <2>2. ftp'.connections = ftp.connections /\ ftp'.control = ftp.control /\ ~ ftp'.lost
    BY <1>2, <1>3, <2>1 DEF Ftps
  <2>3. QED
    BY <1>3, <2>1, <2>2 DEF Again, OnlyControl, LogsIn
<1>6. QED
  BY <1>4, <1>5

LEMMA TransferKeepsAgain ==
  ASSUME Inv, Again(ftp, pc), FTP!AcceptFails \/ FTP!TransferFile \/ FTP!read_directory
  PROVE  Again(ftp', pc')
<1>1. pc \notin FtpAsks
  BY DEF FTP!AcceptFails, FTP!TransferFile, FTP!read_directory, FtpAsks
<1>2. ftp \in Ftps /\ OnlyControl(ftp) /\ ~ ftp.lost
  BY <1>1 DEF Again, Inv, FtpFits
<1>3. /\ pc' \in { "return", "final file", "final directory" }
      /\ \/ ftp' = [ ftp EXCEPT !.cons[ftp.control].owes = TRUE ]
         \/ ftp' = [ ftp EXCEPT !.source = FTP!Control(ftp).host ]
  BY DEF FTP!AcceptFails, FTP!TransferFile, FTP!read_directory, FTP!Return, FTP!Transferred
<1>4. ftp'.connections = ftp.connections /\ ftp'.control = ftp.control /\ ~ ftp'.lost
  BY <1>2, <1>3 DEF Ftps
<1>5. QED
  BY <1>2, <1>3, <1>4 DEF Again, OnlyControl, LogsIn

LEMMA FtpKeepsAgain ==
  ASSUME OneHost, Inv, Again(ftp, pc), FTP!HTFTPLoad
  PROVE  Again(ftp', pc')
BY LoginKeepsAgain, PortReplyKeepsAgain, RepliesKeepAgain, ConnectKeepsAgain,
   ListenKeepsAgain, TransferKeepsAgain, Zenon DEF FTP!HTFTPLoad, FTP!get_connection

LEMMA CalledFits ==
  ASSUME NEW f \in Ftps, NEW g, g = FTP!FtpCalled(f)
  PROVE  /\ g.connections = f.connections /\ g.control = f.control /\ g.cons = f.cons
         /\ g.master_socket = f.master_socket /\ g.retry = 0 /\ ~ g.lost
BY DEF FTP!FtpCalled, Ftps

(* HTFTPLoad leaves at a label of its own, or returns; what others do      *)
(* leaves its variables alone, or is a new load.                           *)
LEMMA OthersKeepAgain ==
  ASSUME Inv, Again(ftp, pc), UNCHANGED ftp \/ ftp' = FTP!FtpCalled(ftp),
         \/ pc' = pc
         \/ pc' = "ftp" /\ pc = "file" /\ ftp' = ftp
         \/ pc' = "file" /\ ftp' = FTP!FtpCalled(ftp)
         \/ pc' \notin FtpBusy \cup { "file", "ftp" } /\ pc \notin FtpAsks
  PROVE  Again(ftp', pc')
<1>1. ftp \in Ftps
  BY DEF Inv, FtpFits
<1>2. CASE ftp' = FTP!FtpCalled(ftp)
  <2>1. /\ ftp'.connections = ftp.connections /\ ftp'.control = ftp.control
        /\ ftp'.retry = 0 /\ ~ ftp'.lost
    BY <1>1, <1>2, CalledFits
  <2>2. QED
    BY <2>1 DEF Again, OnlyControl
<1>3. CASE UNCHANGED ftp /\ pc' = pc
  BY <1>3
<1>4. CASE UNCHANGED ftp /\ pc' = "ftp" /\ pc = "file"
  BY <1>4 DEF Again, LogsIn, FtpAsks
<1>5. CASE UNCHANGED ftp /\ pc' \notin FtpBusy \cup { "file", "ftp" } /\ pc \notin FtpAsks
  BY <1>5 DEF Again, LogsIn, FtpBusy, FtpAsks
<1>6. QED
  BY <1>2, <1>3, <1>4, <1>5

(* Only the reply to PORT is awaited there. *)
LEMMA FtpLabels ==
  ASSUME FTP!HTFTPLoad, pc = "port"
  PROVE  FTP!PortReply
<1>1. ~ FTP!get_connection
  BY DEF FTP!get_connection, FTP!HostUnknown, FTP!AlreadyConnected, FTP!CannotConnect,
         FTP!Connect, FTP!Greeting, FTP!LoginReply, FTP!OnReply
<1>2. ~ (FTP!get_listen_socket \/ FTP!NoListenSocket \/ FTP!AcceptFails
         \/ FTP!TransferFile \/ FTP!read_directory)
  BY DEF FTP!get_listen_socket, FTP!NoListenSocket, FTP!AcceptFails, FTP!TransferFile,
         FTP!read_directory
<1>3. ~ (FTP!TypeReply \/ FTP!RetrReply \/ FTP!CwdReply \/ FTP!NlstReply \/ FTP!FinalReply)
  BY DEF FTP!TypeReply, FTP!RetrReply, FTP!CwdReply, FTP!NlstReply, FTP!FinalReply, FTP!OnReply
<1>4. QED
  BY <1>1, <1>2, <1>3 DEF FTP!HTFTPLoad

LEMMA NewsLabels ==
  ASSUME News!HTLoadNews
  PROVE  pc \in NewsBusy \cup { "news" } /\ pc' \in NewsBusy \cup { "return" }
<1>1. pc \in NewsBusy \cup { "news" }
  BY Zenon DEF News!HTLoadNews, News!CannotInitialize, News!Initialize, News!CannotConnect,
     News!Connect, News!Reuse, News!Greeting, News!CommandReply, News!Body, News!HeadReply,
     News!Head_, News!OnReply, News!Line, NewsBusy
<1>2. pc' \in { "return", "news try", "news greeting", "news command", "news body",
                "news head reply", "news head" }
  BY Zenon DEF News!HTLoadNews, News!CannotInitialize, News!Initialize, News!CannotConnect,
     News!Connect, News!Reuse, News!Greeting, News!CommandReply, News!Body, News!HeadReply,
     News!Head_, News!OnReply, News!Line, News!Goto, News!Return, News!Ask, News!NextArticle
<1>3. QED
  BY <1>1, <1>2 DEF NewsBusy

LEMMA WebLabels ==
  ASSUME Web!HTLoadHTTP
  PROVE  pc \in { "http", "http send", "http reply" } /\ pc' \in HttpBusy \cup { "http", "return" }
BY Zenon DEF Web!HTLoadHTTP, Web!CannotConnect, Web!Connect, Web!CannotSend, Web!Send,
   Web!ReadError, Web!Answer, Web!Retry, Web!BadStatus, Web!NoConverter, Web!Copy,
   Web!Goto, Web!Return, HttpBusy

LEMMA GopherLabels ==
  ASSUME Gopher!HTLoadGopher
  PROVE  /\ pc \in { "gopher", "gopher send", "gopher menu", "gopher cso", "gopher file" }
         /\ pc' \in GopherBusy \cup { "return" }
<1>1. pc \in { "gopher", "gopher send", "gopher menu", "gopher cso", "gopher file" }
  BY Zenon DEF Gopher!HTLoadGopher, Gopher!CoverPage, Gopher!CannotConnect, Gopher!Connect,
     Gopher!CannotSend, Gopher!Send, Gopher!parse_menu, Gopher!parse_cso, Gopher!File
<1>2. pc' \in { "gopher send", "gopher menu", "gopher cso", "gopher file", "null pointer", "return" }
  BY Zenon DEF Gopher!HTLoadGopher, Gopher!CoverPage, Gopher!CannotConnect, Gopher!Connect,
     Gopher!CannotSend, Gopher!Send, Gopher!parse_menu, Gopher!parse_cso, Gopher!File,
     Gopher!Goto, Gopher!Return, Gopher!MenuLine, Gopher!NullPointer, Gopher!Done
<1>3. QED
  BY <1>2, <1>1 DEF GopherBusy

LEMMA AgainStep ==
  ASSUME OneHost, Inv, Again(ftp, pc), [Next]_vars
  PROVE  Again(ftp', pc')
<1>1. CASE FTP!HTFTPLoad
  BY <1>1, FtpKeepsAgain
<1>2. CASE Load \/ AlreadyLoaded \/ Forbidden \/ NoProtocol
  <2>1. /\ UNCHANGED ftp /\ pc \notin FtpAsks
        /\ pc' \notin FtpBusy \cup { "file", "ftp" }
    BY <1>2 DEF Load, AlreadyLoaded, Forbidden, NoProtocol, FtpBusy, FtpAsks
  <2>2. QED
    BY <2>1, OthersKeepAgain
<1>3. CASE CallProtocol
  <2>1. /\ ftp' = FTP!FtpCalled(ftp) /\ pc = "load"
        /\ pc' = LoadRoutine(Access) /\ Access \in Protocols
    BY <1>3 DEF CallProtocol
  <2>2. pc' = "file" \/ pc' \notin FtpBusy \cup { "file", "ftp" }
    BY <2>1 DEF LoadRoutine, Protocols, FtpBusy, FtpAsks
  <2>3. pc \notin FtpAsks
    BY <2>1 DEF FtpAsks
  <2>4. QED
    BY <2>1, <2>2, <2>3, OthersKeepAgain
<1>4. CASE Finish
  <2>1. ftp' = FTP!FtpCalled(ftp) /\ pc = "return" /\ pc' \in { "exit", "null text", "idle" }
    BY <1>4 DEF Finish
  <2>2. pc \notin FtpAsks /\ pc' \notin FtpBusy \cup { "file", "ftp" }
    BY <2>1 DEF FtpBusy, FtpAsks
  <2>3. QED
    BY <2>1, <2>2, OthersKeepAgain
<1>5. CASE News!HTLoadNews /\ UNCHANGED ftp
  <2>1. pc \notin FtpAsks /\ pc' \notin FtpBusy \cup { "file", "ftp" }
    BY <1>5, NewsLabels DEF NewsBusy, FtpBusy, FtpAsks
  <2>2. QED
    BY <1>5, <2>1, OthersKeepAgain
<1>6. CASE Web!HTLoadHTTP /\ UNCHANGED ftp
  <2>1. pc \notin FtpAsks /\ pc' \notin FtpBusy \cup { "file", "ftp" }
    BY <1>6, WebLabels DEF HttpBusy, FtpBusy, FtpAsks
  <2>2. QED
    BY <1>6, <2>1, OthersKeepAgain
<1>7. CASE Gopher!HTLoadGopher /\ UNCHANGED ftp
  <2>1. pc \notin FtpAsks /\ pc' \notin FtpBusy \cup { "file", "ftp" }
    BY <1>7, GopherLabels DEF GopherBusy, FtpBusy, FtpAsks
  <2>2. QED
    BY <1>7, <2>1, OthersKeepAgain
<1>8. CASE (File!HTLoadFile \/ File!HTLoadTelnet) /\ UNCHANGED ftp
  <2>1. /\ pc \in { "file", "telnet" } /\ pc' \in { "ftp", "return" }
        /\ pc' = "ftp" => pc = "file"
    BY <1>8, Zenon DEF File!HTLoadFile, File!HTLoadTelnet, File!LocalFile, File!RemoteFile,
       File!NoFile, File!Return
  <2>2. pc \notin FtpAsks /\ "return" \notin FtpBusy \cup { "file", "ftp" }
    BY <2>1 DEF FtpBusy, FtpAsks
  <2>3. CASE pc' = "ftp"
    <3>1. pc = "file" /\ ftp' = ftp
      BY <1>8, <2>1, <2>3
    <3>2. QED
      BY <2>3, <3>1, OthersKeepAgain
  <2>4. CASE pc' = "return"
    BY <1>8, <2>2, <2>4, OthersKeepAgain
  <2>5. QED
    BY <2>1, <2>3, <2>4
<1>9. CASE ServerCloses \/ UNCHANGED vars
  BY <1>9, OthersKeepAgain DEF ServerCloses, vars
<1>10. QED
  BY <1>1, <1>2, <1>3, <1>4, <1>5, <1>6, <1>7, <1>8, <1>9 DEF Next, HTLoadAnchor, LoadByProtocol

AgainNow == Again(ftp, pc)

LEMMA AgainInit == Init => Again(ftp, pc)
<1> SUFFICES ASSUME Init
             PROVE  Again(ftp, pc)
  OBVIOUS
<1>1. ftp.connections = << >> /\ ~ ftp.lost /\ pc = "idle"
  BY DEF Init, FTP!InitialFtp
<1>2. QED
  BY <1>1 DEF Again, OnlyControl, LogsIn

(* A load of the one FTP host fails at the port command only on a          *)
(* connection it has made itself: one that was kept and is found lost      *)
(* leaves the list, and HTFTPLoad makes a new one.                         *)
THEOREM LostOnesAreTriedAgain ==
  ASSUME OneHost
  PROVE  Spec => IdleLossIsRetried
<1>1. Inv /\ AgainNow /\ [Next]_vars => AgainNow'
  BY AgainStep DEF AgainNow
<1>2. Inv /\ AgainNow /\ [Next]_vars
        => [ pc = "port" /\ pc' = "return" /\ status' = FTP!Failed => ftp.fresh ]_vars
  <2> SUFFICES ASSUME Inv, Again(ftp, pc), [Next]_vars, pc = "port", pc' = "return",
                      status' = FTP!Failed
               PROVE  ftp.fresh
    BY Zenon DEF AgainNow
  <2>1. CASE FTP!PortReply
    BY <2>1, PortReplyKeepsAgain
  <2>2. FTP!HTFTPLoad
    <3>1. ~ (Load \/ AlreadyLoaded \/ Forbidden \/ NoProtocol \/ CallProtocol \/ Finish)
      BY DEF Load, AlreadyLoaded, Forbidden, NoProtocol, CallProtocol, Finish
    <3>2. ~ (News!HTLoadNews \/ Web!HTLoadHTTP \/ Gopher!HTLoadGopher)
      BY NewsLabels, WebLabels, GopherLabels DEF NewsBusy
    <3>3. ~ (File!HTLoadFile \/ File!HTLoadTelnet)
      BY DEF File!HTLoadFile, File!HTLoadTelnet, File!LocalFile, File!RemoteFile,
             File!NoFile
    <3>4. ~ (ServerCloses \/ UNCHANGED vars)
      BY DEF ServerCloses, vars
    <3>5. QED
      BY <3>1, <3>2, <3>3, <3>4 DEF Next, HTLoadAnchor, LoadByProtocol
  <2>3. QED
    BY <2>1, <2>2, FtpLabels
<1>3. QED
  <2>1. Init => AgainNow
    BY AgainInit DEF AgainNow
  <2>2. QED
    BY <1>1, <1>2, <2>1, InvInit, InvStep, PTL DEF Spec, IdleLossIsRetried

=============================================================================
