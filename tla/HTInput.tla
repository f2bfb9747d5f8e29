-------------------------------- MODULE HTInput --------------------------------
(***************************************************************************)
(* Sockets, and the input buffer of HTFormat.c that all protocol modules   *)
(* share.  A socket is the number the operating system gives it, always    *)
(* the lowest free one, so that a number kept after it was closed may be   *)
(* somebody else's later; `Null' stands for the code's -1.                 *)
(*                                                                         *)
(* What the other side sends is a sequence of items: a reply by its first  *)
(* digit, the notice of an FTP server that it closes, a line of text, a    *)
(* line with a dot.  Every operator goes from `net' before to `net' after, *)
(* or to the set of what may come of it.                                   *)
(***************************************************************************)
EXTENDS Integers, FiniteSetsExt, SequencesExt

CONSTANT MaxSockets   \* sockets a process may have

ASSUME SocketAssumption == MaxSockets \in Nat \ { 0 }

VARIABLE net          \* sockets; the input's file number and its buffer

Null == 0
Fds  == 1 .. MaxSockets

(* Items besides the replies 1 to 5; EOF is no item but the end of them.   *)
Notice  == 421
Text    == 10
Dot     == 11
Garbage == 12
EOF     == -1
Items   == 1 .. 5 \cup { Notice, Text, Dot, Garbage }

(* `session' is what the server of a control connection knows of it: not   *)
(* logged in, or the type of its transfers, ASCII or image.                *)
Nobodies == { "nobody", "listener", "data" }

Sockets(hosts) ==
  [ peer : hosts \cup Nobodies, up : BOOLEAN, wire : Seq(Items),
    session : { "none", "A", "I" } ]

Socket(peer, wire) ==
  [ peer |-> peer, up |-> TRUE, wire |-> wire, session |-> "none" ]

(* A socket that listens, and can neither be read nor written. *)
Listening == [ Socket("listener", << >>) EXCEPT !.up = FALSE ]

Unused == [ Socket("nobody", << >>) EXCEPT !.up = FALSE ]

InitialNet == [ sockets |-> [ fd \in Fds |-> Unused ],
                fd |-> Null, buffer |-> << >> ]

Nets(hosts) ==
  [ sockets : [ Fds -> Sockets(hosts) ], fd : Fds \cup { Null }, buffer : Seq(Items) ]

IsOpen(n, fd)  == fd \in Fds /\ n.sockets[fd] # Unused
OpenSockets(n) == { fd \in Fds : IsOpen(n, fd) }
FreeSockets(n) == Fds \ OpenSockets(n)

(* socket(), for a caller that has seen to there being a free one. *)
NewSocket(n)       == Min(FreeSockets(n))
With(n, fd, state) == [ n EXCEPT !.sockets[fd] = state ]

(* close(); a number that is not in use is refused without effect. *)
Close(n, fd) == IF fd \in Fds THEN With(n, fd, Unused) ELSE n

(* write() of a command, and what the server makes of it: each answer is   *)
(* what it sends, whether it stays, and its session after.  A server that  *)
(* has gone is noticed by this write or not before the next read.          *)
Write(n, fd, Answers(_, _)) ==
  IF ~ IsOpen(n, fd) \/ n.sockets[fd].peer = "listener"
  THEN { [ sent |-> FALSE, net |-> n ] }
  ELSE LET it == n.sockets[fd]
       IN  IF it.up
           THEN { [ sent |-> TRUE,
                    net |-> With(n, fd, [ it EXCEPT !.wire = @ \o a.wire,
                                           !.up = a.up, !.session = a.session ]) ]
                  : a \in Answers(it.peer, it.session) }
           ELSE [ sent : BOOLEAN, net : { n } ]

HTInitInput(n, fd) == [ n EXCEPT !.fd = fd, !.buffer = << >> ]

(* HTCopy and HTFileCopy read into the buffer's memory and leave its       *)
(* pointers alone: what was unread in it is overwritten.                   *)
Overwritten(n) == [ n EXCEPT !.buffer = [ i \in DOMAIN @ |-> Garbage ] ]

(* HTGetChararcter, one item at a time: from the buffer, or after a read   *)
(* that may bring any first part of what the other side has sent.  Empty   *)
(* when the read waits.                                                    *)
HTGetChararcter(n) ==
  LET take(item, rest) == [ item |-> item, net |-> [ n EXCEPT !.buffer = rest ] ]
      it == n.sockets[n.fd]
  IN  IF n.buffer # << >> THEN { take(Head(n.buffer), Tail(n.buffer)) }
      ELSE IF ~ IsOpen(n, n.fd) THEN { take(EOF, << >>) }
      ELSE IF it.wire # << >>
      THEN { [ item |-> Head(it.wire),
               net |-> [ With(n, n.fd, [ it EXCEPT !.wire =
                                          SubSeq(@, k + 1, Len(@)) ])
                           EXCEPT !.buffer = SubSeq(it.wire, 2, k) ] ]
             : k \in 1 .. Len(it.wire) }
      ELSE IF it.up THEN { } ELSE { take(EOF, << >>) }

(* What sscanf makes of a line.  A line without a number leaves `result'   *)
(* as it was on the stack.                                                 *)
NumbersOf(item) ==
  IF item \in 1 .. 5 \cup { Notice } THEN { item } ELSE 0 .. 5 \cup { Notice }

=============================================================================
