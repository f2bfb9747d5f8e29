--------------------------------- MODULE HTTP ----------------------------------
(***************************************************************************)
(* HTTP.c: one request on a connection of its own, repeated in the older   *)
(* protocol when the server says it does not know the new one.             *)
(***************************************************************************)
EXTENDS HTInput

VARIABLES http,       \* the socket, and whether extensions are used
          pc, request, status, text

InitialHttp == [ s |-> Null, extensions |-> TRUE ]

HttpOK == http \in [ s : Fds \cup { Null }, extensions : BOOLEAN ]

HT_LOADED == 29999
LoadError == -500

(* What the first line of the answer can be: the message of a server that  *)
(* knows only the old protocol, a document without a header, one that is   *)
(* not text, or a header with good, bad or another status.                 *)
FirstLines == { "old server", "html", "binary", "good", "bad", "other" }

Goto(n, h, label) ==
  net' = n /\ http' = h /\ pc' = label /\ UNCHANGED << request, status, text >>
Return(n, value, shown) ==
  /\ net' = n /\ http' = [ http EXCEPT !.s = Null ] /\ pc' = "return"
  /\ status' = value /\ text' = shown /\ UNCHANGED request

HttpCalled(h) == [ h EXCEPT !.extensions = TRUE ]

(* A connection that cannot be made leaves its socket open. *)
CannotConnect ==
  /\ pc = "http"
  /\ \/ Return(net, -1, FALSE)
     \/ /\ FreeSockets(net) # { }
        /\ Return(With(net, NewSocket(net), Socket(request.host, << >>)), -1, FALSE)

Connect ==
  /\ pc = "http" /\ FreeSockets(net) # { }
  /\ LET fd == NewSocket(net)
     IN  Goto(With(net, fd, Socket(request.host, << >>)), [ http EXCEPT !.s = fd ],
              "http send")

(* So does a request that cannot be sent. *)
CannotSend == pc = "http send" /\ Return(net, -1, FALSE)

Send == pc = "http send" /\ Goto(net, http, "http reply")

ReadError == pc = "http reply" /\ Return(Close(net, http.s), -1, FALSE)

(* Slip: the first connection is not closed. *)
RetryLeaks ==
  /\ pc = "http reply" /\ http.extensions
  /\ Goto(net, [ s |-> Null, extensions |-> FALSE ], "http")

Retry ==
  /\ pc = "http reply" /\ http.extensions
  /\ Goto(Close(net, http.s), [ s |-> Null, extensions |-> FALSE ], "http")

(* A bad status is an error; every other answer is a document, if there is *)
(* a converter for it.  If there is none both buffers are freed, and freed *)
(* again in the clean-up.                                                  *)
BadStatus ==
  pc = "http reply" /\ Return(Close(net, http.s), LoadError, FALSE)

NoConverter ==
  /\ pc = "http reply"
  /\ pc' = "double free" /\ UNCHANGED << net, http, request, status, text >>

Copy ==
  /\ pc = "http reply"
  /\ \E shown \in BOOLEAN : Return(Overwritten(Close(net, http.s)), HT_LOADED, shown)

Answer(line) ==
  \/ line = "old server" /\ Retry
  \/ line = "bad" /\ BadStatus
  \/ /\ line # "bad" /\ ~ (line = "old server" /\ http.extensions)
     /\ Copy \/ NoConverter

HTLoadHTTP ==
  \/ CannotConnect \/ Connect \/ CannotSend \/ Send \/ ReadError
  \/ \E line \in FirstLines : Answer(line)

=============================================================================
