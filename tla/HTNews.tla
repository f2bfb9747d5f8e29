-------------------------------- MODULE HTNews ---------------------------------
(***************************************************************************)
(* HTNews.c: articles, lists and groups from the one news server, over a   *)
(* connection that is kept for the next load.  The text is written to a    *)
(* hypertext object while it is read, line by line.                        *)
(***************************************************************************)
EXTENDS HTInput

CONSTANTS NewsHost,
          MaxArticles   \* bound: articles of a group's block that are read

VARIABLES news,         \* the module's static variables, see InitialNews
          pc, request, status, text

(* `article': how many articles of the block are still to be asked for.    *)
(* `lost': the last command could not be written.                          *)
InitialNews == [ s |-> Null, initialized |-> FALSE, retries |-> 0,
                 article |-> 0, lost |-> FALSE ]

NewsOK == news \in [ s : Fds \cup { Null }, initialized : BOOLEAN,
                     retries : 0 .. 1, article : 0 .. MaxArticles, lost : BOOLEAN ]

HT_LOADED == 29999
LoadError == -500

(* The server's answers: a reply, and after 2 the lines up to a dot; or it *)
(* refuses, with or without closing, or closes in the middle.              *)
NewsServer(cmd, peer, session) ==
  LET answer(wire, up) == [ wire |-> wire, up |-> up, session |-> session ]
  IN  IF peer # NewsHost THEN { answer(<< 5 >>, TRUE) }
      ELSE { answer(<< 5 >>, TRUE), answer(<< 5 >>, FALSE), answer(<< >>, FALSE) }
           \cup (IF cmd = "GROUP" THEN { answer(<< 2 >>, TRUE) }
                 ELSE { answer(<< 2, Dot >>, TRUE), answer(<< 2, Text, Dot >>, TRUE),
                        answer(<< 2, Text >>, FALSE) })

Disconnected(n, w) == [ net |-> Close(n, w.s), news |-> [ w EXCEPT !.s = Null ] ]

Command(n, w, cmd) ==
  { IF o.sent THEN [ net |-> o.net, news |-> w ]
    ELSE [ Disconnected(o.net, w) EXCEPT !.news.lost = TRUE ]
    : o \in Write(n, w.s, LAMBDA peer, session : NewsServer(cmd, peer, session)) }

(* The status' first digit, or -1 after which there is no connection. *)
Response(n, w) ==
  IF w.lost THEN { [ digit |-> -1, net |-> n, news |-> [ w EXCEPT !.lost = FALSE ] ] }
  ELSE UNION { IF o.item = EOF
               THEN LET closed == Disconnected(o.net, w)
                    IN  { [ digit |-> -1, net |-> closed.net, news |-> closed.news ] }
               ELSE { [ digit |-> IF d = Notice THEN 4 ELSE d, net |-> o.net, news |-> w ]
                      : d \in NumbersOf(o.item) }
               : o \in HTGetChararcter(n) }

Goto(n, w, label) ==
  net' = n /\ news' = w /\ pc' = label /\ UNCHANGED << request, status, text >>
Ask(n, w, cmd, label) == \E o \in Command(n, w, cmd) : Goto(o.net, o.news, label)

(* `shown': the object has been freed, or had enough put into it, and the  *)
(* document has a text.                                                    *)
Return(n, w, value, shown) ==
  /\ net' = n /\ news' = w /\ pc' = "return" /\ status' = value /\ text' = shown
  /\ UNCHANGED request

OnReply(label, Do(_)) == pc = label /\ \E r \in Response(net, news) : Do(r)

-----------------------------------------------------------------------------
CannotInitialize ==
  pc = "news" /\ ~ news.initialized /\ Return(net, news, -1, FALSE)

Initialize ==
  /\ pc = "news"
  /\ Goto(net, [ news EXCEPT !.s = IF news.initialized THEN @ ELSE Null,
                             !.initialized = TRUE, !.retries = 0, !.lost = FALSE ],
          "news try")

Wanted == CASE request.kind = "list" -> "LIST" [] request.kind = "group" -> "GROUP"
            [] OTHER -> "ARTICLE"

CannotConnect ==
  pc = "news try" /\ news.s = Null /\ Return(net, news, LoadError, FALSE)

Connect ==
  /\ pc = "news try" /\ news.s = Null /\ FreeSockets(net) # { }
  /\ \E greeting \in { << 2 >>, << 5 >>, << >> } :
       LET fd == NewSocket(net)
           it == [ Socket(NewsHost, greeting) EXCEPT !.up = greeting # << >> ]
       IN  Goto(HTInitInput(With(net, fd, it), fd), [ news EXCEPT !.s = fd ],
                "news greeting")

(* Slip: a greeting is awaited on a connection that has had its own. *)
Reuse_greeted ==
  pc = "news try" /\ news.s # Null /\ Goto(net, news, "news greeting")

Reuse == pc = "news try" /\ news.s # Null /\ Ask(net, news, Wanted, "news command")

Greeting ==
  OnReply("news greeting", LAMBDA r :
    \/ r.digit = 2 /\ Ask(r.net, r.news, Wanted, "news command")
    \/ /\ r.digit # 2
       /\ LET closed == Disconnected(r.net, r.news)
          IN  Return(closed.net, closed.news, LoadError, FALSE))

(* The next article of the block, or the end of it. *)
NextArticle(n, w) ==
  IF w.article = 0 THEN Return(n, w, HT_LOADED, TRUE)
  ELSE Ask(n, [ w EXCEPT !.article = @ - 1 ], "HEAD", "news head reply")

(* Slip: a refusal leaves the connection as it is. *)
CommandReplyKeeps ==
  OnReply("news command", LAMBDA r :
    \/ r.digit < 0 /\ Return(r.net, r.news, HT_LOADED, FALSE)
    \/ r.digit >= 0 /\ r.digit # 2 /\ Goto(r.net, r.news, "news try")
    \/ r.digit = 2 /\ request.kind # "group" /\ Goto(r.net, r.news, "news body")
    \/ /\ r.digit = 2 /\ request.kind = "group"
       /\ \E k \in 0 .. MaxArticles :
            NextArticle(r.net, [ r.news EXCEPT !.article = k ]))

(* Slip: a refusal is tried again once too often. *)
CommandReplyThrice ==
  OnReply("news command", LAMBDA r :
    \/ r.digit < 0 /\ Return(r.net, r.news, HT_LOADED, FALSE)
    \/ /\ r.digit >= 0 /\ r.digit # 2
       /\ LET closed == Disconnected(r.net, r.news)
          IN  IF news.retries <= 1
              THEN Goto(closed.net, [ closed.news EXCEPT !.retries = @ + 1 ], "news try")
              ELSE Return(closed.net, closed.news, HT_LOADED, FALSE)
    \/ r.digit = 2 /\ Goto(r.net, r.news, "news body"))

(* A loss ends the load, reported as loaded; a refusal closes, and is      *)
(* tried once more.                                                        *)
CommandReply ==
  OnReply("news command", LAMBDA r :
    \/ r.digit < 0 /\ Return(r.net, r.news, HT_LOADED, FALSE)
    \/ /\ r.digit >= 0 /\ r.digit # 2
       /\ LET closed == Disconnected(r.net, r.news)
          IN  IF news.retries = 0
              THEN Goto(closed.net, [ closed.news EXCEPT !.retries = 1 ], "news try")
              ELSE Return(closed.net, closed.news, HT_LOADED, FALSE)
    \/ r.digit = 2 /\ request.kind # "group" /\ Goto(r.net, r.news, "news body")
    \/ /\ r.digit = 2 /\ request.kind = "group"
       /\ \E k \in 0 .. MaxArticles :
            NextArticle(r.net, [ r.news EXCEPT !.article = k ]))

(* A line of a text: it goes on until the dot, or until the connection is  *)
(* lost (abort_socket).                                                    *)
Line(label, AtDot(_)) ==
  /\ pc = label
  /\ \E o \in HTGetChararcter(net) :
       \/ o.item = Dot /\ AtDot(o.net)
       \/ o.item = EOF /\ LET closed == Disconnected(o.net, news)
                          IN  Return(closed.net, closed.news, HT_LOADED, TRUE)
       \/ o.item \notin { Dot, EOF } /\ Goto(o.net, news, label)

(* read_article, read_list *)
Body == Line("news body", LAMBDA n : Return(n, news, HT_LOADED, TRUE))

(* read_group: the head of every article of the block is asked for in      *)
(* turn; one that is refused, or lost, is left out.                        *)
HeadReply ==
  OnReply("news head reply", LAMBDA r :
    \/ r.digit = 2 /\ Goto(r.net, r.news, "news head")
    \/ r.digit # 2 /\ NextArticle(r.net, r.news))
Head_ == Line("news head", LAMBDA n : NextArticle(n, news))

HTLoadNews ==
  \/ CannotInitialize \/ Initialize \/ CannotConnect \/ Connect \/ Reuse \/ Greeting
  \/ CommandReply \/ Body \/ HeadReply \/ Head_

=============================================================================
