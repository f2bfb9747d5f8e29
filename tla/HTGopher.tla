------------------------------- MODULE HTGopher --------------------------------
(***************************************************************************)
(* HTGopher.c: menus, directories of people (CSO) and files of a gopher    *)
(* server, each over a connection of its own.  A menu is read through the  *)
(* shared input and parsed line by line into links.                        *)
(***************************************************************************)
EXTENDS HTInput

CONSTANT MaxLines     \* bound: lines the server sends

VARIABLES gopher,     \* the socket, and the variables of parse_menu
          pc, request, status, text

(* What name and selector point to: nothing, the line being parsed, or     *)
(* what is in the same places of the buffer since an earlier one.  `link'  *)
(* is the last link written: what its text and its address came from.      *)
Fields == { "null", "this line", "an earlier line" }

InitialGopher == [ s |-> Null, name |-> "null", selector |-> "null",
                   link |-> [ by |-> "none", text |-> "null", address |-> "null" ] ]

GopherOK ==
  gopher \in [ s : Fds \cup { Null }, name : Fields, selector : Fields,
               link : [ by : { "none", "www", "other" }, text : Fields, address : Fields ] ]

HT_LOADED == 29999

Goto(n, g, label) ==
  net' = n /\ gopher' = g /\ pc' = label /\ UNCHANGED << request, status, text >>
Return(n, value, shown) ==
  /\ net' = n /\ gopher' = InitialGopher /\ pc' = "return"
  /\ status' = value /\ text' = shown /\ UNCHANGED request

(* A search page that no words were given for is made up on this side. *)
CoverPage ==
  pc = "gopher" /\ request.kind \in { "index", "cso" } /\ Return(net, HT_LOADED, TRUE)

CannotConnect ==
  /\ pc = "gopher"
  /\ \/ Return(net, -1, FALSE)
     \/ /\ FreeSockets(net) # { }      \* the socket is left open
        /\ Return(With(net, NewSocket(net), Socket(request.host, << >>)), -1, FALSE)

Connect ==
  /\ pc = "gopher" /\ FreeSockets(net) # { }
  /\ LET fd == NewSocket(net)
     IN  Goto(HTInitInput(With(net, fd, Socket(request.host, << >>)), fd),
              [ gopher EXCEPT !.s = fd ], "gopher send")

CannotSend == pc = "gopher send" /\ Return(net, -1, FALSE)

(* What comes is lines, with or without the dot that ends a menu, and      *)
(* perhaps more after it; then the server closes.                          *)
Pages == UNION { [ 1 .. k -> { Text, Dot } ] : k \in 0 .. MaxLines }

Send ==
  /\ pc = "gopher send"
  /\ \E page \in Pages :
       Goto(With(net, gopher.s, [ Socket(request.host, page) EXCEPT !.up = FALSE ]), gopher,
            IF request.kind \in { "menu", "index" } THEN "gopher menu"
            ELSE IF request.kind = "cso" THEN "gopher cso" ELSE "gopher file")

-----------------------------------------------------------------------------
(* A line of a menu: its type, whether a name follows, and how many of the *)
(* tabs that separate name, selector, host and port.                       *)
MenuLines == [ www : BOOLEAN, named : BOOLEAN, tabs : 0 .. 3 ]

(* The fields a line without a name leaves are those of the line before,   *)
(* in a buffer that has been written over.                                 *)
Before(field) == IF field = "null" THEN "null" ELSE "an earlier line"

Parsed(g, line) ==
  [ g EXCEPT
      !.name     = IF line.named THEN "this line" ELSE Before(@),
      !.selector = IF ~ line.named THEN Before(@)
                   ELSE IF line.tabs > 0 THEN "this line" ELSE "null" ]

(* Slip: the port of an earlier line makes a link of a line without one. *)
HasPort_stale(g, line) == line.tabs = 3 \/ g.link.by = "other"

HasPort(g, line) == line.named /\ line.tabs = 3

Written(g, line) ==
  [ g EXCEPT !.link = IF line.www
                      THEN [ by |-> "www", text |-> g.name, address |-> g.selector ]
                      ELSE IF HasPort(g, line)
                      THEN [ by |-> "other", text |-> g.name, address |-> g.selector ]
                      ELSE @ ]

(* The program follows a null pointer and stops. *)
NullPointer == pc' = "null pointer" /\ UNCHANGED << net, gopher, request, status, text >>

(* write_anchor with no name: the text is written through a null pointer. *)
MenuLine(n, line) ==
  LET g == Parsed(gopher, line)
  IN  IF line.www /\ g.name = "null"
      THEN NullPointer
      ELSE Goto(n, Written(g, line), "gopher menu")

Done(n) == Return(Close(n, gopher.s), HT_LOADED, TRUE)

parse_menu ==
  /\ pc = "gopher menu"
  /\ \E o \in HTGetChararcter(net) :
       \/ o.item \in { Dot, EOF } /\ Done(o.net)
       \/ o.item \notin { Dot, EOF } /\ \E line \in MenuLines : MenuLine(o.net, line)

(* The answer of a directory of people ends with a line of its own, too;   *)
(* in a line of data without a colon the second one is sought beyond null. *)
parse_cso ==
  /\ pc = "gopher cso"
  /\ \E o \in HTGetChararcter(net) :
       \/ o.item \in { Dot, EOF } /\ Done(o.net)
       \/ o.item \notin { Dot, EOF } /\ (NullPointer \/ Goto(o.net, gopher, "gopher cso"))

(* HTParseSocket: as text, byte by byte into the shared input, or not; or  *)
(* not at all, and the failure is not reported.                            *)
File ==
  /\ pc = "gopher file"
  /\ \E shown \in BOOLEAN,
        n \in { HTInitInput(net, gopher.s), Overwritten(net), net } :
       Return(Close(n, gopher.s), HT_LOADED, shown)

HTLoadGopher ==
  \/ CoverPage \/ CannotConnect \/ Connect \/ CannotSend \/ Send
  \/ parse_menu \/ parse_cso \/ File

=============================================================================
