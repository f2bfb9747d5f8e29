--------------------------------- MODULE HTWSRC ---------------------------------
(***************************************************************************)
(* The parser of WAIS source files (HTWSRC.c), which are lists of fields   *)
(* with a name and a value, and what it shows of one as HTML.              *)
(*                                                                         *)
(* A file comes in pieces: the delimiters, white space, and words, which   *)
(* are the names of fields or whatever else stands there.                  *)
(***************************************************************************)
EXTENDS Integers, SequencesExt

VARIABLE wsrc    \* the stream

par_name == { "ip-name", "tcp-port", "database-name", "source" }

Delimiters == { "(", ")", ":", "\"", "\\", "white" }
Parameters == par_name \cup { "unknown" }

NotGiven == << >>

WsrcStates ==
  { "beginning", "before_tag", "colon", "before_value", "value",
    "bracketed_value", "quoted_value", "escape_in_quoted", "done" }

(* `html' is the access link of the text that is made in the end, `crash'  *)
(* that the host's name was put on it without being there.                 *)
HTWSRCConvert ==
  [ state |-> "beginning", param |-> << >>, param_number |-> "unknown",
    par_value |-> [ p \in Parameters |-> NotGiven ], freed |-> FALSE,
    link |-> << >>, elements |-> << >>, crash |-> FALSE ]

(* A name is known as a whole word.                                        *)
NumberOf(param) ==
  IF Len(param) = 1 /\ Head(param) \in par_name THEN Head(param) ELSE "unknown"

Go(me, state) == [ me EXCEPT !.state = state ]
AddTo(me, piece) == [ me EXCEPT !.param = Append(@, piece) ]
KeepParam(me) ==
  [ me EXCEPT !.par_value[me.param_number] = me.param, !.state = "before_tag" ]

BeforeTag(me, piece) ==
  CASE piece = ")" -> Go(me, "done")
    [] piece = ":" -> [ me EXCEPT !.state = "colon", !.param = << >> ]
    [] OTHER       -> me

Colon(me, piece) ==
  IF piece = "white"
  THEN [ me EXCEPT !.param_number = NumberOf(me.param), !.state = "before_value" ]
  ELSE AddTo(me, piece)

BeforeValue_stale(me, piece) ==
  CASE piece = ")"     -> Go(me, "done")
    [] piece = "white" -> me
    [] piece = "\""    -> Go(me, "quoted_value")
    [] piece = "("     -> AddTo(Go(me, "bracketed_value"), piece)
    [] OTHER           -> AddTo(Go(me, "value"), piece)

(* The first character of a value is kept, unless it is a quote. *)
BeforeValue(me, piece) ==
  LET empty == [ me EXCEPT !.param = << >> ]
  IN  CASE piece = ")"     -> Go(me, "done")
        [] piece = "white" -> me
        [] piece = "\""    -> Go(empty, "quoted_value")
        [] piece = "("     -> AddTo(Go(empty, "bracketed_value"), piece)
        [] OTHER           -> AddTo(Go(empty, "value"), piece)

(* A value ends with what it began with; only a quoted one has escapes,    *)
(* and from the first of these the parser never comes back.                *)
Value(me, piece)          == IF piece = "white" THEN KeepParam(me) ELSE AddTo(me, piece)
BracketedValue(me, piece) == IF piece = ")" THEN KeepParam(me) ELSE AddTo(me, piece)
QuotedValue(me, piece) ==
  CASE piece = "\"" -> KeepParam(me)
    [] piece = "\\" -> Go(me, "escape_in_quoted")
    [] OTHER        -> AddTo(me, piece)

WSRCParser_put_character(me, piece) ==
  CASE me.state = "beginning" -> IF piece = "(" THEN Go(me, "before_tag") ELSE me
    [] me.state = "before_tag"       -> BeforeTag(me, piece)
    [] me.state = "colon"            -> Colon(me, piece)
    [] me.state = "before_value"     -> BeforeValue(me, piece)
    [] me.state = "value"            -> Value(me, piece)
    [] me.state = "bracketed_value"  -> BracketedValue(me, piece)
    [] me.state = "quoted_value"     -> QuotedValue(me, piece)
    [] me.state = "escape_in_quoted" -> AddTo(me, piece)
    [] me.state = "done"             -> me

Given(me, p) == me.par_value[p] # NotGiven

(* WSRC_gen_html: the elements of the text, and in the link the host, port *)
(* and database.                                                           *)
WSRC_gen_html(me) ==
  LET named == Given(me, "database-name")
      linked == named /\ Given(me, "ip-name")
  IN  [ me EXCEPT
          !.elements = (IF named THEN << "TITLE", "/TITLE", "H1", "/H1" >> ELSE << >>)
                       \o << "DL", "DT", "DD" >>
                       \o (IF linked THEN << "A", "/A", "A", "/A" >> ELSE << >>)
                       \o << "DT", "DD" >>
                       \o (IF Given(me, "ip-name") THEN << "/DL" >> ELSE << >>),
          !.link = IF linked
                   THEN << me.par_value["ip-name"], me.par_value["tcp-port"],
                           me.par_value["database-name"] >>
                   ELSE << >>,
          !.crash = ~ Given(me, "ip-name") ]

(* Nothing tells an aborted file from a whole one. *)
WSRCParser_free(me)  == [ WSRC_gen_html(me) EXCEPT !.freed = TRUE ]
WSRCParser_abort(me) == WSRCParser_free(me)

WsrcOK ==
  /\ wsrc.state \in WsrcStates /\ wsrc.param_number \in Parameters
  /\ DOMAIN wsrc.par_value = Parameters /\ wsrc.crash \in BOOLEAN

=============================================================================
