--------------------------------- MODULE HTMIME ---------------------------------
(***************************************************************************)
(* The parser of a MIME header (HTMIME.c), which then steps aside for the  *)
(* stream its Content-Type calls for.                                      *)
(*                                                                         *)
(* The header comes in pieces, each standing for the characters the code   *)
(* sees one by one: the parts of the field names it looks for, the values, *)
(* any other word, one too long for the buffer of values, a space, a       *)
(* return and a newline.  In a word of which nothing is expected every     *)
(* character does what the first one did.                                  *)
(***************************************************************************)
EXTENDS HTFormat

VARIABLE mime    \* the stream, or `NoMime'

Names  == { "c", "ontent-t", "ype:", "ransfer-encoding:" }
White  == { " ", "\r", "\n" }
Pieces == Names \cup White \cup { Html, Wais, Plain, "other", "long" }

MimeStates ==
  { "BEGINNING_OF_LINE", "CHECK", "CONTENT_T", "CONTENT_TYPE",
    "CONTENT_TRANSFER_ENCODING", "SKIP_GET_VALUE", "GET_VALUE", "JUNK_LINE",
    "NEWLINE", "TRANSPARENT", "IGNORE" }

(* `check' is the piece that leads on to the state if_ok. *)
HTMIMEConvert(targetRep, net_ascii) ==
  [ state |-> "BEGINNING_OF_LINE", check |-> "none", if_ok |-> "none",
    field |-> "none", fold_state |-> "none", value |-> << >>,
    format |-> Plain, encoding |-> "none", targetRep |-> targetRep,
    net_ascii |-> net_ascii, target |-> "none" ]

NoMime == [ HTMIMEConvert("none", FALSE) EXCEPT !.state = "IGNORE" ]

(* The atom of a value that was put together from one or several words.    *)
AtomOf(value) == IF Len(value) = 1 THEN Head(value) ELSE "unknown"

Expect(me, piece, if_ok) ==
  [ me EXCEPT !.state = "CHECK", !.check = piece, !.if_ok = if_ok ]

Junk(me) == [ me EXCEPT !.state = "JUNK_LINE" ]

(* The end of the header: `stack' is what HTStreamStack found, `sink' is   *)
(* used for anything else, and without one the rest is ignored.  What was  *)
(* kept for parsing is not looked at again.                                *)
EndOfHeader_blind(me, stack, sink) ==
  [ HTMIMEConvert(me.targetRep, me.net_ascii) EXCEPT
      !.format = me.format, !.target = stack, !.state = "TRANSPARENT" ]

EndOfHeader(me, stack, sink) ==
  LET target == IF stack = "none" THEN sink ELSE stack
  IN  [ HTMIMEConvert(me.targetRep, me.net_ascii) EXCEPT
          !.format = me.format, !.target = target,
          !.state = IF target = "none" THEN "IGNORE" ELSE "TRANSPARENT" ]

BeginLine(me, piece, stack, sink) ==
  CASE piece = "c"  -> Expect(me, "ontent-t", "CONTENT_T")
    [] piece = "\n" -> EndOfHeader(me, stack, sink)
    [] OTHER        -> Junk(me)

Newline(me, fold_state) == [ me EXCEPT !.state = "NEWLINE", !.fold_state = fold_state ]

(* A line that is over or to be ignored, of which a newline is the end.    *)
RestOfLine(me, piece) == IF piece = "\n" THEN Newline(me, "NEWLINE") ELSE me

KeepValue(me) ==
  CASE me.field = "CONTENT_TYPE" -> [ me EXCEPT !.format = AtomOf(me.value) ]
    [] me.field = "CONTENT_TRANSFER_ENCODING" ->
         [ me EXCEPT !.encoding = AtomOf(me.value) ]

(* White space ends the value, but not the state: what follows on the same *)
(* line is added to it.                                                    *)
GetValue(me, piece) ==
  CASE piece \in White -> RestOfLine(KeepValue(me), piece)
    [] piece = "long"  -> Junk(me)
    [] OTHER           -> [ me EXCEPT !.value = Append(@, piece) ]

SkipGetValue_unfolded(me, piece) ==
  CASE piece = "\n"        -> Newline(me, "NEWLINE")
    [] piece \in { " ", "\r" } -> me
    [] OTHER -> GetValue([ me EXCEPT !.state = "GET_VALUE", !.value = << >> ], piece)

SkipGetValue(me, piece) ==
  CASE piece = "\n"        -> Newline(me, "SKIP_GET_VALUE")
    [] piece \in { " ", "\r" } -> me
    [] OTHER -> GetValue([ me EXCEPT !.state = "GET_VALUE", !.value = << >> ], piece)

HeaderPiece(me, piece, stack, sink) ==
  CASE me.state = "NEWLINE" /\ piece \in { " ", "\r" } ->
         [ me EXCEPT !.state = me.fold_state ]
    [] me.state \in { "BEGINNING_OF_LINE", "NEWLINE" } /\
       ~ (me.state = "NEWLINE" /\ piece \in { " ", "\r" }) ->
         BeginLine(me, piece, stack, sink)
    [] me.state = "CHECK" ->
         IF piece = me.check THEN [ me EXCEPT !.state = me.if_ok ] ELSE Junk(me)
    [] me.state = "CONTENT_T" ->
         IF piece = "ype:" THEN [ me EXCEPT !.state = "CONTENT_TYPE" ]
         ELSE IF piece = "ransfer-encoding:"
         THEN [ me EXCEPT !.state = "CONTENT_TRANSFER_ENCODING" ]
         ELSE Junk(me)
    [] me.state \in { "CONTENT_TYPE", "CONTENT_TRANSFER_ENCODING" } ->
         SkipGetValue([ me EXCEPT !.field = me.state, !.state = "SKIP_GET_VALUE" ],
                      piece)
    [] me.state = "SKIP_GET_VALUE" -> SkipGetValue(me, piece)
    [] me.state = "GET_VALUE"      -> GetValue(me, piece)
    [] me.state = "JUNK_LINE"      -> RestOfLine(me, piece)
    [] me.state = "IGNORE"         -> me

(* HTMIME_put_character, as far as the header goes; beyond it, a piece is  *)
(* the target's.                                                           *)
HTMIME_put_character(me, piece, sink) ==
  IF me.net_ascii /\ piece = "\r" THEN me
  ELSE HeaderPiece(me, piece,
                   IF me.targetRep = Source \/ me.targetRep = me.format
                   THEN sink
                   ELSE HTStreamStack(Presentations, me.format, me.targetRep),
                   sink)

Transparent(me) == me.state = "TRANSPARENT"

MimeOK ==
  /\ mime.state \in MimeStates
  /\ mime.fold_state \in { "none", "NEWLINE", "SKIP_GET_VALUE" }
  /\ mime.field \in { "none", "CONTENT_TYPE", "CONTENT_TRANSFER_ENCODING" }
  /\ Transparent(mime) => mime.target # "none"

=============================================================================
