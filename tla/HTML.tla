--------------------------------- MODULE HTML ---------------------------------
(***************************************************************************)
(* HTML.c: the structured object that turns the calls of the parser into   *)
(* styled text (HText).  Styles are flattened: the text only ever has one  *)
(* current style, changed lazily, and a stack of at most MAX_NESTING       *)
(* entries remembers the style to return to.                               *)
(*                                                                         *)
(* The object is the record `me', and each routine of the code an operator *)
(* from the object before it to the object after it, so that a routine     *)
(* that calls three others reads as their composition.                     *)
(***************************************************************************)
EXTENDS HTMLDTD, SequencesExt

CONSTANTS
  MAX_NESTING,    \* entries of the style stack, the bottom one included
  ToC             \* the object was made by HTMLToC: comment_start and
                  \* comment_end are set

ASSUME HTMLAssumption == MAX_NESTING \in Nat \ {0} /\ ToC \in BOOLEAN

PreFormatted == { "LISTING", "XMP", "PLAINTEXT", "PRE" }
Bottom       == "none"            \* the tag number -1 below the first element
White        == { " ", "\n" }
NULL         == "NULL"

(* The style sheet entry each element is shown in; other elements have no  *)
(* style of their own.                                                     *)
styles ==
  [ t \in { "H1", "H2", "H3", "H4", "H5", "H6", "H7", "DL", "DLC", "MENU",
            "DIR", "ADDRESS", "BLOCKQUOTE", "PRE", "LISTING", "UL", "OL",
            "PLAINTEXT", "XMP" }
      |-> CASE t \in { "UL", "OL" }         -> "List"
            [] t \in { "PLAINTEXT", "XMP" } -> "Example"
            [] OTHER                        -> t ]
default_style == "Normal"

(***************************************************************************)
(* The text as HText keeps it: whether it exists and is still appended to, *)
(* the style text is now set in, how many anchors are open in it, whether  *)
(* what is appended is inside a C comment; and what was shown last: in     *)
(* which style, and in which one it was due.                               *)
(***************************************************************************)
NoText  == [ made |-> FALSE, ended |-> FALSE, style |-> NULL, anchors |-> 0,
             comment |-> ToC ]
Nothing == [ what |-> "nothing" ]

HTML_new(title) ==
  [ text |-> NoText, style_change |-> TRUE, new_style |-> default_style,
    in_word |-> FALSE,
    stack |-> << [ style |-> default_style, tag |-> Bottom ] >>,
    title |-> title,          \* the text of TITLE; its chunk belongs to me
    doctitle |-> NULL,        \* the title of the document's anchor
    linked |-> {},            \* names of the document's anchors with a link
    shown |-> Nothing, status |-> "alive" ]

sp(me) == me.stack[1]

(* A call into the text: without a text it is a call on a null pointer. *)
Show(me, what, text) ==
  IF ~ me.text.made THEN [ me EXCEPT !.status = "null text" ]
  ELSE [ me EXCEPT !.text = text,
                   !.shown = [ what |-> what, style |-> me.text.style,
                               due |-> me.new_style,
                               comment |-> me.text.comment ] ]

appendCharacter(me, c) == Show(me, c, me.text)
appendParagraph(me)    == Show(me, "paragraph", me.text)
comment_end(me) ==
  IF ToC THEN Show(me, "*/", [ me.text EXCEPT !.comment = FALSE ]) ELSE me
no_comment_start(me) == me    \* slip: comments are only ended
comment_start(me) ==
  IF ToC THEN Show(me, "/*", [ me.text EXCEPT !.comment = TRUE ]) ELSE me
beginAnchor(me) == Show(me, "anchor", [ me.text EXCEPT !.anchors = @ + 1 ])
endAnchor(me)   == Show(me, "anchor", [ me.text EXCEPT !.anchors = @ - 1 ])

-----------------------------------------------------------------------------
(* The text is created by the first style that is really set.  Slip: later *)
(* styles are not passed on to it.                                         *)
actually_set_style_once(me) ==
  [ me EXCEPT !.text = IF @.made THEN @
                       ELSE [ @ EXCEPT !.made = TRUE, !.style = me.new_style ],
              !.style_change = FALSE ]

actually_set_style(me) ==
  [ me EXCEPT !.text = [ @ EXCEPT !.made = TRUE, !.style = me.new_style ],
              !.in_word = IF me.text.made THEN @ ELSE FALSE,
              !.style_change = FALSE ]

UPDATE_STYLE(me) == IF me.style_change THEN actually_set_style(me) ELSE me

(* Slip: a change still pending keeps the style it was made for. *)
change_paragraph_style_pending(me, style) ==
  [ me EXCEPT !.new_style = IF me.style_change THEN @ ELSE style,
              !.style_change = @ \/ me.new_style # style, !.in_word = FALSE ]

change_paragraph_style(me, style) ==
  [ me EXCEPT !.style_change = @ \/ me.new_style # style,
              !.new_style = style, !.in_word = FALSE ]

(* White space that follows a change of style is dropped, and a newline is *)
(* a space after a word and nothing after white space.                     *)
put_free(me, c) ==
  IF me.style_change /\ c \in White THEN me
  ELSE LET m == UPDATE_STYLE(me)
       IN  IF c # "\n" THEN [ appendCharacter(m, c) EXCEPT !.in_word = TRUE ]
           ELSE IF m.in_word
                THEN [ appendCharacter(m, " ") EXCEPT !.in_word = FALSE ]
                ELSE m

HTML_put_character(me, c) ==
  CASE sp(me).tag = "COMMENT"       -> me
    [] sp(me).tag = "TITLE"         -> [ me EXCEPT !.title = "text" ]
    [] sp(me).tag \in PreFormatted  -> appendCharacter(me, c)
    [] OTHER                        -> put_free(me, c)

(* An entity is the one character the Latin-1 table has for it. *)
HTML_put_entity(me, e) == HTML_put_character(me, e)

(* The child anchor of the document that is named, or a new one, is linked *)
(* to the address given; a title goes to the destination of its link.  An  *)
(* address without a value, and the title of a destination that is not     *)
(* there, are reached through a null pointer.                              *)
start_anchor(me, attrs) ==
  LET given(a) == a \in DOMAIN attrs /\ attrs[a] # NULL
      named    == given("NAME") /\ attrs["NAME"] # ""
      linked   == \/ given("HREF") /\ attrs["HREF"] # ""
                  \/ named /\ attrs["NAME"] \in me.linked
  IN  IF \/ "HREF" \in DOMAIN attrs /\ ~ given("HREF")
         \/ given("TITLE") /\ ~ linked
      THEN [ me EXCEPT !.status = "null anchor" ]
      ELSE beginAnchor(UPDATE_STYLE(
             [ me EXCEPT !.linked = IF named /\ linked
                                    THEN @ \cup { attrs["NAME"] } ELSE @ ]))

(* Slip: an item does not set the style that is due. *)
start_item_at_once(me) ==
  [ IF sp(me).tag = "DIR" THEN appendCharacter(me, "\t")
    ELSE appendParagraph(me) EXCEPT !.in_word = FALSE ]

start_item(me) ==
  LET m == UPDATE_STYLE(me)
      i == IF sp(m).tag = "DIR" THEN appendCharacter(m, "\t")
           ELSE appendParagraph(m)
  IN  [ i EXCEPT !.in_word = FALSE ]

(* What an element does when it starts, before it is stacked. *)
started(me, t, attrs) ==
  CASE t = "A" -> start_anchor(me, attrs)
    [] t = "TITLE" -> [ me EXCEPT !.title = "" ]
    [] t = "P" -> [ appendParagraph(UPDATE_STYLE(me)) EXCEPT !.in_word = FALSE ]
    [] t = "DL" -> change_paragraph_style(me,
                     styles[IF "COMPACT" \in DOMAIN attrs THEN "DLC" ELSE "DL"])
    [] t = "DT" -> IF me.style_change THEN me
                   ELSE [ appendParagraph(me) EXCEPT !.in_word = FALSE ]
    [] t = "DD" -> [ HTML_put_character(UPDATE_STYLE(me), "\t")
                       EXCEPT !.in_word = FALSE ]
    [] t = "LI" -> start_item(me)
    [] t \in PreFormatted ->
         comment_end(UPDATE_STYLE(change_paragraph_style(me, styles[t])))
    [] t \in DOMAIN styles \ (PreFormatted \cup { "DL", "DLC" }) ->
         change_paragraph_style(me, styles[t])
    [] OTHER -> me

(* An element with content is stacked with the style it leaves the text    *)
(* in.  With the stack full the code complains and goes on.  Slips: it     *)
(* does not look for a full stack; it stacks elements without content.     *)
HTML_start_element_unbounded(me, t, attrs) ==
  LET m == started(me, t, attrs)
  IN  IF contents(t) = "SGML_EMPTY" \/ m.status # "alive" THEN m
      ELSE [ m EXCEPT !.stack = << [ style |-> m.new_style, tag |-> t ] >> \o @ ]

HTML_start_element_always(me, t, attrs) ==
  LET m == started(me, t, attrs)
  IN  IF Len(m.stack) = MAX_NESTING \/ m.status # "alive" THEN m
      ELSE [ m EXCEPT !.stack = << [ style |-> m.new_style, tag |-> t ] >> \o @ ]

HTML_start_element(me, t, attrs) ==
  LET m == started(me, t, attrs)
  IN  IF contents(t) = "SGML_EMPTY" \/ Len(m.stack) = MAX_NESTING
         \/ m.status # "alive"
      THEN m
      ELSE [ m EXCEPT !.stack = << [ style |-> m.new_style, tag |-> t ] >> \o @ ]

(* The element on top is popped, whatever it is, and the style returns to  *)
(* that of the element below.  Below the bottom entry there is no stack.   *)
(* Slip: every element ends in the same way.                               *)
HTML_end_element_default(me, t) ==
  LET m == [ me EXCEPT !.stack = Tail(@) ]
  IN  IF Len(me.stack) = 1 THEN [ me EXCEPT !.status = "stack underrun" ]
      ELSE change_paragraph_style(m, sp(m).style)

HTML_end_element(me, t) ==
  LET m == [ me EXCEPT !.stack = Tail(@) ]
  IN  IF Len(me.stack) = 1 THEN [ me EXCEPT !.status = "stack underrun" ]
      ELSE CASE t = "A" -> endAnchor(UPDATE_STYLE(m))
             [] t = "TITLE" -> [ m EXCEPT !.doctitle = m.title ]
             [] t \in PreFormatted ->
                  change_paragraph_style(comment_start(m), sp(m).style)
             [] OTHER -> change_paragraph_style(m, sp(m).style)

(* Freeing creates the text of a document that had none. *)
HTML_free(me) ==
  LET m == UPDATE_STYLE(me)
      c == IF ToC /\ sp(m).tag \notin { "COMMENT", "TITLE" }
           THEN comment_end(m) ELSE m
  IN  [ c EXCEPT !.text.ended = TRUE, !.status = "freed" ]

HTML_abort(me) == [ me EXCEPT !.status = "aborted" ]

-----------------------------------------------------------------------------
(* The routine a call of the structured stream is directed to.  `shown'    *)
(* starts afresh with each call.                                           *)
Handle(self, c) ==
  LET me == [ self EXCEPT !.shown = Nothing ]
  IN  CASE c.op = "put_character" -> HTML_put_character(me, c.c)
        [] c.op = "put_entity"    -> HTML_put_entity(me, c.entity)
        [] c.op = "start_element" -> HTML_start_element(me, c.tag, c.attrs)
        [] c.op = "end_element"   -> HTML_end_element(me, c.tag)
        [] c.op = "free"          -> HTML_free(me)
        [] c.op = "abort"         -> HTML_abort(me)
        [] c.op = "new"           -> HTML_new("")
        [] OTHER                  -> me

=============================================================================
