------------------------------ MODULE HTMLObject ------------------------------
(***************************************************************************)
(* The HTML object of HTML.tla fed with every stream of calls that         *)
(* HTStructured.tla allows, which is what SGML.c is shown to send it.      *)
(***************************************************************************)
EXTENDS HTML

CONSTANTS
  Calls,        \* the calls the object receives
  MaxDepth      \* bound: elements with content nest no deeper than this

ASSUME DepthAssumption == MaxDepth \in Nat

VARIABLES me, open, live, call

vars == << me, open, live, call >>

Stream == INSTANCE HTStructured

Init == Stream!Init /\ me = HTML_new("")

Alive == me.status \notin { "null text", "null anchor", "stack underrun" }

Step(c) ==
  /\ Alive
  /\ Stream!Make(c) /\ Len(open') <= MaxDepth
  /\ me' = Handle(me, c)

Next == \E c \in Calls : Step(c)

Spec == Init /\ [][Next]_vars

-----------------------------------------------------------------------------
TypeOK ==
  /\ me.status \in { "alive", "freed", "aborted", "null text", "null anchor",
                     "stack underrun" }
  /\ Len(me.stack) \in 1 .. MAX_NESTING
  /\ me.text.made \in BOOLEAN /\ me.text.anchors \in Nat
  /\ me.style_change \in BOOLEAN

(* Nothing is ever appended to a text that does not exist yet, although    *)
(* the text is only created when a style is really needed: literal text,   *)
(* paragraphs and the ends of anchors do not check.                        *)
TextExistsWhenUsed == me.status # "null text"

(* The elements that set a style when they start.  The entry of the style  *)
(* sheet under DLC is a compact DL's: the element DLC itself sets none.    *)
Styled      == DOMAIN styles \ { "DLC" }
StylesOf(t) == IF t = "DL" THEN { styles["DL"], styles["DLC"] }
               ELSE { styles[t] }

(***************************************************************************)
(* HTML.c: "When we end an element, the style must be returned to that in  *)
(* effect before that element."  The style wanted is at all times the one  *)
(* of the innermost element that has one, or the default.                  *)
(***************************************************************************)
StyleIsOfInnermostElement ==
  me.status = "alive" =>
    /\ me.new_style = sp(me).style
    /\ \/ /\ me.new_style = default_style
          /\ \A i \in DOMAIN open : open[i] \notin Styled
       \/ \E i \in DOMAIN open :
            /\ open[i] \in Styled /\ me.new_style \in StylesOf(open[i])
            /\ \A j \in 1 .. i - 1 : open[j] \notin Styled

(* The end of an element never pops the bottom entry and what is beyond.   *)
(* HTML.c of the depth of its stack: "Should be checked by parser".        *)
NestingStaysInStack == me.status # "stack underrun"

(* The object's stack is the stack of open elements, so every end pops the *)
(* entry of the element that ends.  (The check "CAREFUL" that is compiled  *)
(* out: "the parser produces good nesting".)                               *)
StackMatchesElements ==
  me.status = "alive" =>
    /\ Len(me.stack) = Len(open) + 1
    /\ \A i \in DOMAIN open : me.stack[i].tag = open[i]
    /\ me.stack[Len(me.stack)].tag = Bottom

(* Free-format text is shown in the style that is due, never in the one    *)
(* left over from before a pending change.                                 *)
FreeTextInStyleDue ==
  me.shown.what # "nothing" /\ sp(me).tag \notin PreFormatted
    => me.shown.what \in { "/*", "*/" } \/ me.shown.style = me.shown.due

(* Each anchor begun in the text is ended when its element is, also when   *)
(* the end tag is missing and the parser supplies it.                      *)
AnchorsEndWithTheirElement ==
  me.status = "alive" =>
    me.text.anchors = Cardinality({ i \in DOMAIN open : open[i] = "A" })

(* Every document that is freed, the empty one included, has a text, and   *)
(* its appending is over.                                                  *)
FreedDocumentHasText ==
  me.status = "freed" => me.text.made /\ me.text.ended

(***************************************************************************)
(* HTML.c of HTMLToC: "all non-preformatted code is commented out".  What  *)
(* is shown outside every preformatted element is inside a C comment.      *)
(***************************************************************************)
PlainTextIsCommentedOut ==
  /\ ToC /\ call.op = "put_character" /\ me.shown.what # "nothing"
  /\ \A i \in DOMAIN open : open[i] \notin PreFormatted
  => me.shown.comment

=============================================================================
