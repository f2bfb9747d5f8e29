------------------------------ MODULE SGMLStream ------------------------------
(***************************************************************************)
(* The parser of SGML.tla with a target that only takes note of the calls  *)
(* made on it, and the properties of the parser as a source of structured  *)
(* streams.  Two histories compare what goes into a literal element        *)
(* (LISTING, XMP, PLAINTEXT) with what comes out, because the parser reads *)
(* ahead there for the end tag and has to give back what was not it.       *)
(***************************************************************************)
EXTENDS SGML

VARIABLES
  open,     \* the elements the target has been told of and which are open
  live,     \* the target exists
  call,     \* the call the target is handling
  read,     \* history: characters of literal text read since the parser last
            \* held none of them back
  shown     \* history: characters the target has received since then

vars == << parserVars, calls, open, live, call, read, shown >>

Literal == Innermost = "SGML_LITERAL" /\ state \in { "S_text", "S_literal" }

StreamInit ==
  /\ Init /\ open = << >> /\ live = TRUE /\ call = [ op |-> "return" ]
  /\ read = << >> /\ shown = << >>

(* The target receives the next call of those the last character caused. *)
Receive ==
  /\ calls # << >>
  /\ call' = Head(calls) /\ calls' = Tail(calls)
  /\ open' = CASE call'.op = "start_element" ->
                    IF contents(call'.tag) = "SGML_EMPTY" THEN open
                    ELSE << call'.tag >> \o open
               [] call'.op = "end_element" -> Tail(open)
               [] call'.op \in { "free", "abort" } -> << >>
               [] OTHER -> open
  /\ live' = (live /\ call'.op \notin { "free", "abort" })
  /\ shown' = IF Literal /\ call'.op = "put_character"
              THEN Append(shown, call'.c) ELSE << >>
  /\ UNCHANGED << parserVars, read >>

Parse(c) ==
  /\ SGML_character(c)
  /\ call' = [ op |-> "return" ]
  /\ read' = CASE ~ Literal                   -> << >>
               [] Literal /\ state = "S_text" -> << c >>
               [] OTHER                       -> Append(read, c)
  /\ shown' = IF state = "S_text" THEN << >> ELSE shown
  /\ UNCHANGED << open, live >>

EndDocument ==
  /\ SGML_free \/ SGML_abort
  /\ call' = [ op |-> "return" ] /\ read' = << >>
  /\ UNCHANGED << open, live, shown >>

NewDocument ==
  /\ SGML_new
  /\ call' = [ op |-> "new" ] /\ live' = TRUE
  /\ UNCHANGED << open, read, shown >>

Next == Receive \/ (\E c \in Input : Parse(c)) \/ EndDocument \/ NewDocument

Spec == StreamInit /\ [][Next]_vars

-----------------------------------------------------------------------------
States == { "S_text", "S_literal", "S_tag", "S_tag_gap", "S_attr",
            "S_attr_gap", "S_equals", "S_value", "S_ero", "S_cro",
            "S_squoted", "S_dquoted", "S_end", "S_entity", "S_junk_tag",
            "none", "crashed" }

TypeOK ==
  /\ state \in States
  /\ string \in Seq(Input \cup { "other" })
  /\ element_stack \in Seq(Elements) /\ Len(element_stack) <= MaxDepth
  /\ current_tag \in Elements \cup { NULL }
  /\ current_attribute_number \in Slots \cup { INVALID }
  /\ present \in [ Slots -> BOOLEAN ]
  /\ value \in [ Slots -> Input \cup { "other", "", NULL } ]
  /\ open \in Seq(Elements)

(* The parser keeps to the protocol of structured streams: ends match the  *)
(* innermost start even when end tags are missing, crossed or invented,    *)
(* nothing starts and no entity is expanded in literal text, and nothing   *)
(* follows the end of the stream.                                          *)
Protocol == INSTANCE HTStructured
KeepsToTheProtocol == Protocol!Spec

(***************************************************************************)
(* What start_element is told of the attributes is what this tag said of   *)
(* them: no attribute and no value is left over from an earlier tag, which *)
(* used the same slots for other names and may have been cut short, and a  *)
(* value given twice is the last one.                                      *)
(***************************************************************************)
AttributesAreOfThisTag ==
  \A i \in DOMAIN calls :
    calls[i].op = "start_element" => calls[i].attrs = given

(* Between characters the target and the parser agree on what is open. *)
TargetAgreesWithStack ==
  calls = << >> /\ state # "none" => open = element_stack

(* What the parser holds back while it may be reading the end tag. *)
HeldBack == IF state = "S_literal" THEN << "<" >> \o string ELSE << >>

(* No character of literal text is lost, added or reordered: all that was  *)
(* read has been passed on or is held back as the possible end tag, in     *)
(* which case nothing has been passed on yet.                              *)
LiteralTextIsWhole ==
  Literal /\ calls = << >> => shown \o HeldBack = read

=============================================================================
