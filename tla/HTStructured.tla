----------------------------- MODULE HTStructured -----------------------------
(***************************************************************************)
(* The structured stream of SGML.h as its targets see it: which calls an   *)
(* HTStructured may receive, and in which order.  The interface promises   *)
(* the nesting of the elements, and HTML.c relies on it ("the parser       *)
(* produces good nesting").  It is the specification SGML.c implements and *)
(* the environment HTML.c runs in.                                         *)
(***************************************************************************)
EXTENDS HTMLDTD

VARIABLES
  open,     \* the elements started and not ended, innermost first
  live,     \* the stream exists: it has not been freed or aborted
  call      \* the call in progress, or Returned

structuredVars == << open, live, call >>

Returned  == [ op |-> "return" ]
Innermost == IF open = << >> THEN "SGML_MIXED" ELSE contents(open[1])

Init == open = << >> /\ live = TRUE /\ call = Returned

(* An entity is only expanded where the content type admits references. *)
PutEntity(c) ==
  /\ c.op = "put_entity" /\ live
  /\ Innermost \in { "SGML_MIXED", "SGML_RCDATA" }
  /\ UNCHANGED << open, live >>

PutCharacter(c) ==
  c.op = "put_character" /\ live /\ UNCHANGED << open, live >>

(* Nothing starts inside a literal element.  An element that has no        *)
(* content is over as soon as it has started.                              *)
StartElement(c) ==
  /\ c.op = "start_element" /\ live
  /\ Innermost # "SGML_LITERAL"
  /\ c.tag \in KnownTags /\ DOMAIN c.attrs \subseteq Attributes(c.tag)
  /\ open' = IF contents(c.tag) = "SGML_EMPTY" THEN open
             ELSE << c.tag >> \o open
  /\ UNCHANGED live

(* Only the innermost element can end. *)
EndElement(c) ==
  /\ c.op = "end_element" /\ live
  /\ open # << >> /\ c.tag = open[1]
  /\ open' = Tail(open)
  /\ UNCHANGED live

(* The stream is given up once, whatever is still open. *)
Close(c) ==
  c.op \in { "free", "abort" } /\ live /\ open' = << >> /\ live' = FALSE

New(c) == c.op = "new" /\ ~ live /\ live' = TRUE /\ UNCHANGED open

(* A call is made, or the one in progress returns. *)
Make(c) ==
  /\ \/ PutCharacter(c) \/ PutEntity(c) \/ StartElement(c) \/ EndElement(c)
     \/ Close(c) \/ New(c) \/ (c = Returned /\ UNCHANGED << open, live >>)
  /\ call' = c

Spec == Init /\ [][Make(call')]_structuredVars

=============================================================================
