--------------------------- MODULE HTMLObject_proofs ---------------------------
(***************************************************************************)
(* HTML.c for any stream of calls and any height of its style stack: what  *)
(* is written to the text, in which style, between which anchors and       *)
(* inside which comments; and, for documents nested less deeply than the   *)
(* stack is high, that the stack is the stack of open elements and the     *)
(* style the innermost one's.                                              *)
(*                                                                         *)
(* Most routines leave the stack alone.  The lemmas show of each of them   *)
(* that it Keeps the object (the same stack and status, and a text that is *)
(* missing or in another style still announced by a pending change of      *)
(* style), and what it does to the style, the anchors and the comment.     *)
(***************************************************************************)
EXTENDS HTMLObject, FiniteSetTheorems, WellFoundedInduction, TLAPS

Fields == { "text", "style_change", "new_style", "in_word", "stack", "title",
            "doctitle", "linked", "shown", "status" }
TextFields == { "made", "ended", "style", "anchors", "comment" }
StyleNames == { styles[t] : t \in DOMAIN styles } \cup { default_style }
Entries    == [ style : StyleNames, tag : Elements \cup { Bottom } ]
Statuses   == { "alive", "freed", "aborted", "null text", "null anchor",
                "stack underrun" }

IsText(t) ==
  /\ t = [ f \in TextFields |-> t[f] ]
  /\ t.made \in BOOLEAN /\ t.anchors \in Int

IsObject(m) ==
  /\ m = [ f \in Fields |-> m[f] ]
  /\ IsText(m.text) /\ m.style_change \in BOOLEAN
  /\ m.stack \in Seq(Entries) /\ m.new_style \in StyleNames
  /\ m.status \in Statuses

(* Until the text exists, and is in the style wanted, a change of style is *)
(* pending.                                                                *)
Settled(m) == ~ m.style_change => m.text.made /\ m.text.style = m.new_style

Keeps(m, n) ==
  /\ IsObject(n) /\ Settled(n)
  /\ n.stack = m.stack /\ n.status = m.status
  /\ m.text.made => n.text.made

(* Neither the style wanted, the anchors nor the comment change. *)
Spares(m, n) ==
  /\ Keeps(m, n)
  /\ n.new_style = m.new_style
  /\ n.text.anchors = m.text.anchors /\ n.text.comment = m.text.comment

(* What was shown last was shown in the style due. *)
DueShown(m) ==
  m.shown.what \in { "nothing", "/*", "*/" } \/ m.shown.style = m.shown.due

LEMMA KeepsTrans ==
  ASSUME NEW m, NEW n, NEW o, Keeps(m, n), Keeps(n, o)
  PROVE  Keeps(m, o)
BY DEF Keeps

LEMMA SparesTrans ==
  ASSUME NEW m, NEW n, NEW o, Spares(m, n), Spares(n, o)
  PROVE  Spares(m, o)
BY DEF Keeps, Spares

LEMMA ShowKeeps ==
  ASSUME NEW m, IsObject(m), Settled(m), m.text.made, NEW w,
         NEW t, IsText(t), t.made, t.style = m.text.style
  PROVE  LET n == Show(m, w, t)
         IN  /\ Keeps(m, n) /\ n.text = t /\ n.new_style = m.new_style
             /\ n.style_change = m.style_change
             /\ n.shown.comment = m.text.comment /\ n.shown.what = w
             /\ ~ m.style_change => DueShown(n)
<1> DEFINE n == Show(m, w, t)
           x == [ what |-> w, style |-> m.text.style, due |-> m.new_style,
                  comment |-> m.text.comment ]
<1>1. n = [ m EXCEPT !.text = t, !.shown = x ]
  BY DEF Show
<1>2. /\ x.style = m.text.style /\ x.due = m.new_style
      /\ x.comment = m.text.comment /\ x.what = w
  OBVIOUS
<1> HIDE DEF n, x
<1>3. /\ n.text = t /\ n.stack = m.stack /\ n.status = m.status
      /\ n.shown = x
  BY <1>1 DEF IsObject, Fields
<1>4. n.new_style = m.new_style /\ n.style_change = m.style_change
  BY <1>1 DEF IsObject, Fields
<1>5. n = [ f \in Fields |-> n[f] ]
  BY <1>1 DEF IsObject, Fields
<1>6. IsObject(n)
  BY <1>3, <1>4, <1>5 DEF IsObject
<1>7. Settled(n)
  BY <1>3, <1>4 DEF Settled
<1>8. Keeps(m, n)
  BY <1>3, <1>6, <1>7 DEF Keeps
<1>9. ~ m.style_change => DueShown(n)
  BY <1>2, <1>3 DEF Settled, DueShown
<1>10. QED
  BY <1>2, <1>3, <1>4, <1>8, <1>9 DEF n

LEMMA OtherFieldsKeep ==
  ASSUME NEW m, IsObject(m), Settled(m), NEW v,
         NEW f \in { "in_word", "title", "doctitle", "linked" }
  PROVE  LET n == [ m EXCEPT ![f] = v ]
         IN  /\ Spares(m, n) /\ n.shown = m.shown
             /\ n.style_change = m.style_change
<1> DEFINE n == [ m EXCEPT ![f] = v ]
<1>1. /\ n.shown = m.shown /\ n.style_change = m.style_change
      /\ n.text = m.text /\ n.stack = m.stack /\ n.status = m.status
      /\ n.new_style = m.new_style /\ n = [ g \in Fields |-> n[g] ]
  BY DEF IsObject, Fields
<1> HIDE DEF n
<1>2. IsObject(n) /\ Settled(n)
  BY <1>1 DEF IsObject, Settled
<1>3. QED
  BY <1>1, <1>2 DEF Spares, Keeps, n

LEMMA KeepsItself ==
  ASSUME NEW m, IsObject(m), Settled(m)
  PROVE  Spares(m, m)
BY DEF Spares, Keeps

LEMMA UpdateKeeps ==
  ASSUME NEW m, IsObject(m), Settled(m)
  PROVE  LET u == UPDATE_STYLE(m)
         IN  /\ Spares(m, u) /\ IsObject(u) /\ Settled(u)
             /\ u.text.made /\ ~ u.style_change /\ u.shown = m.shown
<1> DEFINE u == UPDATE_STYLE(m)
           t == [ m.text EXCEPT !.made = TRUE, !.style = m.new_style ]
<1>1. CASE ~ m.style_change
  BY <1>1, KeepsItself DEF UPDATE_STYLE, Settled
<1>2. CASE m.style_change
  <2>1. u = [ m EXCEPT !.text = t,
                       !.in_word = IF m.text.made THEN @ ELSE FALSE,
                       !.style_change = FALSE ]
    BY <1>2 DEF UPDATE_STYLE, actually_set_style
  <2>2. /\ IsText(t) /\ t.made /\ t.style = m.new_style
        /\ t.anchors = m.text.anchors /\ t.comment = m.text.comment
    BY DEF IsObject, IsText, TextFields
  <2> HIDE DEF u, t
  <2>3. /\ u.text = t /\ u.shown = m.shown /\ u.style_change = FALSE
        /\ u.stack = m.stack /\ u.status = m.status
        /\ u.new_style = m.new_style /\ u = [ g \in Fields |-> u[g] ]
    BY <2>1 DEF IsObject, Fields
  <2>4. IsObject(u) /\ Settled(u)
    BY <2>2, <2>3 DEF IsObject, Settled
  <2>5. QED
    BY <2>2, <2>3, <2>4 DEF Spares, Keeps, u
<1>3. QED
  BY <1>1, <1>2 DEF IsObject

LEMMA ChangeKeeps ==
  ASSUME NEW m, IsObject(m), Settled(m), NEW st \in StyleNames
  PROVE  LET n == change_paragraph_style(m, st)
         IN  /\ Keeps(m, n) /\ n.text = m.text /\ n.shown = m.shown
             /\ n.new_style = st
<1> DEFINE n == change_paragraph_style(m, st)
           b == m.style_change \/ m.new_style # st
<1>1. n = [ m EXCEPT !.style_change = b, !.new_style = st, !.in_word = FALSE ]
  BY DEF change_paragraph_style, IsObject, Fields
<1>2. b \in BOOLEAN /\ (~ b => ~ m.style_change /\ m.new_style = st)
  BY DEF IsObject
<1> HIDE DEF n, b
<1>3. /\ n.text = m.text /\ n.shown = m.shown /\ n.style_change = b
      /\ n.stack = m.stack /\ n.status = m.status
      /\ n.new_style = st /\ n = [ g \in Fields |-> n[g] ]
  BY <1>1 DEF IsObject, Fields
<1>4. IsObject(n) /\ Settled(n)
  BY <1>2, <1>3 DEF IsObject, Settled
<1>5. QED
  BY <1>3, <1>4 DEF Keeps, n

(* What is written into a text that exists. *)
Written(m, n) ==
  /\ Spares(m, n) /\ n.text.made /\ n.style_change = m.style_change
  /\ n.shown.comment = m.text.comment
  /\ ~ m.style_change => DueShown(n)

LEMMA AppendKeeps ==
  ASSUME NEW m, IsObject(m), Settled(m), m.text.made
  PROVE  Written(m, appendParagraph(m)) /\ \A c : Written(m, appendCharacter(m, c))
<1>1. \A w : Written(m, Show(m, w, m.text))
  BY ShowKeeps DEF Written, Spares, IsObject
<1>2. QED
  BY <1>1 DEF appendCharacter, appendParagraph

(* Anchors and comments. *)
LEMMA CommentKeeps ==
  ASSUME NEW m, IsObject(m), Settled(m), m.text.made
  PROVE  /\ \A n \in { comment_start(m), comment_end(m) } :
              /\ Keeps(m, n) /\ n.text.made /\ n.new_style = m.new_style
              /\ n.text.anchors = m.text.anchors
              /\ DueShown(m) => DueShown(n)
         /\ ToC => comment_start(m).text.comment
<1> DEFINE s == [ m.text EXCEPT !.comment = TRUE ]
           e == [ m.text EXCEPT !.comment = FALSE ]
<1>1. \A t \in { s, e } :
        /\ IsText(t) /\ t.made /\ t.style = m.text.style
        /\ t.anchors = m.text.anchors
  BY DEF IsObject, IsText, TextFields
<1>2. s.comment
  BY DEF IsObject, IsText, TextFields
<1>3. comment_start(m) = IF ToC THEN Show(m, "/*", s) ELSE m
  BY DEF comment_start
<1>4. comment_end(m) = IF ToC THEN Show(m, "*/", e) ELSE m
  BY DEF comment_end
<1> HIDE DEF s, e
<1>5. ASSUME NEW t \in { s, e }, NEW w \in { "/*", "*/" }
      PROVE  /\ Keeps(m, Show(m, w, t)) /\ Show(m, w, t).text = t
             /\ Show(m, w, t).new_style = m.new_style /\ DueShown(Show(m, w, t))
  <2>1. /\ Keeps(m, Show(m, w, t)) /\ Show(m, w, t).text = t
        /\ Show(m, w, t).new_style = m.new_style /\ Show(m, w, t).shown.what = w
    BY <1>1, <1>5, ShowKeeps
  <2>2. QED
    BY <2>1 DEF DueShown
<1>6. Keeps(m, m)
  BY KeepsItself DEF Spares
<1>7. CASE ToC
  BY <1>1, <1>2, <1>3, <1>4, <1>5, <1>7
<1>8. CASE ~ ToC
  BY <1>3, <1>4, <1>6, <1>8
<1>9. QED
  BY <1>7, <1>8

LEMMA AnchorKeeps ==
  ASSUME NEW m, IsObject(m), Settled(m), m.text.made, ~ m.style_change
  PROVE  /\ \A n \in { beginAnchor(m), endAnchor(m) } :
              /\ Keeps(m, n) /\ n.text.made /\ n.new_style = m.new_style
              /\ n.text.comment = m.text.comment /\ DueShown(n)
         /\ beginAnchor(m).text.anchors = m.text.anchors + 1
         /\ endAnchor(m).text.anchors = m.text.anchors - 1
<1> DEFINE b == [ m.text EXCEPT !.anchors = @ + 1 ]
           e == [ m.text EXCEPT !.anchors = @ - 1 ]
<1>1. ASSUME NEW k \in Int, NEW t, t = [ m.text EXCEPT !.anchors = k ]
      PROVE  /\ IsText(t) /\ t.made /\ t.style = m.text.style
             /\ t.comment = m.text.comment /\ t.anchors = k
  BY <1>1 DEF IsObject, IsText, TextFields
<1>2. /\ m.text.anchors + 1 \in Int /\ m.text.anchors - 1 \in Int
      /\ b = [ m.text EXCEPT !.anchors = m.text.anchors + 1 ]
      /\ e = [ m.text EXCEPT !.anchors = m.text.anchors - 1 ]
  BY DEF IsObject, IsText, TextFields
<1>3. beginAnchor(m) = Show(m, "anchor", b) /\ endAnchor(m) = Show(m, "anchor", e)
  BY DEF beginAnchor, endAnchor
<1> HIDE DEF b, e
<1>4. /\ b.anchors = m.text.anchors + 1 /\ e.anchors = m.text.anchors - 1
      /\ \A t \in { b, e } :
           /\ IsText(t) /\ t.made /\ t.style = m.text.style
           /\ t.comment = m.text.comment
  BY <1>1, <1>2
<1>5. ASSUME NEW t \in { b, e }
      PROVE  LET n == Show(m, "anchor", t)
             IN  /\ Keeps(m, n) /\ n.text = t /\ n.new_style = m.new_style
                 /\ DueShown(n)
  BY <1>4, <1>5, ShowKeeps
<1>6. /\ \A n \in { Show(m, "anchor", b), Show(m, "anchor", e) } :
           /\ Keeps(m, n) /\ n.text.made /\ n.new_style = m.new_style
           /\ n.text.comment = m.text.comment /\ DueShown(n)
      /\ Show(m, "anchor", b).text = b /\ Show(m, "anchor", e).text = e
  BY <1>4, <1>5
<1>7. QED
  BY <1>4, <1>3, <1>6

LEMMA InWordSpares ==
  ASSUME NEW m, NEW n, Spares(m, n), NEW b
  PROVE  LET o == [ n EXCEPT !.in_word = b ]
         IN  /\ Spares(m, o) /\ o.shown = n.shown
             /\ DueShown(n) => DueShown(o)
<1>1. IsObject(n) /\ Settled(n)
  BY DEF Spares, Keeps
<1>2. LET o == [ n EXCEPT !["in_word"] = b ]
      IN  Spares(n, o) /\ o.shown = n.shown
  BY <1>1, OtherFieldsKeep
<1>3. QED
  BY <1>2, SparesTrans DEF DueShown

(* What is shown is in the style due and in the comment of the text. *)
Proper(m, n) ==
  /\ Spares(m, n)
  /\ \/ n.shown = m.shown
     \/ DueShown(n) /\ n.shown.comment = m.text.comment

LEMMA WrittenInWord ==
  ASSUME NEW m, NEW n, Written(m, n), ~ m.style_change, NEW b
  PROVE  Proper(m, n) /\ Proper(m, [ n EXCEPT !.in_word = b ])
BY InWordSpares DEF Proper, Written

LEMMA ProperAfter ==
  ASSUME NEW m, NEW u, Spares(m, u), u.shown = m.shown, NEW n, Proper(u, n)
  PROVE  Proper(m, n)
BY SparesTrans DEF Proper, Spares

LEMMA PutFreeKeeps ==
  ASSUME NEW m, IsObject(m), Settled(m), NEW c
  PROVE  Proper(m, put_free(m, c))
<1> DEFINE u == UPDATE_STYLE(m)
<1>1. /\ Spares(m, u) /\ IsObject(u) /\ Settled(u) /\ u.text.made
      /\ ~ u.style_change /\ u.shown = m.shown
  BY UpdateKeeps
<1>2. put_free(m, c) \in { m, u, [ appendCharacter(u, c) EXCEPT !.in_word = TRUE ],
                           [ appendCharacter(u, " ") EXCEPT !.in_word = FALSE ] }
  BY DEF put_free
<1> HIDE DEF u
<1>3. \A d, b : Proper(u, [ appendCharacter(u, d) EXCEPT !.in_word = b ])
  BY <1>1, AppendKeeps, WrittenInWord
<1>4. \A d, b : Proper(m, [ appendCharacter(u, d) EXCEPT !.in_word = b ])
  BY <1>1, <1>3, ProperAfter
<1>5. Proper(m, m) /\ Proper(m, u)
  BY <1>1, KeepsItself DEF Proper
<1> DEFINE n == put_free(m, c)
<1>6. n \in { m, u } \/ \E d, b : n = [ appendCharacter(u, d) EXCEPT !.in_word = b ]
  BY <1>2
<1> HIDE DEF n
<1>7. Proper(m, n)
  BY <1>4, <1>5, <1>6
<1>8. QED
  BY <1>7 DEF n

(* With a preformatted element on the stack the text exists. *)
PreTextMade(m) ==
  \A i \in DOMAIN m.stack : m.stack[i].tag \in PreFormatted => m.text.made

(* Literal text is shown in whatever style the text is in. *)
LEMMA PutCharacterKeeps ==
  ASSUME NEW m, IsObject(m), Settled(m), PreTextMade(m), Len(m.stack) > 0,
         NEW c
  PROVE  LET n == HTML_put_character(m, c)
         IN  /\ Spares(m, n)
             /\ n.shown = m.shown \/ n.shown.comment = m.text.comment
             /\ sp(m).tag \notin PreFormatted \/ ~ m.style_change => Proper(m, n)
<1> DEFINE n == HTML_put_character(m, c)
<1>1. 1 \in DOMAIN m.stack
  BY DEF IsObject
<1>2. CASE sp(m).tag \in PreFormatted
  <2>1. n = appendCharacter(m, c)
    BY <1>2 DEF HTML_put_character, PreFormatted
  <2>2. m.text.made
    BY <1>1, <1>2 DEF PreTextMade, sp
  <2>3. Written(m, n)
    BY <2>1, <2>2, AppendKeeps
  <2> HIDE DEF n
  <2>4. QED
    BY <1>2, <2>3 DEF Written, Proper, n
<1>3. CASE sp(m).tag \notin PreFormatted
  <2>1. Spares(m, m) /\ Proper(m, m)
    BY KeepsItself DEF Proper
  <2>2. LET o == [ m EXCEPT !["title"] = "text" ]
        IN  Spares(m, o) /\ o.shown = m.shown
    BY OtherFieldsKeep
  <2>3. n \in { m, [ m EXCEPT !.title = "text" ], put_free(m, c) }
    BY <1>3 DEF HTML_put_character
  <2>4. Proper(m, n)
    BY <2>1, <2>2, <2>3, PutFreeKeeps DEF Proper
  <2> HIDE DEF n
  <2>5. QED
    BY <1>3, <2>4 DEF Proper, n
<1>4. QED
  BY <1>2, <1>3

-----------------------------------------------------------------------------
(* The object in the middle of a document. *)
Works(m) ==
  /\ IsObject(m) /\ Settled(m) /\ PreTextMade(m)
  /\ Len(m.stack) > 0 /\ m.status = "alive"

LEMMA KeepsWorks ==
  ASSUME NEW m, NEW n, Works(m), Keeps(m, n)
  PROVE  Works(n)
BY DEF Works, Keeps, PreTextMade

LEMMA Updated ==
  ASSUME NEW m, Works(m)
  PROVE  LET u == UPDATE_STYLE(m)
         IN  /\ Spares(m, u) /\ Works(u) /\ u.text.made
             /\ ~ u.style_change /\ u.shown = m.shown
BY UpdateKeeps, KeepsWorks DEF Works, Spares

LEMMA StyledElements ==
  /\ PreFormatted \subseteq Styled
  /\ \A t \in Styled : StylesOf(t) \subseteq StyleNames /\ styles[t] \in StylesOf(t)
  /\ Styled \cap { "A", "TITLE", "P", "DT", "DD", "LI" } = {}
  /\ { "DL", "DLC" } \cap PreFormatted = {}
<1>1. /\ PreFormatted \subseteq Styled
      /\ { "DL", "DLC" } \subseteq DOMAIN styles
      /\ Styled \cap { "A", "TITLE", "P", "DT", "DD", "LI" } = {}
      /\ { "DL", "DLC" } \cap PreFormatted = {}
  BY DEF Styled, styles, PreFormatted
<1>2. ASSUME NEW t \in Styled
      PROVE  StylesOf(t) \subseteq StyleNames /\ styles[t] \in StylesOf(t)
  BY <1>1 DEF StylesOf, StyleNames, Styled
<1>3. QED
  BY <1>1, <1>2

(* What the start of an element does, before it is stacked. *)
Begun(m, n, t) ==
  /\ n.text.anchors = m.text.anchors + (IF t = "A" THEN 1 ELSE 0)
  /\ IF t \in Styled THEN n.new_style \in StylesOf(t)
                     ELSE n.new_style = m.new_style
  /\ IF t \in PreFormatted THEN n.text.made
                           ELSE n.text.comment = m.text.comment
  /\ m.text.made => n.text.made
  /\ DueShown(m) => DueShown(n)

Starts(m, n, t) == Keeps(m, n) /\ Begun(m, n, t)

LEMMA ProperStarts ==
  ASSUME NEW m, Works(m), NEW n, Proper(m, n), NEW t, t \notin Styled, t # "A"
  PROVE  Starts(m, n, t)
<1>1. m.text.anchors \in Int
  BY DEF Works, IsObject, IsText
<1>2. t \notin PreFormatted
  BY StyledElements
<1>3. DueShown(m) => DueShown(n)
  BY DEF Proper, DueShown
<1>4. QED
  BY <1>1, <1>2, <1>3 DEF Starts, Begun, Proper, Spares, Keeps

LEMMA StartAnchor ==
  ASSUME NEW m, Works(m), NEW attrs
  PROVE  LET n == start_anchor(m, attrs)
         IN  n = [ m EXCEPT !.status = "null anchor" ] \/ Starts(m, n, "A")
<1>1. ASSUME NEW v
      PROVE  Starts(m, beginAnchor(UPDATE_STYLE([ m EXCEPT !.linked = v ])), "A")
  <2> DEFINE l == [ m EXCEPT !.linked = v ]
             u == UPDATE_STYLE(l)
  <2>1. Spares(m, l)
    <3>1. Spares(m, [ m EXCEPT !["linked"] = v ])
      BY OtherFieldsKeep DEF Works
    <3>2. QED
      BY <3>1
  <2>2. IsObject(l) /\ Settled(l)
    BY <2>1 DEF Spares, Keeps
  <2> HIDE DEF l
  <2>3. /\ Spares(l, u) /\ IsObject(u) /\ Settled(u) /\ u.text.made
        /\ ~ u.style_change
    BY <2>2, UpdateKeeps
  <2> HIDE DEF u
  <2> DEFINE n == beginAnchor(u)
  <2>4. /\ Keeps(u, n) /\ n.new_style = u.new_style
        /\ n.text.comment = u.text.comment /\ DueShown(n)
        /\ n.text.anchors = u.text.anchors + 1
    BY <2>3, AnchorKeeps
  <2> HIDE DEF n
  <2>5. Spares(m, u)
    BY <2>1, <2>3, SparesTrans
  <2>6. Keeps(m, n)
    BY <2>4, <2>5, KeepsTrans DEF Spares
  <2>7. "A" \notin Styled /\ "A" \notin PreFormatted
    BY StyledElements
  <2>8. Starts(m, n, "A")
    BY <2>4, <2>5, <2>6, <2>7 DEF Starts, Begun, Spares, Keeps
  <2>9. QED
    BY <2>8 DEF n, u, l
<1>2. QED
  BY <1>1, Zenon DEF start_anchor

LEMMA StartItem ==
  ASSUME NEW m, Works(m)
  PROVE  Proper(m, start_item(m))
<1> DEFINE u == UPDATE_STYLE(m)
<1>1. /\ Spares(m, u) /\ Works(u) /\ u.text.made /\ ~ u.style_change
      /\ u.shown = m.shown
  BY Updated
<1>2. start_item(m) =
        [ IF sp(u).tag = "DIR" THEN appendCharacter(u, "\t")
          ELSE appendParagraph(u) EXCEPT !.in_word = FALSE ]
  BY DEF start_item
<1> HIDE DEF u
<1>3. /\ Written(u, appendParagraph(u))
      /\ Written(u, appendCharacter(u, "\t"))
  BY <1>1, AppendKeeps DEF Works
<1>4. /\ Proper(u, [ appendParagraph(u) EXCEPT !.in_word = FALSE ])
      /\ Proper(u, [ appendCharacter(u, "\t") EXCEPT !.in_word = FALSE ])
  BY <1>1, <1>3, WrittenInWord
<1>5. Proper(u, start_item(m))
  BY <1>2, <1>4
<1>6. QED
  BY <1>1, <1>5, ProperAfter

(* A preformatted element makes the text. *)
LEMMA StartText ==
  ASSUME NEW m, Works(m), NEW t \in PreFormatted
  PROVE  Starts(m, comment_end(UPDATE_STYLE(change_paragraph_style(m, styles[t]))), t)
<1> DEFINE p == change_paragraph_style(m, styles[t])
           u == UPDATE_STYLE(p)
           n == comment_end(u)
<1>1. /\ styles[t] \in StyleNames /\ t \in Styled /\ t # "A"
      /\ styles[t] \in StylesOf(t)
  BY StyledElements
<1>2. /\ Keeps(m, p) /\ p.text = m.text /\ p.shown = m.shown
      /\ p.new_style = styles[t]
  BY <1>1, ChangeKeeps DEF Works
<1> HIDE DEF p
<1>3. IsObject(p) /\ Settled(p)
  BY <1>2 DEF Keeps
<1>4. /\ Spares(p, u) /\ u.text.made /\ IsObject(u) /\ Settled(u)
      /\ u.shown = p.shown
  BY <1>3, UpdateKeeps
<1> HIDE DEF u
<1>5. /\ Keeps(u, n) /\ n.text.made /\ n.new_style = u.new_style
      /\ n.text.anchors = u.text.anchors
  BY <1>4, CommentKeeps
<1>6. DueShown(u) => DueShown(n)
  BY <1>4, CommentKeeps
<1> HIDE DEF n
<1>7. Keeps(m, n)
  BY <1>2, <1>4, <1>5, KeepsTrans DEF Spares
<1>8. n.text.anchors = m.text.anchors + 0
  <2>1. n.text.anchors = m.text.anchors
    BY <1>2, <1>4, <1>5 DEF Spares
  <2>2. m.text.anchors \in Int
    BY DEF Works, IsObject, IsText
  <2>3. QED
    BY <2>1, <2>2
<1>9. DueShown(m) => DueShown(n)
  BY <1>2, <1>4, <1>6 DEF DueShown
<1>10. n.new_style = styles[t] /\ n.text.made
  BY <1>2, <1>4, <1>5 DEF Spares
<1>11. Starts(m, n, t)
  BY <1>1, <1>7, <1>8, <1>9, <1>10 DEF Starts, Begun, Keeps
<1>12. QED
  BY <1>11 DEF n, u, p

(* DT and P append a paragraph without or after a change of style. *)
LEMMA StartParagraph ==
  ASSUME NEW m, Works(m)
  PROVE  /\ Proper(m, [ appendParagraph(UPDATE_STYLE(m)) EXCEPT !.in_word = FALSE ])
         /\ ~ m.style_change =>
              Proper(m, [ appendParagraph(m) EXCEPT !.in_word = FALSE ])
         /\ Proper(m, [ HTML_put_character(UPDATE_STYLE(m), "\t")
                          EXCEPT !.in_word = FALSE ])
<1> DEFINE u == UPDATE_STYLE(m)
           p == HTML_put_character(u, "\t")
<1>1. /\ Spares(m, u) /\ Works(u) /\ u.text.made /\ ~ u.style_change
      /\ u.shown = m.shown
  BY Updated
<1> HIDE DEF u
<1>2. Proper(u, [ appendParagraph(u) EXCEPT !.in_word = FALSE ])
  BY <1>1, AppendKeeps, WrittenInWord DEF Works
<1>3. Proper(m, [ appendParagraph(u) EXCEPT !.in_word = FALSE ])
  BY <1>1, <1>2, ProperAfter
<1>4. ~ m.style_change =>
        Proper(m, [ appendParagraph(m) EXCEPT !.in_word = FALSE ])
  BY AppendKeeps, WrittenInWord DEF Works, Settled
<1>5. Proper(u, p)
  BY <1>1, PutCharacterKeeps DEF Works
<1> HIDE DEF p
<1>6. Spares(u, p)
  BY <1>5 DEF Proper
<1>7. LET o == [ p EXCEPT !.in_word = FALSE ]
      IN  Spares(u, o) /\ o.shown = p.shown
  BY <1>6, InWordSpares
<1>8. Proper(u, [ p EXCEPT !.in_word = FALSE ])
  BY <1>5, <1>7 DEF Proper, DueShown
<1>9. Proper(m, [ p EXCEPT !.in_word = FALSE ])
  BY <1>1, <1>8, ProperAfter
<1>10. QED
  BY <1>3, <1>4, <1>9 DEF u, p

LEMMA Started ==
  ASSUME NEW m, Works(m), NEW t, NEW attrs
  PROVE  LET n == started(m, t, attrs)
         IN  n = [ m EXCEPT !.status = "null anchor" ] \/ Starts(m, n, t)
<1> DEFINE n == started(m, t, attrs)
           u == UPDATE_STYLE(m)
<1> SUFFICES n = [ m EXCEPT !.status = "null anchor" ] \/ Starts(m, n, t)
  OBVIOUS
<1>1. Proper(m, m)
  BY KeepsItself DEF Works, Proper
<1>2. CASE t = "A"
  <2>1. n = start_anchor(m, attrs)
    BY <1>2 DEF started, PreFormatted, styles
  <2>2. QED
    BY <1>2, <2>1, StartAnchor
<1>3. CASE t = "TITLE"
  <2>1. n = [ m EXCEPT !["title"] = "" ]
    BY <1>3 DEF started, PreFormatted, styles
  <2>2. Proper(m, [ m EXCEPT !["title"] = "" ])
    BY OtherFieldsKeep DEF Works, Proper
  <2>3. QED
    BY <1>3, <2>1, <2>2, ProperStarts, StyledElements
<1>4. CASE t = "P"
  <2>1. n = [ appendParagraph(u) EXCEPT !.in_word = FALSE ]
    BY <1>4 DEF started, PreFormatted, styles
  <2>2. QED
    BY <1>4, <2>1, StartParagraph, ProperStarts, StyledElements
<1>5. CASE t = "DT"
  <2>1. n = IF m.style_change THEN m
            ELSE [ appendParagraph(m) EXCEPT !.in_word = FALSE ]
    BY <1>5 DEF started, PreFormatted, styles
  <2>2. QED
    BY <1>1, <1>5, <2>1, StartParagraph, ProperStarts, StyledElements
<1>6. CASE t = "DD"
  <2>1. n = [ HTML_put_character(u, "\t") EXCEPT !.in_word = FALSE ]
    BY <1>6 DEF started, PreFormatted, styles
  <2>2. QED
    BY <1>6, <2>1, StartParagraph, ProperStarts, StyledElements
<1>7. CASE t = "LI"
  <2>1. n = start_item(m)
    BY <1>7 DEF started, PreFormatted, styles
  <2>2. QED
    BY <1>7, <2>1, StartItem, ProperStarts, StyledElements
<1>8. CASE t \in PreFormatted
  <2>1. n = comment_end(UPDATE_STYLE(change_paragraph_style(m, styles[t])))
    BY <1>8 DEF started, PreFormatted, styles
  <2>2. QED
    BY <1>8, <2>1, StartText
<1>9. CASE t \in Styled \ PreFormatted
  <2>1. \E st \in StylesOf(t) : n = change_paragraph_style(m, st)
    <3>1. CASE t = "DL"
      <4>1. n = change_paragraph_style(m,
                  styles[IF "COMPACT" \in DOMAIN attrs THEN "DLC" ELSE "DL"])
        BY <3>1 DEF started, PreFormatted, styles
      <4>2. QED
        BY <3>1, <4>1 DEF StylesOf
    <3>2. CASE t # "DL"
      <4>1. n = change_paragraph_style(m, styles[t])
        BY <1>9, <3>2, StyledElements DEF started, PreFormatted, Styled
      <4>2. QED
        BY <1>9, <4>1, StyledElements
    <3>3. QED
      BY <3>1, <3>2
  <2>2. PICK st \in StylesOf(t) : n = change_paragraph_style(m, st)
    BY <2>1
  <2>3. st \in StyleNames
    BY <1>9, StyledElements
  <2>4. /\ Keeps(m, n) /\ n.text = m.text /\ n.shown = m.shown
        /\ n.new_style = st
    BY <2>2, <2>3, ChangeKeeps DEF Works
  <2>5. m.text.anchors = m.text.anchors + 0 /\ t # "A"
    BY <1>9, StyledElements DEF Works, IsObject, IsText
  <2> HIDE DEF n
  <2>6. Starts(m, n, t)
    BY <1>9, <2>4, <2>5 DEF Starts, Begun, Keeps, DueShown
  <2>7. QED
    BY <2>6
<1>10. CASE t \notin Styled \cup { "A", "TITLE", "P", "DT", "DD", "LI" }
  <2>1. n = m
    BY <1>10, StyledElements DEF started, PreFormatted, styles, Styled
  <2>2. QED
    BY <1>1, <1>10, <2>1, ProperStarts
<1>11. QED
  BY <1>2, <1>3, <1>4, <1>5, <1>6, <1>7, <1>8, <1>9, <1>10

LEMMA PushOne ==
  ASSUME NEW S, NEW a \in S, NEW q \in Seq(S)
  PROVE  LET r == << a >> \o q
         IN  /\ r \in Seq(S) /\ Len(r) = Len(q) + 1 /\ Len(r) > 0
             /\ r[1] = a
             /\ \A i \in DOMAIN r :
                  i # 1 => i - 1 \in DOMAIN q /\ r[i] = q[i - 1]
             /\ \A i \in DOMAIN q : i + 1 \in DOMAIN r /\ r[i + 1] = q[i]
OBVIOUS

LEMMA PopOne ==
  ASSUME NEW S, NEW q \in Seq(S), Len(q) > 0
  PROVE  /\ Tail(q) \in Seq(S) /\ Len(Tail(q)) = Len(q) - 1
         /\ \A i \in DOMAIN Tail(q) :
              i + 1 \in DOMAIN q /\ Tail(q)[i] = q[i + 1]
OBVIOUS

LEMMA StartElementWorks ==
  ASSUME NEW m, Works(m), Len(m.stack) <= MAX_NESTING, NEW t \in Elements,
         NEW attrs
  PROVE  LET n == HTML_start_element(m, t, attrs)
         IN  \/ n = [ m EXCEPT !.status = "null anchor" ]
             \/ /\ Works(n) /\ Begun(m, n, t) /\ Len(n.stack) <= MAX_NESTING
                /\ IF contents(t) = "SGML_EMPTY" \/ Len(m.stack) = MAX_NESTING
                   THEN n.stack = m.stack
                   ELSE n.stack =
                          << [ style |-> n.new_style, tag |-> t ] >> \o m.stack
<1> DEFINE s == started(m, t, attrs)
           n == HTML_start_element(m, t, attrs)
<1>1. CASE s = [ m EXCEPT !.status = "null anchor" ]
  <2>1. s.status # "alive"
    BY <1>1 DEF Works, IsObject, Fields
  <2>2. n = s
    BY <2>1 DEF HTML_start_element
  <2>3. QED
    BY <1>1, <2>2
<1>2. CASE Starts(m, s, t)
  <2>1. Works(s) /\ Begun(m, s, t) /\ s.stack = m.stack /\ s.status = "alive"
    BY <1>2, KeepsWorks DEF Starts, Keeps, Works
  <2>2. n = IF contents(t) = "SGML_EMPTY" \/ Len(m.stack) = MAX_NESTING THEN s
            ELSE [ s EXCEPT !.stack =
                      << [ style |-> s.new_style, tag |-> t ] >> \o s.stack ]
    BY <2>1 DEF HTML_start_element, Works, IsObject
  <2> HIDE DEF s, n
  <2>3. CASE contents(t) = "SGML_EMPTY" \/ Len(m.stack) = MAX_NESTING
    <3>1. n = s
      BY <2>2, <2>3
    <3>2. QED
      BY <2>1, <2>3, <3>1 DEF n
  <2>4. CASE ~ (contents(t) = "SGML_EMPTY" \/ Len(m.stack) = MAX_NESTING)
    <3> DEFINE a == [ style |-> s.new_style, tag |-> t ]
               r == << a >> \o m.stack
    <3>1. s.new_style \in StyleNames /\ m.stack \in Seq(Entries)
      BY <2>1 DEF Works, IsObject
    <3>2. a \in Entries /\ a.tag = t
      BY <3>1 DEF Entries
    <3>3. n = [ s EXCEPT !.stack = r ]
      BY <2>1, <2>2, <2>4
    <3> HIDE DEF a
    <3>4. /\ r \in Seq(Entries) /\ Len(r) > 0 /\ r[1] = a
          /\ Len(r) = Len(m.stack) + 1
          /\ \A i \in DOMAIN r :
               i # 1 => i - 1 \in DOMAIN m.stack /\ r[i] = m.stack[i - 1]
      BY <3>1, <3>2, PushOne
    <3>5. Len(r) <= MAX_NESTING
      <4>1. Len(m.stack) \in Nat /\ Len(m.stack) # MAX_NESTING
        BY <2>4, <3>1
      <4>2. QED
        BY <3>4, <4>1, HTMLAssumption
    <3> HIDE DEF r
    <3>6. /\ n.stack = r /\ n.status = "alive" /\ n.text = s.text
          /\ n.style_change = s.style_change /\ n.new_style = s.new_style
          /\ n.shown = s.shown /\ n = [ f \in Fields |-> n[f] ]
      BY <2>1, <3>3 DEF Works, IsObject, Fields
    <3>7. IsObject(n) /\ Settled(n)
      BY <2>1, <3>4, <3>6 DEF Works, IsObject, Settled
    <3>8. ASSUME NEW i \in DOMAIN r, r[i].tag \in PreFormatted
          PROVE  n.text.made
      <4>1. CASE i = 1
        BY <2>1, <3>2, <3>4, <3>6, <3>8, <4>1 DEF Begun
      <4>2. CASE i # 1
        BY <2>1, <3>4, <3>6, <3>8, <4>2 DEF Works, PreTextMade
      <4>3. QED
        BY <4>1, <4>2
    <3>9. Works(n)
      BY <3>4, <3>6, <3>7, <3>8 DEF Works, PreTextMade
    <3>10. Begun(m, n, t)
      BY <2>1, <3>6 DEF Begun, DueShown
    <3>11. n.stack = << [ style |-> n.new_style, tag |-> t ] >> \o m.stack
      BY <3>6 DEF r, a
    <3>12. Len(n.stack) <= MAX_NESTING
      BY <3>5, <3>6
    <3>13. QED
      BY <2>4, <3>9, <3>10, <3>11, <3>12 DEF n
  <2>5. QED
    BY <2>3, <2>4
<1>3. QED
  BY <1>1, <1>2, Started

(* What the end of an element does. *)
Ended(m, n, t) ==
  /\ n.text.anchors = m.text.anchors - (IF t = "A" THEN 1 ELSE 0)
  /\ n.new_style = IF t \in { "A", "TITLE" } THEN m.new_style
                   ELSE m.stack[2].style
  /\ m.text.made => n.text.made
  /\ IF t \in PreFormatted THEN ToC => n.text.comment
                           ELSE n.text.comment = m.text.comment
  /\ DueShown(m) => DueShown(n)

LEMMA EndElementWorks ==
  ASSUME NEW m, Works(m), Len(m.stack) > 1, NEW t,
         t \in PreFormatted => m.text.made
  PROVE  LET n == HTML_end_element(m, t)
         IN  Works(n) /\ n.stack = Tail(m.stack) /\ Ended(m, n, t)
<1> DEFINE p == [ m EXCEPT !.stack = Tail(m.stack) ]
           n == HTML_end_element(m, t)
<1> SUFFICES Works(n) /\ n.stack = Tail(m.stack) /\ Ended(m, n, t)
  OBVIOUS
<1> HIDE DEF n
<1>1. m.stack \in Seq(Entries) /\ Len(m.stack) > 0 /\ 1 \in DOMAIN m.stack
  BY DEF Works, IsObject
<1>2. /\ Tail(m.stack) \in Seq(Entries) /\ Len(Tail(m.stack)) > 0
      /\ 1 \in DOMAIN Tail(m.stack) /\ 2 \in DOMAIN m.stack
      /\ Tail(m.stack)[1] = m.stack[2]
      /\ \A i \in DOMAIN Tail(m.stack) :
           i + 1 \in DOMAIN m.stack /\ Tail(m.stack)[i] = m.stack[i + 1]
  BY <1>1, PopOne
<1>3. /\ p.stack = Tail(m.stack) /\ p.status = "alive" /\ p.text = m.text
      /\ p.style_change = m.style_change /\ p.new_style = m.new_style
      /\ p.shown = m.shown /\ p = [ f \in Fields |-> p[f] ]
  BY DEF Works, IsObject, Fields
<1> HIDE DEF p
<1>4. IsObject(p) /\ Settled(p)
  BY <1>2, <1>3 DEF Works, IsObject, Settled
<1>5. Works(p)
  BY <1>2, <1>3, <1>4 DEF Works, PreTextMade
<1>6. n = CASE t = "A" -> endAnchor(UPDATE_STYLE(p))
            [] t = "TITLE" -> [ p EXCEPT !.doctitle = p.title ]
            [] t \in PreFormatted ->
                 change_paragraph_style(comment_start(p), sp(p).style)
            [] OTHER -> change_paragraph_style(p, sp(p).style)
  <2>1. Len(m.stack) # 1
    <3>1. \A l \in Nat : l > 1 => l # 1
      OBVIOUS
    <3>2. Len(m.stack) \in Nat
      BY <1>1
    <3>3. QED
      BY <3>1, <3>2, Zenon
  <2>2. QED
    BY <2>1 DEF HTML_end_element, PreFormatted, p, n
<1>7. sp(p).style = m.stack[2].style /\ m.stack[2].style \in StyleNames
  <2>1. m.stack[2] \in Entries
    BY <1>1, <1>2
  <2>2. m.stack[2].style \in StyleNames
    BY <2>1 DEF Entries
  <2>3. QED
    BY <1>2, <1>3, <2>2 DEF sp
<1>8. m.text.anchors \in Int /\ m.text.anchors - 0 = m.text.anchors
  BY DEF Works, IsObject, IsText
<1>9. CASE t = "A"
  <2> DEFINE u == UPDATE_STYLE(p)
  <2>1. /\ Spares(p, u) /\ Works(u) /\ u.text.made /\ ~ u.style_change
        /\ u.shown = p.shown
    BY <1>5, Updated
  <2>2. n = endAnchor(u) /\ t \notin PreFormatted
    BY <1>6, <1>9 DEF PreFormatted
  <2> HIDE DEF u
  <2>3. /\ Keeps(u, n) /\ n.new_style = u.new_style /\ n.text.made
        /\ n.text.comment = u.text.comment /\ DueShown(n)
        /\ n.text.anchors = u.text.anchors - 1
    BY <2>1, <2>2, AnchorKeeps DEF Works
  <2>4. Keeps(p, n)
    BY <2>1, <2>3, KeepsTrans DEF Spares
  <2>5. Works(n) /\ n.stack = Tail(m.stack)
    BY <1>3, <1>5, <2>4, KeepsWorks DEF Keeps
  <2>6. Ended(m, n, t)
    BY <1>3, <1>9, <2>1, <2>2, <2>3 DEF Ended, Spares
  <2>7. QED
    BY <2>5, <2>6
<1>10. CASE t = "TITLE"
  <2>1. n = [ p EXCEPT !["doctitle"] = p.title ] /\ t \notin PreFormatted
    BY <1>6, <1>10 DEF PreFormatted
  <2>2. Spares(p, n) /\ n.shown = p.shown
    BY <1>4, <2>1, OtherFieldsKeep
  <2>3. Works(n) /\ n.stack = Tail(m.stack)
    BY <1>3, <1>5, <2>2, KeepsWorks DEF Keeps, Spares
  <2>4. Ended(m, n, t)
    BY <1>3, <1>8, <1>10, <2>1, <2>2 DEF Ended, Spares, Keeps, DueShown
  <2>5. QED
    BY <2>3, <2>4
<1>11. CASE t \in PreFormatted
  <2> DEFINE c == comment_start(p)
  <2>1. /\ Keeps(p, c) /\ c.text.made /\ c.text.anchors = p.text.anchors
        /\ ToC => c.text.comment
    BY <1>3, <1>4, <1>11, CommentKeeps
  <2>2. DueShown(p) => DueShown(c)
    BY <1>3, <1>4, <1>11, CommentKeeps
  <2>3. IsObject(c) /\ Settled(c)
    BY <2>1 DEF Keeps
  <2>4. n = change_paragraph_style(c, sp(p).style) /\ t \notin { "A", "TITLE" }
    BY <1>6, <1>11 DEF PreFormatted
  <2> HIDE DEF c
  <2>5. /\ Keeps(c, n) /\ n.text = c.text /\ n.shown = c.shown
        /\ n.new_style = m.stack[2].style
    BY <1>7, <2>3, <2>4, ChangeKeeps
  <2>6. Keeps(p, n)
    BY <2>1, <2>5, KeepsTrans
  <2>7. Works(n) /\ n.stack = Tail(m.stack)
    BY <1>3, <1>5, <2>6, KeepsWorks DEF Keeps
  <2>8. Ended(m, n, t)
    BY <1>3, <1>8, <1>11, <2>1, <2>2, <2>4, <2>5 DEF Ended, DueShown
  <2>9. QED
    BY <2>7, <2>8
<1>12. CASE t \notin PreFormatted \cup { "A", "TITLE" }
  <2>1. n = change_paragraph_style(p, sp(p).style)
    BY <1>6, <1>12
  <2>2. /\ Keeps(p, n) /\ n.text = p.text /\ n.shown = p.shown
        /\ n.new_style = m.stack[2].style
    BY <1>4, <1>7, <2>1, ChangeKeeps
  <2>3. Works(n) /\ n.stack = Tail(m.stack)
    BY <1>3, <1>5, <2>2, KeepsWorks DEF Keeps
  <2>4. Ended(m, n, t)
    BY <1>3, <1>8, <1>12, <2>2 DEF Ended, DueShown
  <2>5. QED
    BY <2>3, <2>4
<1>13. QED
  BY <1>9, <1>10, <1>11, <1>12

LEMMA FreeEnds ==
  ASSUME NEW m, Works(m)
  PROVE  LET n == HTML_free(m)
         IN  /\ IsObject(n) /\ n.status = "freed" /\ n.stack = m.stack
             /\ n.text.made /\ n.text.ended
             /\ n.text.anchors = m.text.anchors
             /\ DueShown(m) => DueShown(n)
<1> DEFINE u == UPDATE_STYLE(m)
           c == IF ToC /\ sp(u).tag \notin { "COMMENT", "TITLE" }
                THEN comment_end(u) ELSE u
           n == HTML_free(m)
<1>1. /\ Spares(m, u) /\ Works(u) /\ u.text.made /\ u.shown = m.shown
  BY Updated
<1>2. n = [ c EXCEPT !.text.ended = TRUE, !.status = "freed" ]
  BY DEF HTML_free
<1> HIDE DEF u
<1>3. /\ Keeps(u, c) /\ c.text.made /\ c.text.anchors = u.text.anchors
      /\ DueShown(u) => DueShown(c)
  BY <1>1, CommentKeeps, KeepsItself DEF Works, Spares
<1>4. /\ Keeps(m, c) /\ c.text.made /\ c.text.anchors = m.text.anchors
  BY <1>1, <1>3, KeepsTrans DEF Spares
<1>5. DueShown(m) => DueShown(c)
  BY <1>1, <1>3 DEF DueShown
<1> HIDE DEF c, n
<1>6. IsObject(c) /\ c.stack = m.stack
  BY <1>4 DEF Keeps
<1> DEFINE t == [ c.text EXCEPT !.ended = TRUE ]
<1>7. /\ IsText(t) /\ t.made /\ t.ended /\ t.anchors = c.text.anchors
  BY <1>4, <1>6 DEF IsObject, IsText, TextFields
<1>8. n = [ c EXCEPT !.text = t, !.status = "freed" ]
  BY <1>2
<1> HIDE DEF t
<1>9. /\ n.text = t /\ n.status = "freed" /\ n.stack = c.stack
      /\ n.shown = c.shown /\ n.style_change = c.style_change
      /\ n.new_style = c.new_style /\ n = [ f \in Fields |-> n[f] ]
  BY <1>6, <1>8 DEF IsObject, Fields
<1>10. IsObject(n)
  BY <1>6, <1>7, <1>9 DEF IsObject, Statuses
<1>11. DueShown(m) => DueShown(n)
  BY <1>5, <1>9 DEF DueShown
<1>12. QED
  BY <1>4, <1>6, <1>7, <1>9, <1>10, <1>11 DEF n

-----------------------------------------------------------------------------
(* The anchors among the open elements. *)
Anchors(o) == { i \in DOMAIN o : o[i] = "A" }
Count(o)   == Cardinality(Anchors(o))
PreOpen(o) == \E i \in DOMAIN o : o[i] \in PreFormatted

LEMMA NothingOpen ==
  ASSUME NEW S
  PROVE  /\ << >> \in Seq(S) /\ Len(<< >>) = 0 /\ DOMAIN << >> = {}
         /\ Count(<< >>) = 0 /\ ~ PreOpen(<< >>)
<1>1. << >> \in Seq(S) /\ Len(<< >>) = 0 /\ DOMAIN << >> = {}
  OBVIOUS
<1>2. Anchors(<< >>) = {}
  BY <1>1 DEF Anchors
<1>3. QED
  BY <1>1, <1>2, FS_EmptySet DEF Count, PreOpen

LEMMA AnchorsFinite ==
  ASSUME NEW o \in Seq(Elements)
  PROVE  IsFiniteSet(Anchors(o)) /\ Count(o) \in Nat
<1>1. DOMAIN o = 1 .. Len(o) /\ Len(o) \in Nat
  OBVIOUS
<1>2. IsFiniteSet(DOMAIN o)
  BY <1>1, FS_Interval
<1>3. IsFiniteSet(Anchors(o))
  BY <1>2, FS_Subset DEF Anchors
<1>4. QED
  BY <1>3, FS_CardinalityType DEF Count

LEMMA Pushed ==
  ASSUME NEW o \in Seq(Elements), NEW t \in Elements
  PROVE  LET p == << t >> \o o
         IN  /\ Count(p) = Count(o) + (IF t = "A" THEN 1 ELSE 0)
             /\ PreOpen(p) <=> t \in PreFormatted \/ PreOpen(o)
<1> DEFINE p == << t >> \o o
           I == Anchors(o)
           J == Anchors(p) \ { 1 }
           f == [ i \in I |-> i + 1 ]
<1>1. /\ p \in Seq(Elements) /\ Len(p) = Len(o) + 1 /\ p[1] = t
      /\ \A i \in DOMAIN p : i # 1 => i - 1 \in DOMAIN o /\ p[i] = o[i - 1]
      /\ \A i \in DOMAIN o : i + 1 \in DOMAIN p /\ p[i + 1] = o[i]
  BY PushOne
<1>2. /\ DOMAIN o = 1 .. Len(o) /\ DOMAIN p = 1 .. Len(o) + 1
      /\ Len(o) \in Nat /\ 1 \in DOMAIN p
  BY <1>1
<1> HIDE DEF p
<1>3. ASSUME NEW i \in I PROVE i + 1 \in J
  <2>1. i \in Nat /\ i >= 1 /\ i + 1 # 1
    BY <1>2 DEF Anchors
  <2>2. QED
    BY <1>1, <2>1 DEF Anchors
<1>4. ASSUME NEW j \in J PROVE j - 1 \in I /\ (j - 1) + 1 = j
  <2>1. j \in Nat /\ j \in DOMAIN p /\ j # 1 /\ p[j] = "A"
    BY <1>2 DEF Anchors
  <2>2. QED
    BY <1>1, <2>1 DEF Anchors
<1>5. \A i, k \in I : i + 1 = k + 1 => i = k
  BY <1>2 DEF Anchors
<1> HIDE DEF I, J
<1>6. f \in Bijection(I, J)
  <2>1. f \in [ I -> J ]
    BY <1>3
  <2>2. \A j \in J : \E i \in I : f[i] = j
    BY <1>4
  <2>3. \A i, k \in I : f[i] = f[k] => i = k
    BY <1>5
  <2>4. QED
    BY <2>1, <2>2, <2>3 DEF Bijection, Injection, Surjection, IsInjective
<1>7. IsFiniteSet(I) /\ IsFiniteSet(Anchors(p)) /\ Count(p) \in Nat
  BY <1>1, AnchorsFinite DEF I
<1>8. Cardinality(I) = Cardinality(J)
  BY <1>6, <1>7, FS_Bijection DEF ExistsBijection
<1>9. Cardinality(J) = IF 1 \in Anchors(p) THEN Count(p) - 1 ELSE Count(p)
  BY <1>7, FS_RemoveElement DEF J, Count
<1>10. 1 \in Anchors(p) <=> t = "A"
  BY <1>1, <1>2 DEF Anchors
<1>11. Cardinality(I) = Count(o)
  BY DEF I, Count
<1>12. Count(p) = Count(o) + (IF t = "A" THEN 1 ELSE 0)
  BY <1>7, <1>8, <1>9, <1>10, <1>11
<1>13. PreOpen(p) <=> t \in PreFormatted \/ PreOpen(o)
  <2>1. ASSUME NEW i \in DOMAIN p, p[i] \in PreFormatted, t \notin PreFormatted
        PROVE  PreOpen(o)
    BY <1>1, <2>1 DEF PreOpen
  <2>2. ASSUME NEW i \in DOMAIN o, o[i] \in PreFormatted
        PROVE  PreOpen(p)
    BY <1>1, <2>2 DEF PreOpen
  <2>3. QED
    BY <1>1, <1>2, <2>1, <2>2 DEF PreOpen
<1>14. QED
  BY <1>12, <1>13 DEF p

LEMMA HeadOn ==
  ASSUME NEW S, NEW o \in Seq(S), o # << >>
  PROVE  o = << o[1] >> \o Tail(o) /\ o[1] \in S /\ Tail(o) \in Seq(S)
OBVIOUS

LEMMA Popped ==
  ASSUME NEW o \in Seq(Elements), o # << >>
  PROVE  /\ Tail(o) \in Seq(Elements) /\ o[1] \in Elements
         /\ Count(Tail(o)) = Count(o) - (IF o[1] = "A" THEN 1 ELSE 0)
         /\ PreOpen(o) <=> o[1] \in PreFormatted \/ PreOpen(Tail(o))
<1>1. o = << o[1] >> \o Tail(o) /\ o[1] \in Elements /\ Tail(o) \in Seq(Elements)
  BY HeadOn
<1>2. Count(Tail(o)) \in Nat /\ Count(o) \in Nat
  BY <1>1, AnchorsFinite
<1> DEFINE t == o[1]
           q == Tail(o)
<1>3. t \in Elements /\ q \in Seq(Elements) /\ o = << t >> \o q
  BY <1>1
<1> HIDE DEF t, q
<1>4. /\ Count(o) = Count(q) + (IF t = "A" THEN 1 ELSE 0)
      /\ PreOpen(o) <=> t \in PreFormatted \/ PreOpen(q)
  BY <1>3, Pushed
<1>5. Count(q) = Count(o) - (IF t = "A" THEN 1 ELSE 0)
  BY <1>2, <1>4 DEF q
<1>6. QED
  BY <1>1, <1>4, <1>5 DEF t, q

-----------------------------------------------------------------------------
(* What the text and the open elements have in common. *)
TextFits(m, o) ==
  /\ m.text.anchors = Count(o)
  /\ PreOpen(o) => m.text.made
  /\ ToC /\ ~ PreOpen(o) => m.text.comment

ShownFits(m, o, c) ==
  /\ DueShown(m) \/ sp(m).tag \in PreFormatted
  /\ ToC /\ c.op = "put_character" /\ ~ PreOpen(o)
       => m.shown.what = "nothing" \/ m.shown.comment

(* The inductive invariant, for documents nested in any way.  Null         *)
(* pointers reached by an anchor's attributes, and the pop of the bottom   *)
(* entry, end the program.                                                 *)
Fits(m, o, l, c) ==
  /\ o \in Seq(Elements) /\ Len(o) <= MaxDepth
  /\ IsObject(m) /\ Len(m.stack) \in 1 .. MAX_NESTING
  /\ m.text.anchors \in Nat /\ m.status # "null text"
  /\ ShownFits(m, o, c)
  /\ m.status = "alive" => l = TRUE /\ Works(m) /\ TextFits(m, o)
  /\ m.status \in { "freed", "aborted" } => l = FALSE /\ o = << >>
  /\ m.status = "freed" => m.text.made /\ m.text.ended

Inv == Fits(me, open, live, call)

(* The object at the beginning of a document. *)
LEMMA NewWorks ==
  LET n == HTML_new("")
  IN  /\ Works(n) /\ TextFits(n, << >>) /\ n.shown.what = "nothing"
      /\ Len(n.stack) = 1 /\ n.stack[1].tag = Bottom
      /\ n.stack[1].style = default_style /\ n.new_style = default_style
<1> DEFINE n == HTML_new("")
           a == [ style |-> default_style, tag |-> Bottom ]
<1>1. /\ n = [ f \in Fields |-> n[f] ] /\ n.text = NoText
      /\ n.style_change = TRUE /\ n.new_style = default_style
      /\ n.stack = << a >> /\ n.status = "alive" /\ n.shown = Nothing
  BY DEF HTML_new, Fields
<1>2. /\ IsText(NoText) /\ NoText.made = FALSE /\ NoText.anchors = 0
      /\ NoText.comment = ToC
  BY DEF NoText, IsText, TextFields
<1>3. a \in Entries /\ a.tag = Bottom /\ a.style = default_style
  BY DEF Entries, StyleNames
<1> HIDE DEF a, n
<1>4. /\ << a >> \in Seq(Entries) /\ << a >>[1] = a
      /\ Len(<< a >>) = 1 /\ Len(<< a >>) > 0
  BY <1>3
<1>5. IsObject(n) /\ Settled(n)
  BY <1>1, <1>2, <1>4 DEF IsObject, Settled, Statuses, StyleNames
<1>6. PreTextMade(n)
  BY <1>1, <1>3, <1>4 DEF PreTextMade, PreFormatted, Bottom
<1>7. Works(n)
  BY <1>1, <1>4, <1>5, <1>6 DEF Works
<1>8. TextFits(n, << >>)
  BY <1>1, <1>2, NothingOpen DEF TextFits
<1>9. n.shown.what = "nothing"
  BY <1>1 DEF Nothing
<1>10. QED
  BY <1>1, <1>3, <1>4, <1>7, <1>8, <1>9 DEF n

LEMMA Room == 1 \in 1 .. MAX_NESTING /\ 0 <= MaxDepth
BY HTMLAssumption, DepthAssumption

LEMMA NewFits ==
  ASSUME NEW c
  PROVE  Fits(HTML_new(""), << >>, TRUE, c)
<1> DEFINE n == HTML_new("")
           o == << >>
<1>1. /\ Works(n) /\ TextFits(n, o) /\ n.shown.what = "nothing"
      /\ Len(n.stack) = 1
  BY NewWorks
<1> HIDE DEF n
<1>2. /\ o \in Seq(Elements) /\ Len(o) = 0 /\ Count(o) = 0
  BY NothingOpen
<1> HIDE DEF o
<1>3. ShownFits(n, o, c)
  BY <1>1 DEF ShownFits, DueShown
<1>4. n.text.anchors \in Nat
  BY <1>1, <1>2 DEF TextFits
<1>5. Fits(n, o, TRUE, c)
  BY <1>1, <1>2, <1>3, <1>4, Room DEF Fits, Works
<1>6. QED
  BY <1>5 DEF n, o

LEMMA InitInv == Init => Inv
BY NewFits DEF Init, Stream!Init, Inv

LEMMA ForgetShown ==
  ASSUME NEW m, IsObject(m)
  PROVE  LET n == [ m EXCEPT !.shown = Nothing ]
         IN  /\ IsObject(n) /\ n.status = m.status /\ n.stack = m.stack
             /\ n.text = m.text /\ n.new_style = m.new_style
             /\ n.shown.what = "nothing"
             /\ Works(m) => Works(n)
<1> DEFINE n == [ m EXCEPT !.shown = Nothing ]
<1>1. /\ n.status = m.status /\ n.stack = m.stack /\ n.shown = Nothing
      /\ n.text = m.text /\ n.style_change = m.style_change
      /\ n.new_style = m.new_style /\ n = [ f \in Fields |-> n[f] ]
  BY DEF IsObject, Fields
<1> HIDE DEF n
<1>2. IsObject(n)
  BY <1>1 DEF IsObject
<1>3. Works(m) => Works(n)
  BY <1>1, <1>2 DEF Works, PreTextMade, Settled
<1>4. n.shown.what = "nothing"
  BY <1>1 DEF Nothing
<1>5. QED
  BY <1>1, <1>2, <1>3, <1>4 DEF n

(* A status that ends the program. *)
LEMMA StatusOnly ==
  ASSUME NEW m, IsObject(m), NEW st \in Statuses
  PROVE  LET n == [ m EXCEPT !.status = st ]
         IN  /\ IsObject(n) /\ n.status = st /\ n.stack = m.stack
             /\ n.text = m.text /\ n.shown = m.shown
BY DEF IsObject, Fields

(* The protocol and the object share the tables of HTMLDTD. *)
LEMMA SameTables ==
  /\ \A t : Stream!contents(t) = contents(t)
  /\ Stream!Elements = Elements /\ Stream!KnownTags \subseteq Elements
<1>1. Stream!Elements = Elements
  BY DEF Stream!Elements, Elements, Stream!tags, tags
<1>2. Stream!KnownTags \subseteq Stream!Elements
  BY DEF Stream!KnownTags
<1>3. \A t : Stream!contents(t) = contents(t)
  BY DEF Stream!contents, contents, Stream!EmptyElements, EmptyElements,
         Stream!LiteralElements, LiteralElements, Stream!CDataElements,
         CDataElements
<1>4. QED
  BY <1>1, <1>2, <1>3

LEMMA Height ==
  ASSUME NEW m, Works(m), Len(m.stack) <= MAX_NESTING
  PROVE  /\ Len(m.stack) \in 1 .. MAX_NESTING
         /\ Len(m.stack) = 1 \/ Len(m.stack) > 1
<1>1. m.stack \in Seq(Entries) /\ Len(m.stack) \in Nat /\ Len(m.stack) > 0
  BY DEF Works, IsObject
<1>2. \A l \in Nat : l > 0 => l = 1 \/ l > 1
  OBVIOUS
<1>3. Len(m.stack) \in 1 .. MAX_NESTING
  BY <1>1, HTMLAssumption
<1>4. QED
  BY <1>1, <1>2, <1>3, Zenon

LEMMA WorkingFits ==
  ASSUME NEW n, Works(n), Len(n.stack) <= MAX_NESTING,
         NEW o \in Seq(Elements), Len(o) <= MaxDepth, TextFits(n, o),
         NEW c, ShownFits(n, o, c)
  PROVE  Fits(n, o, TRUE, c)
<1>1. Len(n.stack) \in 1 .. MAX_NESTING
  BY Height
<1>2. n.text.anchors \in Nat
  BY AnchorsFinite DEF TextFits
<1>3. QED
  BY <1>1, <1>2 DEF Fits, Works

LEMMA PutStep ==
  ASSUME NEW m, Works(m), m.shown.what = "nothing", Len(m.stack) <= MAX_NESTING,
         NEW o \in Seq(Elements), Len(o) <= MaxDepth, TextFits(m, o), NEW ch,
         NEW c
  PROVE  LET n == HTML_put_character(m, ch)
         IN  Fits(n, o, TRUE, c) /\ n.stack = m.stack
             /\ n.new_style = m.new_style
<1> DEFINE n == HTML_put_character(m, ch)
<1>1. /\ Spares(m, n)
      /\ n.shown = m.shown \/ n.shown.comment = m.text.comment
      /\ sp(m).tag \notin PreFormatted => Proper(m, n)
  BY PutCharacterKeeps DEF Works
<1> HIDE DEF n
<1>2. Works(n) /\ n.stack = m.stack /\ n.new_style = m.new_style
  BY <1>1, KeepsWorks DEF Spares, Keeps
<1>3. TextFits(n, o)
  BY <1>1 DEF TextFits, Spares, Keeps
<1>4. DueShown(m)
  BY DEF DueShown
<1>5. DueShown(n) \/ sp(n).tag \in PreFormatted
  BY <1>1, <1>2, <1>4 DEF Proper, DueShown, sp
<1>6. ToC /\ ~ PreOpen(o) => n.shown.what = "nothing" \/ n.shown.comment
  BY <1>1 DEF TextFits
<1>7. ShownFits(n, o, c)
  BY <1>5, <1>6 DEF ShownFits
<1>8. QED
  BY <1>2, <1>3, <1>7, WorkingFits DEF n

LEMMA StartStep ==
  ASSUME NEW m, Works(m), m.shown.what = "nothing", Len(m.stack) <= MAX_NESTING,
         NEW o \in Seq(Elements), TextFits(m, o), NEW t \in Elements, NEW attrs,
         NEW p, p = IF contents(t) = "SGML_EMPTY" THEN o ELSE << t >> \o o,
         Len(p) <= MaxDepth, NEW c, c.op = "start_element"
  PROVE  Fits(HTML_start_element(m, t, attrs), p, TRUE, c)
<1> DEFINE n == HTML_start_element(m, t, attrs)
<1>1. \/ n = [ m EXCEPT !.status = "null anchor" ]
      \/ Works(n) /\ Begun(m, n, t) /\ Len(n.stack) <= MAX_NESTING
  BY StartElementWorks
<1> HIDE DEF n
<1>2. /\ p \in Seq(Elements)
      /\ Count(p) = Count(o) +
           (IF contents(t) # "SGML_EMPTY" /\ t = "A" THEN 1 ELSE 0)
      /\ PreOpen(p) <=>
           (contents(t) # "SGML_EMPTY" /\ t \in PreFormatted) \/ PreOpen(o)
  <2>1. CASE contents(t) = "SGML_EMPTY"
    BY <2>1, AnchorsFinite
  <2>2. CASE contents(t) # "SGML_EMPTY"
    <3>1. p = << t >> \o o
      BY <2>2
    <3>2. p \in Seq(Elements)
      BY <3>1, PushOne
    <3>3. /\ Count(p) = Count(o) + (IF t = "A" THEN 1 ELSE 0)
          /\ PreOpen(p) <=> t \in PreFormatted \/ PreOpen(o)
      BY <3>1, Pushed
    <3>4. QED
      BY <2>2, <3>2, <3>3
  <2>3. QED
    BY <2>1, <2>2
<1>3. t = "A" \/ t \in PreFormatted => contents(t) # "SGML_EMPTY"
  BY DEF contents, PreFormatted, EmptyElements, LiteralElements, CDataElements
<1>4. CASE n = [ m EXCEPT !.status = "null anchor" ]
  <2>1. /\ IsObject(n) /\ n.status = "null anchor" /\ n.stack = m.stack
        /\ n.text = m.text /\ n.shown = m.shown
    BY <1>4, StatusOnly DEF Works, Statuses
  <2>2. ShownFits(n, p, c)
    BY <2>1 DEF ShownFits, DueShown
  <2>4. Len(n.stack) \in 1 .. MAX_NESTING
    BY <2>1, Height
  <2>5. n.text.anchors \in Nat
    BY <2>1, AnchorsFinite DEF TextFits
  <2>6. Fits(n, p, TRUE, c)
    BY <1>2, <2>1, <2>2, <2>4, <2>5 DEF Fits
  <2>7. QED
    BY <2>6 DEF n
<1>5. CASE Works(n) /\ Begun(m, n, t) /\ Len(n.stack) <= MAX_NESTING
  <2>1. DueShown(n)
    BY <1>5 DEF Begun, DueShown
  <2>2. ShownFits(n, p, c)
    BY <2>1 DEF ShownFits
  <2>3. n.text.anchors = Count(p)
    BY <1>2, <1>3, <1>5 DEF TextFits, Begun
  <2>4. PreOpen(p) => n.text.made
    <3>1. CASE t \in PreFormatted
      BY <1>5, <3>1 DEF Begun
    <3>2. CASE t \notin PreFormatted
      <4>1. PreOpen(p) => m.text.made
        BY <1>2, <3>2 DEF TextFits
      <4>2. m.text.made => n.text.made
        BY <1>5 DEF Begun
      <4>3. QED
        BY <4>1, <4>2
    <3>3. QED
      BY <3>1, <3>2
  <2>5. ToC /\ ~ PreOpen(p) => n.text.comment
    BY <1>2, <1>3, <1>5 DEF TextFits, Begun
  <2>6. TextFits(n, p)
    BY <2>3, <2>4, <2>5 DEF TextFits
  <2>7. Fits(n, p, TRUE, c)
    BY <1>2, <1>5, <2>2, <2>6, WorkingFits
  <2>8. QED
    BY <2>7 DEF n
<1>6. QED
  BY <1>1, <1>4, <1>5

LEMMA EndStep ==
  ASSUME NEW m, Works(m), m.shown.what = "nothing", Len(m.stack) <= MAX_NESTING,
         NEW o \in Seq(Elements), o # << >>, TextFits(m, o),
         Len(Tail(o)) <= MaxDepth, NEW c, c.op = "end_element"
  PROVE  Fits(HTML_end_element(m, o[1]), Tail(o), TRUE, c)
<1> DEFINE t == o[1]
           q == Tail(o)
           n == HTML_end_element(m, t)
<1>1. /\ q \in Seq(Elements) /\ t \in Elements
      /\ Count(q) = Count(o) - (IF t = "A" THEN 1 ELSE 0)
      /\ PreOpen(o) <=> t \in PreFormatted \/ PreOpen(q)
  BY Popped
<1> HIDE DEF q, t
<1>2. m.stack \in Seq(Entries) /\ Len(m.stack) \in Nat /\ Len(m.stack) > 0
  BY DEF Works, IsObject
<1>3. CASE Len(m.stack) = 1
  <2>1. n = [ m EXCEPT !.status = "stack underrun" ] /\ IsObject(m)
    BY <1>3 DEF HTML_end_element, Works
  <2> HIDE DEF n
  <2>2. /\ IsObject(n) /\ n.status = "stack underrun" /\ n.stack = m.stack
        /\ n.text = m.text /\ n.shown = m.shown
    BY <2>1, StatusOnly DEF Statuses
  <2>3. ShownFits(n, q, c)
    BY <2>2 DEF ShownFits, DueShown
  <2>4. Len(n.stack) \in 1 .. MAX_NESTING
    BY <2>2, Height
  <2>5. n.text.anchors \in Nat
    BY <2>2, AnchorsFinite DEF TextFits
  <2>6. Len(q) <= MaxDepth
    BY DEF q
  <2>7. Fits(n, q, TRUE, c)
    BY <1>1, <2>2, <2>3, <2>4, <2>5, <2>6 DEF Fits
  <2>8. QED
    BY <2>7 DEF n, q, t
<1>4. CASE Len(m.stack) # 1
  <2>1. Len(m.stack) > 1
    BY <1>4, Height
  <2>2. Works(n) /\ n.stack = Tail(m.stack) /\ Ended(m, n, t)
    BY <1>1, <2>1, EndElementWorks DEF TextFits
  <2> HIDE DEF n
  <2>3. DueShown(n)
    BY <2>2 DEF Ended, DueShown
  <2>4. ShownFits(n, q, c)
    BY <2>3 DEF ShownFits
  <2>5. TextFits(n, q)
    <3>1. n.text.anchors = Count(q)
      BY <1>1, <2>2 DEF TextFits, Ended
    <3>2. PreOpen(q) => n.text.made
      BY <1>1, <2>2 DEF TextFits, Ended
    <3>3. ToC /\ ~ PreOpen(q) => n.text.comment
      BY <1>1, <2>2 DEF TextFits, Ended
    <3>4. QED
      BY <3>1, <3>2, <3>3 DEF TextFits
  <2>6. Len(n.stack) <= MAX_NESTING /\ Len(q) <= MaxDepth
    <3>1. Len(n.stack) = Len(m.stack) - 1
      BY <1>2, <2>2, PopOne
    <3>2. QED
      BY <1>2, <3>1, HTMLAssumption DEF q
  <2>7. Fits(n, q, TRUE, c)
    BY <1>1, <2>2, <2>4, <2>5, <2>6, WorkingFits
  <2>8. QED
    BY <2>7 DEF n, q, t
<1>5. QED
  BY <1>3, <1>4

LEMMA CloseStep ==
  ASSUME NEW m, Works(m), m.shown.what = "nothing", Len(m.stack) <= MAX_NESTING,
         m.text.anchors \in Nat, NEW c, c.op # "put_character",
         NEW n \in { HTML_free(m), HTML_abort(m) }
  PROVE  Fits(n, << >>, FALSE, c)
<1> DEFINE o == << >>
<1>1. o \in Seq(Elements) /\ Len(o) <= MaxDepth
  BY NothingOpen, Room
<1> HIDE DEF o
<1>2. m.stack \in Seq(Entries) /\ Len(m.stack) \in Nat /\ Len(m.stack) > 0
  BY DEF Works, IsObject
<1>3. DueShown(m) /\ IsObject(m)
  BY DEF DueShown, Works
<1>4. CASE n = HTML_free(m)
  <2>1. /\ IsObject(n) /\ n.status = "freed" /\ n.stack = m.stack
        /\ n.text.made /\ n.text.ended /\ n.text.anchors = m.text.anchors
        /\ DueShown(n)
    BY <1>3, <1>4, FreeEnds
  <2>2. ShownFits(n, o, c)
    BY <2>1 DEF ShownFits
  <2>3. Len(n.stack) \in 1 .. MAX_NESTING
    BY <2>1, Height
  <2>4. Fits(n, o, FALSE, c)
    BY <1>1, <2>1, <2>2, <2>3 DEF Fits, o
  <2>5. QED
    BY <2>4 DEF o
<1>5. CASE n = HTML_abort(m)
  <2>1. /\ IsObject(n) /\ n.status = "aborted" /\ n.stack = m.stack
        /\ n.text = m.text /\ n.shown = m.shown
    BY <1>3, <1>5, StatusOnly DEF HTML_abort, Statuses
  <2>2. ShownFits(n, o, c)
    BY <1>3, <2>1 DEF ShownFits, DueShown
  <2>3. Len(n.stack) \in 1 .. MAX_NESTING
    BY <2>1, Height
  <2>4. Fits(n, o, FALSE, c)
    BY <1>1, <2>1, <2>2, <2>3 DEF Fits, o
  <2>5. QED
    BY <2>4 DEF o
<1>6. QED
  BY <1>4, <1>5

(* The steps of the stream, seen from the object whose last appearance has *)
(* been forgotten.                                                         *)
Fresh(m) ==
  /\ IsObject(m) /\ m.status = me.status /\ m.stack = me.stack
  /\ m.text = me.text /\ m.new_style = me.new_style
  /\ m.shown.what = "nothing"
  /\ live = TRUE => Works(m) /\ TextFits(m, open) /\ me.status = "alive"
  /\ live # TRUE => me.status \in { "freed", "aborted" }
  /\ Len(m.stack) <= MAX_NESTING

LEMMA FreshObject ==
  ASSUME Inv, Alive
  PROVE  Fresh([ me EXCEPT !.shown = Nothing ])
<1> DEFINE m == [ me EXCEPT !.shown = Nothing ]
<1>1. IsObject(me) /\ me.status \in { "alive", "freed", "aborted" }
  BY DEF Inv, Fits, Alive, IsObject, Statuses
<1>2. /\ IsObject(m) /\ m.status = me.status /\ m.stack = me.stack
      /\ m.text = me.text /\ m.new_style = me.new_style
      /\ m.shown.what = "nothing"
  BY <1>1, ForgetShown
<1>3. Works(me) => Works(m)
  BY <1>1, ForgetShown
<1> HIDE DEF m
<1>4. live = TRUE => me.status = "alive"
  BY <1>1 DEF Inv, Fits
<1>5. live # TRUE => me.status \in { "freed", "aborted" }
  BY <1>1 DEF Inv, Fits
<1>6. Len(me.stack) <= MAX_NESTING
  <2>1. Len(me.stack) \in 1 .. MAX_NESTING
    BY DEF Inv, Fits
  <2>2. \A l \in 1 .. MAX_NESTING : l <= MAX_NESTING
    OBVIOUS
  <2>3. QED
    BY <2>1, <2>2
<1>7. me.status = "alive" => Works(m) /\ TextFits(m, open)
  BY <1>2, <1>3 DEF Inv, Fits, TextFits
<1>8. Fresh(m)
  BY <1>2, <1>4, <1>5, <1>6, <1>7 DEF Fresh
<1>9. QED
  BY <1>8 DEF m

LEMMA StepInv ==
  ASSUME Inv, NEW c \in Calls, Step(c)
  PROVE  Inv'
<1> DEFINE m == [ me EXCEPT !.shown = Nothing ]
<1>1. Fresh(m)
  BY FreshObject DEF Step
<1>2. /\ me' = Handle(me, c) /\ Len(open') <= MaxDepth /\ Stream!Make(c)
      /\ open \in Seq(Elements) /\ Len(open) <= MaxDepth /\ call' = c
      /\ me.text.anchors \in Nat
  BY DEF Step, Inv, Fits, Stream!Make
<1> SUFFICES Fits(me', open', live', c)
  BY <1>2 DEF Inv
<1>3. CASE Stream!PutCharacter(c) \/ Stream!PutEntity(c)
  <2>1. UNCHANGED << open, live >> /\ live = TRUE
    BY <1>3, <1>1 DEF Stream!PutCharacter, Stream!PutEntity, Inv, Fits, Fresh
  <2>2. \E ch : me' = HTML_put_character(m, ch)
    BY <1>2, <1>3 DEF Stream!PutCharacter, Stream!PutEntity, Handle,
       HTML_put_entity
  <2> HIDE DEF m
  <2>3. /\ Works(m) /\ TextFits(m, open) /\ m.shown.what = "nothing"
        /\ Len(m.stack) <= MAX_NESTING
    BY <1>1, <2>1 DEF Fresh
  <2>4. Fits(me', open, TRUE, c)
    BY <1>2, <2>2, <2>3, PutStep
  <2>5. QED
    BY <2>1, <2>4
<1>4. CASE Stream!StartElement(c)
  <2>1. /\ live' = live /\ live = TRUE /\ c.tag \in Elements
        /\ open' = IF contents(c.tag) = "SGML_EMPTY" THEN open
                   ELSE << c.tag >> \o open
        /\ c.op = "start_element"
    BY <1>1, <1>4, SameTables, Zenon DEF Stream!StartElement, Fresh, Inv, Fits
  <2>2. me' = HTML_start_element(m, c.tag, c.attrs)
    BY <1>2, <2>1 DEF Handle
  <2> HIDE DEF m
  <2>3. /\ Works(m) /\ TextFits(m, open) /\ m.shown.what = "nothing"
        /\ Len(m.stack) <= MAX_NESTING
    BY <1>1, <2>1 DEF Fresh
  <2>4. Fits(me', open', TRUE, c)
    BY <1>2, <2>1, <2>2, <2>3, StartStep
  <2>5. QED
    BY <2>1, <2>4
<1>5. CASE Stream!EndElement(c)
  <2>1. /\ live' = live /\ live = TRUE /\ c.op = "end_element"
        /\ open # << >> /\ c.tag = open[1] /\ open' = Tail(open)
    BY <1>1, <1>5, Zenon DEF Stream!EndElement, Fresh, Inv, Fits
  <2>2. me' = HTML_end_element(m, open[1])
    BY <1>2, <2>1 DEF Handle
  <2> HIDE DEF m
  <2>3. /\ Works(m) /\ TextFits(m, open) /\ m.shown.what = "nothing"
        /\ Len(m.stack) <= MAX_NESTING
    BY <1>1, <2>1 DEF Fresh
  <2>4. Len(Tail(open)) <= MaxDepth
    BY <1>2, <2>1
  <2>5. Fits(me', Tail(open), TRUE, c)
    BY <1>2, <2>1, <2>2, <2>3, <2>4, EndStep
  <2>6. QED
    BY <2>1, <2>5
<1>6. CASE Stream!Close(c)
  <2>1. live = TRUE /\ live' = FALSE /\ open' = << >> /\ c.op # "put_character"
    BY <1>1, <1>6 DEF Stream!Close, Fresh, Inv, Fits
  <2>2. me' \in { HTML_free(m), HTML_abort(m) }
    BY <1>2, <1>6 DEF Stream!Close, Handle
  <2> HIDE DEF m
  <2>3. /\ Works(m) /\ m.text.anchors \in Nat /\ m.shown.what = "nothing"
        /\ Len(m.stack) <= MAX_NESTING
    BY <1>1, <1>2, <2>1 DEF Fresh
  <2>4. Fits(me', << >>, FALSE, c)
    BY <2>1, <2>2, <2>3, CloseStep
  <2>5. QED
    BY <2>1, <2>4
<1>7. CASE Stream!New(c)
  <2>1. ~ live /\ live' = TRUE /\ open' = open
    BY <1>7, Zenon DEF Stream!New
  <2>2. open = << >>
    BY <1>1, <2>1 DEF Inv, Fits, Fresh
  <2>3. me' = HTML_new("")
    BY <1>2, <1>7 DEF Stream!New, Handle
  <2>4. QED
    BY <2>1, <2>2, <2>3, NewFits
<1>8. CASE c = Stream!Returned /\ UNCHANGED << open, live >>
  <2>1. me' = m
    BY <1>2, <1>8 DEF Stream!Returned, Handle
  <2>2. c.op # "put_character"
    BY <1>8 DEF Stream!Returned
  <2> HIDE DEF m
  <2>3. ShownFits(m, open, c)
    BY <1>1, <2>2 DEF Fresh, ShownFits, DueShown
  <2>4. Fits(m, open, live, c)
    BY <1>1, <1>2, <2>3 DEF Fits, Inv, Fresh
  <2>5. QED
    BY <1>8, <2>1, <2>4
<1>9. QED
  BY <1>2, <1>3, <1>4, <1>5, <1>6, <1>7, <1>8 DEF Stream!Make

LEMMA Invariant == Spec => []Inv
<1>1. Inv /\ [Next]_vars => Inv'
  <2>1. Inv /\ UNCHANGED vars => Inv'
    BY DEF Inv, vars
  <2>2. QED
    BY <2>1, StepInv DEF Next
<1>2. QED
  BY <1>1, InitInv, PTL DEF Spec

-----------------------------------------------------------------------------
(* For documents nested less deeply than the stack is high, the stack of m *)
(* is that of the open elements, over the bottom entry.                    *)
StackIs(m, o) ==
  /\ Len(m.stack) = Len(o) + 1
  /\ \A i \in DOMAIN o : m.stack[i].tag = o[i]
  /\ m.stack[Len(o) + 1].tag = Bottom

(* Each entry keeps the style its element set, or that of the entry below. *)
StylesAre(m, o) ==
  /\ m.new_style = m.stack[1].style
  /\ m.stack[Len(o) + 1].style = default_style
  /\ \A i \in DOMAIN o :
       IF o[i] \in Styled THEN m.stack[i].style \in StylesOf(o[i])
       ELSE m.stack[i].style = m.stack[i + 1].style

Mirrors(m, o) == StackIs(m, o) /\ StylesAre(m, o)

Nested ==
  me.status # "stack underrun" /\ (me.status = "alive" => Mirrors(me, open))

LEMMA MirrorsPushed ==
  ASSUME NEW m, IsObject(m), NEW o \in Seq(Elements), Mirrors(m, o), NEW n,
         NEW t \in Elements, n.new_style \in StyleNames,
         n.stack = << [ style |-> n.new_style, tag |-> t ] >> \o m.stack,
         IF t \in Styled THEN n.new_style \in StylesOf(t)
                         ELSE n.new_style = m.new_style
  PROVE  Mirrors(n, << t >> \o o)
<1> DEFINE a == [ style |-> n.new_style, tag |-> t ]
           p == << t >> \o o
<1>1. a \in Entries /\ a.tag = t /\ a.style = n.new_style
  BY DEF Entries
<1> HIDE DEF a
<1>2. m.stack \in Seq(Entries) /\ n.stack = << a >> \o m.stack
  BY DEF IsObject, a
<1>3. /\ Len(n.stack) = Len(m.stack) + 1 /\ n.stack[1] = a
      /\ \A i \in DOMAIN m.stack : n.stack[i + 1] = m.stack[i]
  BY <1>1, <1>2, PushOne
<1>4. /\ p \in Seq(Elements) /\ Len(p) = Len(o) + 1 /\ p[1] = t
      /\ \A i \in DOMAIN p : i # 1 => i - 1 \in DOMAIN o /\ p[i] = o[i - 1]
  BY PushOne
<1> HIDE DEF p
<1>5. /\ Len(m.stack) = Len(o) + 1 /\ Len(o) \in Nat
      /\ DOMAIN m.stack = 1 .. Len(o) + 1 /\ DOMAIN o = 1 .. Len(o)
      /\ DOMAIN p = 1 .. Len(o) + 1
  BY <1>2, <1>4 DEF Mirrors, StackIs
<1>6. ASSUME NEW i \in DOMAIN p, i # 1
      PROVE  /\ p[i] = o[i - 1] /\ n.stack[i] = m.stack[i - 1]
             /\ n.stack[i + 1] = m.stack[(i - 1) + 1] /\ i - 1 \in DOMAIN o
  <2>1. /\ i - 1 \in DOMAIN o /\ p[i] = o[i - 1] /\ i \in Nat
        /\ i \in DOMAIN m.stack /\ (i - 1) + 1 = i
    BY <1>4, <1>5, <1>6
  <2>2. i - 1 \in DOMAIN m.stack
    BY <1>5, <2>1
  <2>3. n.stack[(i - 1) + 1] = m.stack[i - 1] /\ n.stack[i + 1] = m.stack[i]
    BY <1>3, <2>1, <2>2
  <2>4. QED
    BY <2>1, <2>3
<1>7. n.stack[2] = m.stack[1] /\ 1 + 1 = 2
  BY <1>3, <1>5
<1>8. ASSUME NEW i \in DOMAIN p PROVE n.stack[i].tag = p[i]
  <2>1. CASE i = 1
    BY <1>1, <1>3, <1>4, <2>1
  <2>2. CASE i # 1
    BY <1>6, <2>2 DEF Mirrors, StackIs
  <2>3. QED
    BY <2>1, <2>2
<1>9. ASSUME NEW i \in DOMAIN p
      PROVE  IF p[i] \in Styled THEN n.stack[i].style \in StylesOf(p[i])
             ELSE n.stack[i].style = n.stack[i + 1].style
  <2>1. CASE i = 1
    BY <1>1, <1>3, <1>4, <1>7, <2>1 DEF Mirrors, StylesAre
  <2>2. CASE i # 1
    BY <1>6, <2>2 DEF Mirrors, StylesAre
  <2>3. QED
    BY <2>1, <2>2
<1>10. Len(p) + 1 = (Len(o) + 1) + 1 /\ Len(o) + 1 \in DOMAIN m.stack
  BY <1>4, <1>5
<1>11. n.stack[Len(p) + 1] = m.stack[Len(o) + 1]
  BY <1>3, <1>10
<1>12. StackIs(n, p)
  BY <1>3, <1>4, <1>5, <1>8, <1>11 DEF StackIs, Mirrors
<1>13. StylesAre(n, p)
  BY <1>1, <1>3, <1>9, <1>11 DEF StylesAre, Mirrors
<1>14. QED
  BY <1>12, <1>13 DEF Mirrors, p

LEMMA MirrorsPopped ==
  ASSUME NEW m, IsObject(m), NEW o \in Seq(Elements), o # << >>,
         Mirrors(m, o), NEW n, n.stack = Tail(m.stack),
         n.new_style = IF o[1] \in { "A", "TITLE" } THEN m.new_style
                       ELSE m.stack[2].style
  PROVE  Mirrors(n, Tail(o))
<1> DEFINE q == Tail(o)
<1>1. Len(o) \in Nat /\ Len(o) > 0 /\ 1 \in DOMAIN o
  OBVIOUS
<1>2. m.stack \in Seq(Entries) /\ Len(m.stack) = Len(o) + 1 /\ Len(m.stack) > 0
  BY <1>1 DEF Mirrors, StackIs, IsObject
<1>3. /\ n.stack \in Seq(Entries) /\ Len(n.stack) = Len(o)
      /\ \A i \in DOMAIN n.stack : n.stack[i] = m.stack[i + 1]
  BY <1>1, <1>2, PopOne
<1>4. /\ q \in Seq(Elements) /\ Len(q) = Len(o) - 1
      /\ \A i \in DOMAIN q : i + 1 \in DOMAIN o /\ q[i] = o[i + 1]
  BY <1>1, PopOne
<1> HIDE DEF q
<1>5. DOMAIN n.stack = 1 .. Len(o) /\ DOMAIN q = 1 .. Len(o) - 1
  BY <1>3, <1>4
<1>6. ASSUME NEW i \in DOMAIN q
      PROVE  /\ q[i] = o[i + 1] /\ i + 1 \in DOMAIN o
             /\ n.stack[i] = m.stack[i + 1]
             /\ n.stack[i + 1] = m.stack[(i + 1) + 1]
  <2>1. i \in DOMAIN n.stack /\ i + 1 \in DOMAIN n.stack
    BY <1>1, <1>5
  <2>2. QED
    BY <1>3, <1>4, <2>1
<1>7. Len(q) + 1 = Len(o) /\ Len(o) \in DOMAIN n.stack
  BY <1>1, <1>4, <1>5
<1>8. n.stack[Len(q) + 1] = m.stack[Len(o) + 1]
  BY <1>3, <1>7
<1>9. StackIs(n, q)
  <2>1. \A i \in DOMAIN q : n.stack[i].tag = q[i]
    BY <1>6 DEF Mirrors, StackIs
  <2>2. Len(n.stack) = Len(q) + 1
    BY <1>3, <1>7
  <2>3. QED
    BY <1>8, <2>1, <2>2 DEF Mirrors, StackIs
<1>10. n.new_style = n.stack[1].style
  <2>1. n.stack[1] = m.stack[2]
    <3>1. 1 \in DOMAIN n.stack /\ 1 + 1 = 2
      BY <1>1, <1>5
    <3>2. QED
      BY <1>3, <3>1
  <2>2. CASE o[1] \in { "A", "TITLE" }
    <3>1. o[1] \notin Styled
      BY <2>2, StyledElements
    <3>2. m.stack[1].style = m.stack[1 + 1].style /\ 1 + 1 = 2
      BY <1>1, <3>1 DEF Mirrors, StylesAre
    <3>3. QED
      BY <2>1, <2>2, <3>2 DEF Mirrors, StylesAre
  <2>3. CASE o[1] \notin { "A", "TITLE" }
    BY <2>1, <2>3
  <2>4. QED
    BY <2>2, <2>3
<1>11. \A i \in DOMAIN q :
         IF q[i] \in Styled THEN n.stack[i].style \in StylesOf(q[i])
         ELSE n.stack[i].style = n.stack[i + 1].style
  BY <1>6 DEF Mirrors, StylesAre
<1>12. StylesAre(n, q)
  BY <1>8, <1>10, <1>11 DEF StylesAre, Mirrors
<1>13. QED
  BY <1>9, <1>12 DEF Mirrors, q

LEMMA MirrorsKept ==
  ASSUME NEW m, NEW n, NEW o, Mirrors(m, o), n.stack = m.stack,
         n.new_style = m.new_style
  PROVE  Mirrors(n, o)
BY DEF Mirrors, StackIs, StylesAre

LEMMA MirrorsNew == Mirrors(HTML_new(""), << >>)
<1> DEFINE n == HTML_new("")
           o == << >>
<1>1. /\ Len(n.stack) = 1 /\ n.stack[1].tag = Bottom
      /\ n.stack[1].style = default_style /\ n.new_style = default_style
  BY NewWorks
<1> HIDE DEF n
<1>2. Len(o) = 0 /\ DOMAIN o = {} /\ Len(o) + 1 = 1
  BY NothingOpen
<1> HIDE DEF o
<1>3. Mirrors(n, o)
  BY <1>1, <1>2 DEF Mirrors, StackIs, StylesAre
<1>4. QED
  BY <1>3 DEF n, o

LEMMA EmptyHaveNoStyle ==
  ASSUME NEW t, contents(t) = "SGML_EMPTY"
  PROVE  t \notin Styled /\ t # "A"
BY DEF contents, EmptyElements, LiteralElements, CDataElements, Styled, styles

LEMMA StepNested ==
  ASSUME MaxDepth < MAX_NESTING, Inv, Nested, NEW c \in Calls, Step(c)
  PROVE  Nested'
<1> DEFINE m == [ me EXCEPT !.shown = Nothing ]
<1>1. Fresh(m)
  BY FreshObject DEF Step
<1>2. /\ me' = Handle(me, c) /\ Len(open') <= MaxDepth /\ Stream!Make(c)
      /\ open \in Seq(Elements) /\ Len(open) <= MaxDepth
  BY DEF Step, Inv, Fits, Stream!Make
<1>3. live = TRUE => Mirrors(m, open) /\ m.status = "alive" /\ IsObject(m)
  <2> HIDE DEF m
  <2>1. live = TRUE => me.status = "alive" /\ m.status = me.status
    BY <1>1 DEF Fresh
  <2>2. QED
    BY <1>1, <2>1, MirrorsKept DEF Nested, Fresh
<1>4. CASE Stream!PutCharacter(c) \/ Stream!PutEntity(c)
  <2>1. UNCHANGED << open, live >> /\ live = TRUE
    BY <1>4, <1>1 DEF Stream!PutCharacter, Stream!PutEntity, Inv, Fits, Fresh
  <2>2. \E ch : me' = HTML_put_character(m, ch)
    BY <1>2, <1>4 DEF Stream!PutCharacter, Stream!PutEntity, Handle,
       HTML_put_entity
  <2> HIDE DEF m
  <2>3. /\ Works(m) /\ TextFits(m, open) /\ m.shown.what = "nothing"
        /\ Len(m.stack) <= MAX_NESTING
    BY <1>1, <2>1 DEF Fresh
  <2>4. /\ Fits(me', open, TRUE, c) /\ me'.stack = m.stack
        /\ me'.new_style = m.new_style
    BY <1>2, <2>2, <2>3, PutStep
  <2>5. Mirrors(me', open')
    BY <1>3, <2>1, <2>4, MirrorsKept
  <2>6. me'.status # "stack underrun"
    <3>1. PICK ch : me' = HTML_put_character(m, ch)
      BY <2>2
    <3>2. Spares(m, me')
      BY <2>3, <3>1, PutCharacterKeeps DEF Works
    <3>3. QED
      BY <2>3, <3>2 DEF Spares, Keeps, Works
  <2>7. QED
    BY <2>5, <2>6 DEF Nested
<1>5. CASE Stream!StartElement(c)
  <2>1. /\ live' = live /\ live = TRUE /\ c.tag \in Elements
        /\ open' = IF contents(c.tag) = "SGML_EMPTY" THEN open
                   ELSE << c.tag >> \o open
        /\ c.op = "start_element"
    BY <1>1, <1>5, SameTables, Zenon DEF Stream!StartElement, Fresh, Inv, Fits
  <2>2. me' = HTML_start_element(m, c.tag, c.attrs)
    BY <1>2, <2>1 DEF Handle
  <2> HIDE DEF m
  <2>3. Works(m) /\ Len(m.stack) <= MAX_NESTING /\ Mirrors(m, open)
    BY <1>1, <1>3, <2>1 DEF Fresh
  <2>4. contents(c.tag) # "SGML_EMPTY" => Len(m.stack) # MAX_NESTING
    <3>1. ASSUME contents(c.tag) # "SGML_EMPTY" PROVE Len(m.stack) < MAX_NESTING
      <4>1. Len(open') = Len(open) + 1
        BY <1>2, <2>1, <3>1, PushOne
      <4>2. Len(m.stack) = Len(open) + 1 /\ Len(open) \in Nat
        BY <1>2, <2>3 DEF Mirrors, StackIs
      <4>3. QED
        BY <1>2, <4>1, <4>2, HTMLAssumption, DepthAssumption
    <3>2. QED
      BY <3>1, HTMLAssumption
  <2>5. \/ me' = [ m EXCEPT !.status = "null anchor" ]
        \/ /\ Works(me') /\ Begun(m, me', c.tag)
           /\ IF contents(c.tag) = "SGML_EMPTY" THEN me'.stack = m.stack
              ELSE me'.stack =
                     << [ style |-> me'.new_style, tag |-> c.tag ] >> \o m.stack
    BY <2>1, <2>2, <2>3, <2>4, StartElementWorks
  <2>6. CASE me' = [ m EXCEPT !.status = "null anchor" ]
    <3>1. me'.status = "null anchor"
      BY <2>3, <2>6, StatusOnly DEF Works, Statuses
    <3>2. QED
      BY <3>1 DEF Nested
  <2>7. CASE me' # [ m EXCEPT !.status = "null anchor" ]
    <3>1. /\ Works(me') /\ Begun(m, me', c.tag) /\ me'.new_style \in StyleNames
          /\ me'.status = "alive" /\ IsObject(m)
      BY <2>3, <2>5, <2>7 DEF Works, IsObject
    <3>2. CASE contents(c.tag) = "SGML_EMPTY"
      <4>1. me'.stack = m.stack /\ open' = open
        BY <2>1, <2>5, <2>7, <3>2
      <4>2. me'.new_style = m.new_style
        BY <3>1, <3>2, EmptyHaveNoStyle DEF Begun
      <4>3. QED
        BY <2>3, <3>1, <4>1, <4>2, MirrorsKept DEF Nested
    <3>3. CASE contents(c.tag) # "SGML_EMPTY"
      <4>1. /\ me'.stack =
                 << [ style |-> me'.new_style, tag |-> c.tag ] >> \o m.stack
            /\ open' = << c.tag >> \o open
        BY <2>1, <2>5, <2>7, <3>3
      <4>2. IF c.tag \in Styled THEN me'.new_style \in StylesOf(c.tag)
            ELSE me'.new_style = m.new_style
        BY <3>1 DEF Begun
      <4>3. Mirrors(me', open')
        BY <1>2, <2>1, <2>3, <3>1, <4>1, <4>2, MirrorsPushed
      <4>4. QED
        BY <3>1, <4>3 DEF Nested
    <3>4. QED
      BY <3>2, <3>3
  <2>8. QED
    BY <2>6, <2>7
<1>6. CASE Stream!EndElement(c)
  <2>1. /\ live' = live /\ live = TRUE /\ c.op = "end_element"
        /\ open # << >> /\ c.tag = open[1] /\ open' = Tail(open)
    BY <1>1, <1>6, Zenon DEF Stream!EndElement, Fresh, Inv, Fits
  <2>2. me' = HTML_end_element(m, open[1])
    BY <1>2, <2>1 DEF Handle
  <2> HIDE DEF m
  <2>3. /\ Works(m) /\ TextFits(m, open) /\ Mirrors(m, open) /\ IsObject(m)
    BY <1>1, <1>3, <2>1 DEF Fresh, Works
  <2>4. Len(m.stack) > 1
    <3>1. Len(m.stack) = Len(open) + 1 /\ Len(open) \in Nat /\ Len(open) > 0
      BY <1>2, <2>1, <2>3 DEF Mirrors, StackIs
    <3>2. QED
      BY <3>1
  <2>5. open[1] \in PreFormatted => m.text.made
    BY <1>2, <2>1, <2>3, Popped DEF TextFits
  <2>6. /\ Works(me') /\ me'.stack = Tail(m.stack)
        /\ Ended(m, me', open[1])
    BY <2>2, <2>3, <2>4, <2>5, EndElementWorks
  <2>7. me'.new_style = IF open[1] \in { "A", "TITLE" } THEN m.new_style
                        ELSE m.stack[2].style
    BY <2>6 DEF Ended
  <2>8. Mirrors(me', open')
    BY <1>2, <2>1, <2>3, <2>6, <2>7, MirrorsPopped
  <2>9. QED
    BY <2>6, <2>8 DEF Nested, Works
<1>7. CASE Stream!Close(c)
  <2>1. live = TRUE
    BY <1>1, <1>7 DEF Stream!Close, Fresh, Inv, Fits
  <2>2. me' \in { HTML_free(m), HTML_abort(m) }
    BY <1>2, <1>7 DEF Stream!Close, Handle
  <2> HIDE DEF m
  <2>3. Works(m) /\ IsObject(m)
    BY <1>1, <2>1 DEF Fresh
  <2>4. HTML_free(m).status = "freed"
    BY <2>3, FreeEnds
  <2>5. HTML_abort(m).status = "aborted"
    BY <2>3, StatusOnly DEF HTML_abort, Statuses
  <2>6. me'.status \in { "freed", "aborted" }
    BY <2>2, <2>4, <2>5
  <2>7. QED
    BY <2>6 DEF Nested
<1>8. CASE Stream!New(c)
  <2>1. ~ live /\ live' = TRUE /\ open' = open
    BY <1>8, Zenon DEF Stream!New
  <2>2. open = << >>
    BY <1>1, <2>1 DEF Inv, Fits, Fresh
  <2>3. me' = HTML_new("")
    BY <1>2, <1>8 DEF Stream!New, Handle
  <2>4. me'.status = "alive"
    BY <2>3, NewWorks DEF Works
  <2>5. QED
    BY <2>1, <2>2, <2>3, <2>4, MirrorsNew DEF Nested
<1>9. CASE c = Stream!Returned /\ UNCHANGED << open, live >>
  <2>1. me' = m
    BY <1>2, <1>9 DEF Stream!Returned, Handle
  <2> HIDE DEF m
  <2>2. me'.status = me.status /\ me'.stack = me.stack
        /\ me'.new_style = me.new_style
    BY <1>1, <2>1 DEF Fresh
  <2>3. QED
    BY <1>9, <2>2, MirrorsKept DEF Nested
<1>10. QED
  BY <1>2, <1>4, <1>5, <1>6, <1>7, <1>8, <1>9 DEF Stream!Make

LEMMA NestedInvariant ==
  ASSUME MaxDepth < MAX_NESTING
  PROVE  Spec => []Nested
<1>1. Init => Nested
  <2>1. HTML_new("").status = "alive"
    BY NewWorks DEF Works
  <2>2. QED
    BY <2>1, MirrorsNew DEF Init, Stream!Init, Nested
<1>2. Inv /\ Nested /\ [Next]_vars => Nested'
  <2>1. Nested /\ UNCHANGED vars => Nested'
    BY DEF Nested, vars
  <2>2. QED
    BY <2>1, StepNested DEF Next
<1>3. QED
  BY <1>1, <1>2, Invariant, PTL DEF Spec

-----------------------------------------------------------------------------
(* Whatever is started, ended and freed in whatever nesting, the object's  *)
(* style stack keeps an entry and never has more than MAX_NESTING, and no  *)
(* more anchors are ended in the text than were begun.                     *)
THEOREM ObjectTyped == Spec => []TypeOK
<1>1. Inv => TypeOK
  BY DEF Inv, Fits, TypeOK, IsObject, IsText, Statuses
<1>2. QED
  BY <1>1, Invariant, PTL

(* No routine ever writes to a text that has not been created, although    *)
(* most of them do not look, in documents nested beyond the stack neither. *)
THEOREM TextAlwaysExistsWhenUsed == Spec => []TextExistsWhenUsed
<1>1. Inv => TextExistsWhenUsed
  BY DEF Inv, Fits, TextExistsWhenUsed
<1>2. QED
  BY <1>1, Invariant, PTL

(* HTML.c changes the style of the text only when something is shown: what *)
(* is shown outside preformatted text is in the style due by then.         *)
THEOREM FreeTextAlwaysInStyleDue == Spec => []FreeTextInStyleDue
<1>1. Inv => FreeTextInStyleDue
  BY DEF Inv, Fits, ShownFits, DueShown, FreeTextInStyleDue
<1>2. QED
  BY <1>1, Invariant, PTL

(* HTML_end_element ends in the text the anchors its elements began, each  *)
(* once, however deeply and in whatever order the document nests them.     *)
THEOREM AnchorsAlwaysEndWithTheirElement == Spec => []AnchorsEndWithTheirElement
<1>1. Inv => AnchorsEndWithTheirElement
  BY DEF Inv, Fits, TextFits, Count, Anchors, AnchorsEndWithTheirElement
<1>2. QED
  BY <1>1, Invariant, PTL

(* HTML_free leaves a text behind, whatever the document held, and ends    *)
(* its appending.                                                          *)
THEOREM FreedDocumentAlwaysHasText == Spec => []FreedDocumentHasText
<1>1. Inv => FreedDocumentHasText
  BY DEF Inv, Fits, FreedDocumentHasText
<1>2. QED
  BY <1>1, Invariant, PTL

(* HTMLToC: characters outside every preformatted element always come out  *)
(* inside a C comment, however preformatted elements nest.                 *)
THEOREM PlainTextAlwaysCommentedOut == Spec => []PlainTextIsCommentedOut
<1>1. Inv => PlainTextIsCommentedOut
  BY DEF Inv, Fits, ShownFits, PreOpen, PlainTextIsCommentedOut
<1>2. QED
  BY <1>1, Invariant, PTL

-----------------------------------------------------------------------------
(* HTML.c trusts the parser to nest elements properly and drops its own    *)
(* check.  If documents nest less deeply than the stack is high, whatever  *)
(* that height, each end tag pops the entry its element pushed.            *)
THEOREM StackAlwaysMatchesElements ==
  ASSUME MaxDepth < MAX_NESTING
  PROVE  Spec => []StackMatchesElements
<1>1. Inv /\ Nested => StackMatchesElements
  BY DEF Inv, Fits, Nested, Mirrors, StackMatchesElements, StackIs
<1>2. QED
  BY <1>1, Invariant, NestedInvariant, PTL

(* Under the same condition the bottom entry is never popped.              *)
THEOREM NestingAlwaysStaysInStack ==
  ASSUME MaxDepth < MAX_NESTING
  PROVE  Spec => []NestingStaysInStack
<1>1. Nested => NestingStaysInStack
  BY DEF Nested, NestingStaysInStack
<1>2. QED
  BY <1>1, NestedInvariant, PTL

LEMMA Least ==
  ASSUME NEW T \in SUBSET Nat, T # {}
  PROVE  \E x \in T : \A y \in T : x <= y
<1> DEFINE R == OpToRel(<, Nat)
<1>1. IsWellFoundedOn(R, Nat)
  BY NatLessThanWellFounded, Zenon
<1>2. \A x, y \in Nat : x < y => << x, y >> \in R
  BY DEF OpToRel
<1> HIDE DEF R
<1>3. PICK x \in T : \A y \in T : ~ (<< y, x >> \in R)
  BY <1>1, WFMin
<1>4. ASSUME NEW y \in T
      PROVE  x <= y
  <2>1. ~ (y < x)
    BY <1>2, <1>3
  <2>2. QED
    BY <2>1
<1>5. QED
  BY <1>4

(* The style on top of the stack is that of each entry down to the first   *)
(* whose element has a style.                                              *)
LEMMA StyleOnTop ==
  ASSUME NEW m, NEW o \in Seq(Elements), Mirrors(m, o),
         NEW j \in 1 .. Len(o) + 1, \A i \in 1 .. j - 1 : o[i] \notin Styled
  PROVE  m.new_style = m.stack[j].style
<1> DEFINE T == { k \in 1 .. j : m.stack[k].style # m.new_style }
<1>1. SUFFICES ASSUME T # {} PROVE FALSE
  BY DEF Mirrors, StylesAre
<1>2. T \in SUBSET Nat
  OBVIOUS
<1> HIDE DEF T
<1>3. PICK k \in T : \A y \in T : k <= y
  BY <1>1, <1>2, Least
<1>4. k \in 1 .. j /\ m.stack[k].style # m.new_style
  BY <1>3 DEF T
<1>5. k # 1
  BY <1>4 DEF Mirrors, StylesAre
<1>6. /\ k - 1 \in 1 .. j /\ k - 1 \in 1 .. j - 1 /\ ~ (k <= k - 1)
      /\ k - 1 \in DOMAIN o /\ (k - 1) + 1 = k
  BY <1>4, <1>5
<1>7. k - 1 \notin T
  BY <1>3, <1>6
<1>8. m.stack[k - 1].style = m.new_style
  BY <1>6, <1>7 DEF T
<1>9. m.stack[k - 1].style = m.stack[k].style
  BY <1>6 DEF Mirrors, StylesAre
<1>10. QED
  BY <1>4, <1>8, <1>9

(* The comment of HTML.c, "the style must be returned to that in effect    *)
(* before that element", kept by popping one entry at a time: with         *)
(* documents nested less deeply than the stack is high, the style wanted   *)
(* is at all times that of the innermost open element that has one.        *)
THEOREM StyleAlwaysOfInnermostElement ==
  ASSUME MaxDepth < MAX_NESTING
  PROVE  Spec => []StyleIsOfInnermostElement
<1>1. ASSUME Inv, Nested, me.status = "alive"
      PROVE  /\ me.new_style = sp(me).style
             /\ \/ /\ me.new_style = default_style
                   /\ \A i \in DOMAIN open : open[i] \notin Styled
                \/ \E i \in DOMAIN open :
                     /\ open[i] \in Styled /\ me.new_style \in StylesOf(open[i])
                     /\ \A j \in 1 .. i - 1 : open[j] \notin Styled
  <2> DEFINE I == { i \in DOMAIN open : open[i] \in Styled }
  <2>1. open \in Seq(Elements) /\ Mirrors(me, open)
    BY <1>1 DEF Inv, Fits, Nested
  <2>2. DOMAIN open = 1 .. Len(open) /\ Len(open) \in Nat
    BY <2>1
  <2>3. CASE I = {}
    <3>1. \A i \in DOMAIN open : open[i] \notin Styled
      BY <2>3
    <3>2. /\ Len(open) + 1 \in 1 .. Len(open) + 1
          /\ \A i \in 1 .. (Len(open) + 1) - 1 : open[i] \notin Styled
      BY <2>2, <3>1
    <3>3. me.new_style = me.stack[Len(open) + 1].style
      BY <2>1, <3>2, StyleOnTop
    <3>4. QED
      BY <2>1, <3>1, <3>3 DEF Mirrors, StylesAre, sp
  <2>4. CASE I # {}
    <3>1. I \in SUBSET Nat
      BY <2>2
    <3> HIDE DEF I
    <3>2. PICK i \in I : \A y \in I : i <= y
      BY <2>4, <3>1, Least
    <3>3. /\ i \in DOMAIN open /\ i \in 1 .. Len(open) + 1
          /\ open[i] \in Styled
      BY <2>2, <3>2 DEF I
    <3>4. ASSUME NEW j \in 1 .. i - 1 PROVE open[j] \notin Styled
      <4>1. j \in DOMAIN open /\ ~ (i <= j)
        BY <2>2, <3>3
      <4>2. QED
        BY <3>2, <4>1 DEF I
    <3>5. me.new_style = me.stack[i].style
      BY <2>1, <3>3, <3>4, StyleOnTop
    <3>6. me.new_style \in StylesOf(open[i])
      BY <2>1, <3>3, <3>5 DEF Mirrors, StylesAre
    <3>7. QED
      BY <2>1, <3>3, <3>4, <3>6 DEF Mirrors, StylesAre, sp
  <2>5. QED
    BY <2>3, <2>4
<1>2. Inv /\ Nested => StyleIsOfInnermostElement
  BY <1>1 DEF StyleIsOfInnermostElement
<1>3. QED
  BY <1>2, Invariant, NestedInvariant, PTL

=============================================================================
