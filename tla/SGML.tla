--------------------------------- MODULE SGML ---------------------------------
(***************************************************************************)
(* The SGML parser of SGML.c: a state machine called once per character,   *)
(* which turns markup into calls on a structured object (HTStructured).    *)
(*                                                                         *)
(* A character of the model is a punctuation mark, a white character, or a *)
(* whole run of alphanumeric characters (a word): the parser treats the    *)
(* characters of such a run alike.                                         *)
(*                                                                         *)
(* The calls a character causes are queued in `calls' and made one at a    *)
(* time; the parser takes no character in between, as the calls of the     *)
(* code are synchronous.  Who receives them is left to the module that     *)
(* composes the parser with its target.                                    *)
(***************************************************************************)
EXTENDS HTMLDTD, SequencesExt

CONSTANTS
  Input,         \* the characters documents are made of
  Entities,      \* the words that name an entity of the DTD
  MaxDepth       \* bound: a document nests its elements no deeper than this

White       == { " ", "\n" }
Punctuation == White \cup { "<", ">", "/", "=", "'", "\"", "&", "#" }

ASSUME SGMLAssumption ==
  /\ Entities \cap Punctuation = {}
  /\ MaxDepth \in Nat

VARIABLES
  state,           \* enum sgml_state, or "none" when there is no parser
  string,          \* the word being accumulated, as a sequence
  element_stack,   \* the open elements, innermost first
  current_tag,     \* the tag being read
  current_attribute_number,
  present, value,  \* what start_element will be told of the attributes
  calls,           \* calls on the target still to be made
  given            \* history: the attributes the tag being read names, each
                   \* with the value the tag gave it last

parserVars == << state, string, element_stack, current_tag,
                 current_attribute_number, present, value, given >>

isalnum(c)  == c \notin Punctuation
HT_WHITE(c) == c \in White

(* Attribute lists are at most seven names long, so of the MAX_ATTRIBUTES  *)
(* slots the parser has these are the ones in use.                         *)
Slots == 0 .. 6
NULL  == "NULL"

NoAttributes == [ a \in {} |-> NULL ]

(* SGML_new does not initialize `present': whatever its memory held, here  *)
(* all clear or all set.                                                   *)
Uninitialized == { [ i \in Slots |-> b ] : b \in BOOLEAN }

Init ==
  /\ state = "S_text" /\ string = << >> /\ element_stack = << >>
  /\ current_tag = NULL /\ current_attribute_number = INVALID
  /\ present \in Uninitialized
  /\ value = [ i \in Slots |-> NULL ]
  /\ calls = << >> /\ given = NoAttributes

-----------------------------------------------------------------------------
(* Outside literal elements only the first word of `string' matters: a     *)
(* longer string is no name of the DTD.                                    *)
Longer     == << "other" >>
Putc(s, c) == IF s = << >> THEN << c >> ELSE Longer
Word(s)    == IF s = << >> THEN "" ELSE s[1]

put_character(c) == [ op |-> "put_character", c |-> c ]
Text(s)          == [ i \in DOMAIN s |-> put_character(s[i]) ]

(* Slip: a tag name is not compared with the table. *)
find_any_tag(s) == s # << >>
find_tag(s)     == Word(s) \in KnownTags

(* What was taken for the end of a literal element is text again.  Slip:   *)
(* the '<' it began with is forgotten.                                     *)
RecoveredShort(s) == Text(s)
Recovered(s)      == Text(<< "<" >> \o s)

Innermost == IF element_stack = << >> THEN "SGML_MIXED"
             ELSE contents(element_stack[1])

(* end_element pops down to the element that is ended.  If none of that    *)
(* name is open it still pops all elements but the outermost, each taken   *)
(* for a missing end tag, and then ignores the tag.                        *)
PoppedBy(tag) ==
  IF contents(tag) = "SGML_EMPTY" \/ element_stack = << >> THEN 0
  ELSE IF tag \in Range(element_stack)
       THEN CHOOSE k \in DOMAIN element_stack :
              /\ element_stack[k] = tag
              /\ \A j \in 1 .. k - 1 : element_stack[j] # tag
       ELSE Len(element_stack) - 1

(* Slips: the tag named ends last and silently; every pop is reported      *)
(* under the name of the end tag.                                          *)
end_element_silently(tag) ==
  LET n == PoppedBy(tag)
  IN  /\ element_stack' = SubSeq(element_stack, n + 1, Len(element_stack))
      /\ calls' = [ k \in 1 .. n - 1 |->
                      [ op |-> "end_element", tag |-> element_stack[k] ] ]

end_element_by_name(tag) ==
  LET n == PoppedBy(tag)
  IN  /\ element_stack' = SubSeq(element_stack, n + 1, Len(element_stack))
      /\ calls' = [ k \in 1 .. n |-> [ op |-> "end_element", tag |-> tag ] ]

end_element(tag) ==
  LET n == PoppedBy(tag)
  IN  /\ element_stack' = SubSeq(element_stack, n + 1, Len(element_stack))
      /\ calls' = [ k \in 1 .. n |->
                      [ op |-> "end_element", tag |-> element_stack[k] ] ]

(* start_element is given the attribute arrays of the tag just completed.  *)
start_element(tag, pres, val) ==
  LET named == { a \in Attributes(tag) :
                   LET i == AttributeNumber[tag][a] IN i # INVALID /\ pres[i] }
  IN  /\ calls' = << [ op |-> "start_element", tag |-> tag,
                       attrs |-> [ a \in named |->
                                     val[AttributeNumber[tag][a]] ] ] >>
      /\ IF contents(tag) = "SGML_EMPTY"
         THEN UNCHANGED element_stack
         ELSE /\ Len(element_stack) < MaxDepth
              /\ element_stack' = << tag >> \o element_stack

-----------------------------------------------------------------------------
(* One action per state of the parser; c is the character it is called     *)
(* with.  NoCall: the character causes no call on the target.              *)
NoCall == UNCHANGED << calls, element_stack >>

KeepTag == UNCHANGED << current_tag, current_attribute_number, present, value,
                        given >>

S_text(c) ==
  /\ state = "S_text"
  /\ \/ /\ c = "&" /\ Innermost \in { "SGML_MIXED", "SGML_RCDATA" }
        /\ state' = "S_ero" /\ string' = << >> /\ NoCall
     \/ /\ c = "<"
        /\ state' = IF Innermost = "SGML_LITERAL" THEN "S_literal" ELSE "S_tag"
        /\ string' = << >> /\ NoCall
     \/ /\ ~ (c = "&" /\ Innermost \in { "SGML_MIXED", "SGML_RCDATA" })
        /\ c # "<"
        /\ calls' = Text(<< c >>)
        /\ UNCHANGED << state, string, element_stack >>
  /\ KeepTag

(* The end tag of the literal element is matched a character at a time.    *)
(* On a mismatch what was read is recovered as text; but a '>' ends the    *)
(* element whenever name[size - 2] is a zero byte.  For "<>" that index is *)
(* -1, and the byte before the name may be anything.  (A word that is the  *)
(* beginning of the tag's name would be matched with it: an instance has   *)
(* no such word.)                                                          *)
S_literal(c) ==
  LET tag == element_stack[1]
      s   == Append(string, c)
      end == << "/", tag, ">" >>
  IN  /\ state = "S_literal"
      /\ \/ /\ s \in { << "/" >>, << "/", tag >> }
            /\ string' = s
            /\ NoCall
            /\ UNCHANGED << state, current_attribute_number >>
         \/ /\ s \in { end, << ">" >> }
            /\ end_element(tag)
            /\ string' = << >> /\ state' = "S_text"
            /\ current_attribute_number' = INVALID
         \/ /\ s \notin { << "/" >>, << "/", tag >>, end }
            /\ calls' = Recovered(s)
            /\ string' = Longer /\ state' = "S_text"
            /\ UNCHANGED << element_stack, current_attribute_number >>
      /\ UNCHANGED << current_tag, present, value, given >>

(* handle_entity: an unknown entity is text again, its terminator too. *)
handle_entity(s, c) ==
  calls' = IF Word(s) \in Entities
           THEN << [ op |-> "put_entity", entity |-> Word(s) ] >>
           ELSE Text(<< "&" >> \o s \o << c >>)

S_entity(c) ==
  /\ state \in { "S_ero", "S_entity" }
  /\ ~ (state = "S_ero" /\ c = "#")
  /\ IF isalnum(c)
     THEN state' = "S_entity" /\ string' = Putc(string, c) /\ UNCHANGED calls
     ELSE state' = "S_text" /\ handle_entity(string, c) /\ UNCHANGED string
  /\ UNCHANGED element_stack /\ KeepTag

S_ero(c) ==
  /\ state = "S_ero" /\ c = "#"
  /\ state' = "S_cro"
  /\ UNCHANGED string /\ NoCall /\ KeepTag

(* A character reference whose word is a number is one character of text;  *)
(* one that is not, and the terminator of either, vanish.                  *)
S_cro(c) ==
  /\ state = "S_cro"
  /\ IF isalnum(c)
     THEN string' = Putc(string, c) /\ UNCHANGED << state, calls >>
     ELSE /\ state' = "S_text" /\ UNCHANGED string
          /\ \/ calls' = << >>
             \/ string # << >> /\ calls' = Text(<< "chr" >>)
  /\ UNCHANGED element_stack /\ KeepTag

-----------------------------------------------------------------------------
(* '>' completes the tag being read: the element starts with the given     *)
(* attribute arrays.                                                       *)
Complete(pres, val) == start_element(current_tag, pres, val) /\ state' = "S_text"

(* A '/' turns the tag into an end tag and keeps the word read so far.  A  *)
(* word that names no element is skipped with everything up to '>'.        *)
S_tag(c) ==
  /\ state = "S_tag"
  /\ \/ /\ isalnum(c)
        /\ string' = Putc(string, c)
        /\ UNCHANGED state /\ NoCall /\ KeepTag
     \/ /\ c = "/"
        /\ state' = "S_end"
        /\ UNCHANGED string /\ NoCall /\ KeepTag
     \/ /\ ~ isalnum(c) /\ c # "/" /\ ~ find_tag(string)
        /\ state' = IF c = ">" THEN "S_text" ELSE "S_junk_tag"
        /\ UNCHANGED string /\ NoCall /\ KeepTag
     \/ /\ ~ isalnum(c) /\ c # "/" /\ find_tag(string)
        /\ LET tag     == Word(string)
               cleared == [ i \in Slots |->
                              present[i] /\ i >= Len(attributes(tag)) ]
           IN  /\ current_tag' = tag
               /\ present' = cleared
               /\ IF c = ">"
                  THEN start_element(tag, cleared, value) /\ state' = "S_text"
                  ELSE state' = "S_tag_gap" /\ NoCall
        /\ string' = << >> /\ current_attribute_number' = INVALID
        /\ given' = NoAttributes
        /\ UNCHANGED value

(* S_tag_gap expects an attribute or '>', S_attr_gap also '='. *)
S_gap(c) ==
  /\ state \in { "S_tag_gap", "S_attr_gap" }
  /\ \/ HT_WHITE(c) /\ UNCHANGED << state, string >> /\ NoCall
     \/ c = ">" /\ Complete(present, value) /\ UNCHANGED string
     \/ /\ c = "=" /\ state = "S_attr_gap"
        /\ state' = "S_equals"
        /\ UNCHANGED string /\ NoCall
     \/ /\ ~ HT_WHITE(c) /\ c # ">" /\ ~ (c = "=" /\ state = "S_attr_gap")
        /\ state' = "S_attr" /\ string' = Putc(string, c)
        /\ NoCall
  /\ KeepTag

(* The tag has named the attribute, without a value so far. *)
WithoutValue(name) ==
  [ a \in DOMAIN given \cup { name } |-> IF a = name THEN NULL ELSE given[a] ]

(* handle_attribute_name: a known attribute becomes present, and loses the *)
(* value an earlier tag, or the same one, has left in its slot.            *)
(* Slip: the value is kept. *)
handle_attribute_name_keeping(name) ==
  LET i == IF name \in Names THEN AttributeNumber[current_tag][name]
           ELSE INVALID
  IN  /\ current_attribute_number' = i
      /\ present' = IF i = INVALID THEN present
                    ELSE [ present EXCEPT ![i] = TRUE ]
      /\ given' = IF i = INVALID THEN given ELSE WithoutValue(name)
      /\ UNCHANGED value

handle_attribute_name(name) ==
  LET i == IF name \in Names THEN AttributeNumber[current_tag][name]
           ELSE INVALID
  IN  /\ current_attribute_number' = i
      /\ IF i = INVALID
         THEN UNCHANGED << present, value, given >>
         ELSE /\ present' = [ present EXCEPT ![i] = TRUE ]
              /\ value'   = [ value EXCEPT ![i] = NULL ]
              /\ given'   = WithoutValue(name)

S_attr(c) ==
  /\ state = "S_attr"
  /\ IF HT_WHITE(c) \/ c \in { ">", "=" }
     THEN /\ handle_attribute_name(Word(string))
          /\ string' = << >>
          /\ \/ /\ c = ">"
                /\ start_element(current_tag, present', value')
                /\ state' = "S_text"
             \/ /\ c # ">"
                /\ state' = IF c = "=" THEN "S_equals" ELSE "S_attr_gap"
                /\ NoCall
          /\ UNCHANGED current_tag
     ELSE string' = Putc(string, c) /\ UNCHANGED state /\ NoCall /\ KeepTag

S_equals(c) ==
  /\ state = "S_equals"
  /\ \/ HT_WHITE(c) /\ UNCHANGED << state, string >> /\ NoCall
     \/ c = ">" /\ Complete(present, value) /\ UNCHANGED string
     \/ /\ c \in { "'", "\"" }
        /\ state' = IF c = "'" THEN "S_squoted" ELSE "S_dquoted"
        /\ UNCHANGED string /\ NoCall
     \/ /\ ~ HT_WHITE(c) /\ c \notin { ">", "'", "\"" }
        /\ state' = "S_value" /\ string' = Putc(string, c)
        /\ NoCall
  /\ KeepTag

(* handle_attribute_value: the value goes to the attribute named last, if  *)
(* it is a known one and has none yet.                                     *)
handle_attribute_value(s) ==
  LET i == current_attribute_number
  IN  /\ IF i = INVALID
         THEN UNCHANGED << value, given >>
         ELSE /\ value' = [ value EXCEPT ![i] = Word(s) ]
              /\ given' = [ given EXCEPT ![attributes(current_tag)[i + 1]] = Word(s) ]
      /\ current_attribute_number' = INVALID

S_value(c) ==
  /\ state = "S_value"
  /\ IF HT_WHITE(c) \/ c = ">"
     THEN /\ handle_attribute_value(string)
          /\ string' = << >>
          /\ \/ /\ c = ">"
                /\ start_element(current_tag, present, value')
                /\ state' = "S_text"
             \/ c # ">" /\ state' = "S_tag_gap" /\ NoCall
          /\ UNCHANGED << current_tag, present >>
     ELSE string' = Putc(string, c) /\ UNCHANGED state /\ NoCall /\ KeepTag

S_quoted(c) ==
  /\ state \in { "S_squoted", "S_dquoted" }
  /\ IF c = (IF state = "S_squoted" THEN "'" ELSE "\"")
     THEN /\ handle_attribute_value(string)
          /\ string' = << >> /\ state' = "S_tag_gap"
          /\ UNCHANGED << current_tag, present >>
     ELSE string' = Putc(string, c) /\ UNCHANGED state /\ KeepTag
  /\ NoCall

(* The end of an end tag.  An empty one, "</>", ends the innermost         *)
(* element; with no element open the parser reads through a null pointer.  *)
S_end(c) ==
  /\ state = "S_end"
  /\ IF isalnum(c)
     THEN string' = Putc(string, c) /\ UNCHANGED state /\ NoCall /\ KeepTag
     ELSE /\ \/ /\ string = << >> /\ element_stack = << >>
                /\ state' = "crashed"
                /\ NoCall /\ UNCHANGED current_tag
             \/ /\ ~ (string = << >> /\ element_stack = << >>)
                /\ LET t == IF string = << >> THEN element_stack[1]
                            ELSE Word(string)
                   IN  IF string = << >> \/ find_tag(string)
                       THEN current_tag' = t /\ end_element(t)
                       ELSE NoCall /\ UNCHANGED current_tag
                /\ state' = IF c = ">" THEN "S_text" ELSE "S_junk_tag"
          /\ string' = << >> /\ current_attribute_number' = INVALID
          /\ UNCHANGED << present, value, given >>

S_junk_tag(c) ==
  /\ state = "S_junk_tag"
  /\ state' = IF c = ">" THEN "S_text" ELSE "S_junk_tag"
  /\ UNCHANGED string /\ NoCall /\ KeepTag

SGML_character(c) ==
  /\ calls = << >>
  /\ \/ S_text(c)  \/ S_literal(c) \/ S_ero(c)  \/ S_entity(c) \/ S_cro(c)
     \/ S_tag(c)   \/ S_gap(c)     \/ S_attr(c) \/ S_equals(c) \/ S_value(c)
     \/ S_quoted(c) \/ S_end(c)    \/ S_junk_tag(c)

-----------------------------------------------------------------------------
(* The end of the stream, regular or not.  Elements still open are not     *)
(* ended: the target only hears of the end itself.                         *)
SGML_free ==
  /\ calls = << >> /\ state \notin { "none", "crashed" }
  /\ calls' = << [ op |-> "free" ] >>
  /\ state' = "none"
  /\ UNCHANGED << string, element_stack >> /\ KeepTag

SGML_abort ==
  /\ calls = << >> /\ state \notin { "none", "crashed" }
  /\ calls' = << [ op |-> "abort" ] >>
  /\ state' = "none"
  /\ UNCHANGED << string, element_stack >> /\ KeepTag

(* The next document is parsed by a new parser. *)
SGML_new ==
  /\ calls = << >> /\ state = "none"
  /\ state' = "S_text" /\ string' = << >> /\ element_stack' = << >>
  /\ current_tag' = NULL /\ current_attribute_number' = INVALID
  /\ present' \in Uninitialized
  /\ value' = [ i \in Slots |-> NULL ]
  /\ given' = NoAttributes
  /\ UNCHANGED calls

=============================================================================
