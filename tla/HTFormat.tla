-------------------------------- MODULE HTFormat --------------------------------
(***************************************************************************)
(* The table of conversions between formats and what is made of it         *)
(* (HTFormat.c, HTInit.c): setting up a stream stack, the value of one,    *)
(* and the stream that turns the line ends of the net into those of C.     *)
(*                                                                         *)
(* A format is the name of its atom, without what HTAtom_for adds.  A      *)
(* conversion leads from `rep' to `rep_out' by a `converter', which is the *)
(* class of the stream it makes.                                           *)
(***************************************************************************)
EXTENDS HTList, SequencesExt

VARIABLES
  HTPresentations,        \* the list of conversions, NULL until it is made
  default_presentation    \* the one defined for "*"; nothing ever asks for it

formats == << HTPresentations, default_presentation >>

Mime    == "www/mime"
Source  == "www/source"
Present == "www/present"
Html    == "text/html"
Plain   == "text/plain"
Wais    == "application/x-wais-source"
Wildcard     == "*"

Conversion(rep, rep_out, converter) ==
  [ rep |-> rep, rep_out |-> rep_out, converter |-> converter ]

NoConversion == Conversion("none", "none", "none")

(* What the library itself can do, the latest on top as HTFormatInit       *)
(* leaves it.  A viewer is run by SaveAndExecute where the display is X11. *)
Library ==
  << Conversion(Source, Present, "SaveLocally"),
     Conversion("www/unknown", Present, "SaveLocally"),
     Conversion("application/octet-stream", Present, "SaveLocally"),
     Conversion(Plain, Present, "HTPlain"),
     Conversion(Plain, Html, "PlainToHTML"),
     Conversion(Html, Present, "HTMLPresent"),
     Conversion(Html, Plain, "HTMLToPlain"),
     Conversion(Html, "text/x-c", "HTMLToC"),
     Conversion(Wais, Wildcard, "WSRCParser"),
     Conversion(Mime, Wildcard, "MIMEParser"),
     Conversion("image/gif", Present, "SaveAndExecute"),
     Conversion("application/postscript", Present, "SaveAndExecute") >>

Formats == { Library[i].rep : i \in DOMAIN Library }

(* The list that is there, or else the new one that is made. *)
TheList == IF HTPresentations = NULL THEN << >> ELSE HTPresentations

HTFormatInit == Library \o TheList

(* A client may define its own, before or after.  One for any format goes  *)
(* elsewhere, but the list is made for it all the same.                    *)
HTSetConversion(conversion) ==
  IF conversion.rep = Wildcard
  THEN HTPresentations' = TheList /\ default_presentation' = conversion
  ELSE /\ HTPresentations' = HTList_addObject(TheList, conversion)
       /\ UNCHANGED default_presentation

HTSetPresentation(rep) ==
  HTSetConversion(Conversion(rep, Present, "SaveAndExecute"))

(* The library's own are set up on first use, if no list was made by then: *)
(* an empty one stays empty.                                               *)
Presentations == IF HTPresentations = NULL THEN HTFormatInit ELSE HTPresentations

InitialFormats ==
  HTPresentations = NULL /\ default_presentation = NoConversion

----------------------------------------------------------------------------

Trivial(rep_in, rep_out) == rep_out \in { Source, rep_in }

(* Where the list leads from the one format to the other.                  *)
From(list, rep, rep_out) ==
  { i \in DOMAIN list : list[i].rep = rep /\ list[i].rep_out = rep_out }

(* HTStreamStack: the latest exact conversion, or the earliest to          *)
(* anything, or the earliest from any source: a later match of these       *)
(* replaces one before it.  It is told the formats it is used for.         *)
HTStreamStack(list, rep_in, rep_out) ==
  LET exact    == From(list, rep_in, rep_out)
      wildcard == From(list, rep_in, Wildcard)
      source   == From(list, Source, rep_out)
      match    == IF wildcard # {} THEN wildcard
                  ELSE IF source # {} THEN source ELSE From(list, Source, Wildcard)
  IN  IF exact # {} THEN list[Min(exact)].converter
      ELSE IF match # {} THEN list[Max(match)].converter ELSE "none"

(* HTStackValue: the conversion whose cost is given, the latest that is    *)
(* exact or to anything; "none" is very bad.                               *)
HTStackValue(list, rep_in, rep_out) ==
  LET priced == From(list, rep_in, rep_out) \cup From(list, rep_in, Wildcard)
  IN  IF priced # {} THEN list[Min(priced)].converter ELSE "none"

----------------------------------------------------------------------------

(* Characters of a text: these two, the others by number.                  *)
CR == -1
LF == 0

(* What of a character reaches the streams of a textual format.            *)
HTCopyNoCR(c) == IF c = CR THEN << >> ELSE << c >>

(* NetToText, by whether the last character was a return: what it passes   *)
(* on for the next one.  A return at the very end is held for ever.        *)
NetToText_put_character_once(had_cr, c) ==
  [ had_cr |-> ~ had_cr /\ c = CR,
    passed |-> CASE had_cr /\ c = LF -> << LF >>
                 [] had_cr /\ c = CR -> << CR >>
                 [] had_cr /\ c \notin { CR, LF } -> << CR, c >>
                 [] ~ had_cr /\ c = CR -> << >>
                 [] OTHER            -> << c >> ]

NetToText_put_character(had_cr, c) ==
  [ had_cr |-> c = CR,
    passed |-> CASE had_cr /\ c = LF -> << LF >>
                 [] had_cr /\ c = CR -> << CR >>
                 [] had_cr /\ c \notin { CR, LF } -> << CR, c >>
                 [] ~ had_cr /\ c = CR -> << >>
                 [] OTHER            -> << c >> ]

=============================================================================
