------------------------------- MODULE HTMLDTD -------------------------------
(***************************************************************************)
(* The document type the library parses with: the element table, its       *)
(* content types and its attribute lists (HTMLDTD.c).  The tables keep the *)
(* order they have in the source, because the parser searches them by      *)
(* bisection and never looks at the order itself.                          *)
(***************************************************************************)
EXTENDS Integers, Sequences

no_attr       == << >>
a_attr        == << "HREF", "NAME", "REL", "REV", "TITLE", "TYPE", "URN" >>
img_attr      == << "SRC", "ISMAP" >>
list_attr     == << "COMPACT" >>
glossary_attr == << "COMPACT" >>
nextid_attr   == << "N" >>

tags == << "A", "ADDRESS", "B", "BLOCKQUOTE", "BODY", "CITE", "CODE",
           "COMMENT", "DD", "DFN", "DIR", "DL", "DLC", "DT", "EM", "HEAD",
           "H1", "H2", "H3", "H4", "H5", "H6", "H7", "HTML", "I", "IMG",
           "ISINDEX", "KBD", "LI", "LINK", "LISTING", "MENU", "NEXTID", "OL",
           "P", "PLAINTEXT", "PRE", "SAMP", "STRONG", "TITLE", "TT", "U",
           "UL", "VAR", "XMP" >>

Elements == { tags[i] : i \in DOMAIN tags }

(* The "content" column of the table; SGML_RCDATA and SGML_ELEMENT are     *)
(* content types no element of this DTD has.                               *)
EmptyElements   == { "DD", "DT", "IMG", "ISINDEX", "LI", "LINK", "NEXTID", "P" }
LiteralElements == { "LISTING", "PLAINTEXT", "XMP" }
CDataElements   == { "TITLE" }

contents(t) ==
  CASE t \in EmptyElements   -> "SGML_EMPTY"
    [] t \in LiteralElements -> "SGML_LITERAL"
    [] t \in CDataElements   -> "SGML_CDATA"
    [] OTHER                 -> "SGML_MIXED"

attributes(t) ==
  CASE t \in { "A", "LINK" }               -> a_attr
    [] t = "IMG"                           -> img_attr
    [] t \in { "DIR", "LI", "MENU", "OL", "UL" } -> list_attr
    [] t \in { "DL", "DLC" }               -> glossary_attr
    [] t = "NEXTID"                        -> nextid_attr
    [] OTHER                               -> no_attr

-----------------------------------------------------------------------------
(* The names of the tables in the order of strcasecomp, which compares     *)
(* lower-case letters: a digit sorts before every letter.                  *)
Alphabetical ==
  << "A", "ADDRESS", "B", "BLOCKQUOTE", "BODY", "CITE", "CODE", "COMMENT",
     "COMPACT", "DD", "DFN", "DIR", "DL", "DLC", "DT", "EM", "H1", "H2", "H3",
     "H4", "H5", "H6", "H7", "HEAD", "HREF", "HTML", "I", "IMG", "ISINDEX",
     "ISMAP", "KBD", "LI", "LINK", "LISTING", "MENU", "N", "NAME", "NEXTID",
     "OL", "P", "PLAINTEXT", "PRE", "REL", "REV", "SAMP", "SRC", "STRONG",
     "TITLE", "TT", "TYPE", "U", "UL", "URN", "VAR", "XMP" >>

Names == { Alphabetical[i] : i \in DOMAIN Alphabetical }

strcasecomp(a, b) ==
  LET rank(x) == CHOOSE i \in DOMAIN Alphabetical : Alphabetical[i] = x
  IN  rank(a) - rank(b)

INVALID == -1

(* The index of a name in a table of names, as the bisection finds it, or  *)
(* INVALID; module SGMLLookup studies that loop.                           *)
Lookup(table, name) ==
  LET search[bounds \in (0 .. Len(table)) \X (0 .. Len(table))] ==
        LET low  == bounds[1]
            high == bounds[2]
            i    == low + (high - low) \div 2
            diff == strcasecomp(table[i + 1], name)
        IN  IF high <= low THEN INVALID
            ELSE IF diff = 0 THEN i
            ELSE IF diff < 0 THEN search[<< i + 1, high >>]
            ELSE search[<< low, i >>]
  IN  IF name \in Names THEN search[<< 0, Len(table) >>] ELSE INVALID

Attributes(t) == { attributes(t)[i] : i \in DOMAIN attributes(t) }

(* find_tag and the search of handle_attribute_name, tabulated.            *)
KnownTags == { t \in Elements : Lookup(tags, t) # INVALID }
AttributeNumber ==
  [ t \in Elements |-> [ a \in Names |-> Lookup(attributes(t), a) ] ]

=============================================================================
